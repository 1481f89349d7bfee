------------------------------ MODULE Withdrawals ------------------------------
(***************************************************************************)
(* The withdrawal side of the shuestand backend: ecash (or a paid          *)
(* Lightning invoice) comes in, one on-chain payment goes out.             *)
(*                                                                         *)
(* The actors are the HTTP handlers (a request creates a row, a NUT-18     *)
(* callback funds it, an operator overrides it), the withdrawal worker     *)
(* (workers/withdrawal.rs), the settlement watcher (main.rs) and the       *)
(* transaction notifier (transactions.rs).  Each works on a row it read    *)
(* earlier; the database statements in between are the atomic steps.       *)
(*                                                                         *)
(* Amounts are abstracted: a token covers the requested amount or its      *)
(* redemption fails.  Float capacity is a nondeterministic refusal.        *)
(***************************************************************************)
EXTENDS Naturals

CONSTANTS
    Ids,            \* withdrawal ids
    Tokens,         \* ecash tokens customers can present
    Operators,      \* concurrent operator requests
    Callbacks,      \* concurrent NUT-18 callback requests
    Kinds,          \* funding variants the customers use
    Boots,          \* which wallets a process start manages to initialise
    MaxAttempts,    \* WITHDRAWAL_WORKER_MAX_ATTEMPTS, at least 1 in the code
    MaxFaults,      \* bound: failing database, mint or node calls
    MaxRestarts,    \* bound: process crashes
    MaxRequeues,    \* bound: operator requeues
    NoId, NoToken   \* absent values

ASSUME AttemptsAssumption == MaxAttempts \in Nat \ {0}
ASSUME BoundsAssumption ==
    MaxFaults \in Nat /\ MaxRestarts \in Nat /\ MaxRequeues \in Nat
ASSUME KindsAssumption == Kinds \subseteq {"token", "request", "lightning"}
ASSUME BootsAssumption == 
    Boots \subseteq [cashu : BOOLEAN, onchain : BOOLEAN] /\ Boots # {}
ASSUME NullAssumption == NoId \notin Ids /\ NoToken \notin Tokens

VARIABLES
    \* the database
    row,            \* the withdrawals table
    announced,      \* counter increments (and webhooks) emitted per withdrawal
    \* the mint, the Lightning network, the clock and the chain
    redeemedBy,     \* withdrawal whose execution spent the token at the mint
    quote,          \* state of the withdrawal's Lightning mint quote
    expired,        \* withdrawals whose invoice or payment request has expired
    payouts,        \* transactions broadcast for the withdrawal
    mined,          \* withdrawals with a confirmed payout transaction
    \* the withdrawal worker
    wpc, wcur,      \* where it is and the row it works on
    todo,           \* rest of the list it fetched
    snap,           \* what it read of the queued rows it listed
    wout,           \* outcome of the current execution
    \* the settlement watcher
    spc, scur, stodo, ssnap,
    \* HTTP requests in flight
    cb, op,
    \* the process
    boot,           \* wallets initialised at the last start
    halted,         \* operation mode is Halt
    \* accounting of the model
    unrecorded,     \* payouts whose outcome was never written to the row
    requeues,       \* operator requeues of the withdrawal
    faults, restarts

dbVars     == <<row, announced>>
worldVars  == <<redeemedBy, quote, expired, payouts, mined>>
workerVars == <<wpc, wcur, todo, snap, wout>>
watchVars  == <<spc, scur, stodo, ssnap>>
httpVars   == <<cb, op>>
procVars   == <<boot, halted>>
bookVars   == <<unrecorded, requeues>>
vars == <<dbVars, worldVars, workerVars, watchVars, httpVars, procVars,
          bookVars, faults, restarts>>

States == {"absent", "funding", "queued", "broadcasting", "confirming",
           "settled", "failed", "archived"}
\* "own": a transaction this wallet broadcast for the row; "other": a txid
\* typed by an operator or made up by the mock executor.
TxIds == {"none", "own", "other"}
Row == [state : States, kind : Kinds \cup {"none"},
        token : Tokens \cup {NoToken}, consumed : BOOLEAN, txid : TxIds,
        attempts : Nat, counted : BOOLEAN]
Snap == [token : Tokens \cup {NoToken}, consumed : BOOLEAN,
         attempts : Nat]
SettleSnap == [state : States, txid : TxIds]
NoRow == [state |-> "absent", kind |-> "none", token |-> NoToken,
          consumed |-> FALSE, txid |-> "none", attempts |-> 0,
          counted |-> FALSE]
NoSnap == [token |-> NoToken, consumed |-> FALSE, attempts |-> 0]
NoSettleSnap == [state |-> "absent", txid |-> "none"]
NoCallback == [id |-> NoId, token |-> NoToken]
NoAction == [act |-> "none", id |-> NoId, txid |-> "none"]
Actions == {"MarkSettled", "MarkFailed", "Requeue", "Archive"}

InState(ids, states) == {w \in ids : row[w].state \in states}

\* main.rs picks the executor from the wallets that came up.
Executor == IF ~boot.cashu THEN "mock"
            ELSE IF boot.onchain THEN "payout" ELSE "redeem"

Init ==
    /\ row = [w \in Ids |-> NoRow]
    /\ announced = [w \in Ids |-> 0]
    /\ redeemedBy = [t \in Tokens |-> NoId]
    /\ quote = [w \in Ids |-> "none"]
    /\ expired = {} /\ mined = {}
    /\ payouts = [w \in Ids |-> 0]
    /\ wpc = "idle" /\ wcur = NoId /\ todo = {} /\ wout = "none"
    /\ snap = [w \in Ids |-> NoSnap]
    /\ spc = "idle" /\ scur = NoId /\ stodo = {}
    /\ ssnap = [w \in Ids |-> NoSettleSnap]
    /\ cb = [c \in Callbacks |-> NoCallback]
    /\ op = [o \in Operators |-> NoAction]
    /\ boot \in Boots /\ halted = FALSE
    /\ unrecorded = [w \in Ids |-> 0] /\ requeues = [w \in Ids |-> 0]
    /\ faults = 0 /\ restarts = 0

--------------------------------------------------------------------------------
(***************************************************************************)
(* The customer, the chain and the clock.                                  *)
(***************************************************************************)

\* request_withdrawal: the mode was read before, so the insert is not tied to
\* the current one; without an on-chain wallet the handler refuses.
RequestWithdrawal(w, kind, t) ==
    /\ row[w].state = "absent" /\ boot.onchain
    /\ kind = "lightning" => boot.cashu
    /\ (kind = "token") = (t # NoToken)
    /\ row' = [row EXCEPT ![w] =
                 [NoRow EXCEPT !.kind = kind, !.token = t,
                    !.state = IF kind = "token" THEN "queued" ELSE "funding"]]
    /\ quote' = [quote EXCEPT ![w] = IF kind = "lightning" THEN "unpaid" ELSE @]
    /\ UNCHANGED <<announced, redeemedBy, expired, payouts, mined, workerVars,
                   watchVars, httpVars, procVars, bookVars, faults, restarts>>

\* A BOLT11 invoice can be paid until it expires.
PayInvoice(w) ==
    /\ quote[w] = "unpaid" /\ w \notin expired
    /\ quote' = [quote EXCEPT ![w] = "paid"]
    /\ UNCHANGED <<dbVars, redeemedBy, expired, payouts, mined, workerVars,
                   watchVars, httpVars, procVars, bookVars, faults, restarts>>

Expire(w) ==
    /\ row[w].kind \in {"request", "lightning"} /\ w \notin expired
    /\ expired' = expired \cup {w}
    /\ UNCHANGED <<dbVars, redeemedBy, quote, payouts, mined, workerVars,
                   watchVars, httpVars, procVars, bookVars, faults, restarts>>

Mine(w) ==
    /\ payouts[w] > 0 /\ w \notin mined
    /\ mined' = mined \cup {w}
    /\ UNCHANGED <<dbVars, redeemedBy, quote, expired, payouts, workerVars,
                   watchVars, httpVars, procVars, bookVars, faults, restarts>>

--------------------------------------------------------------------------------
(***************************************************************************)
(* NUT-18 callback: checks on a fetched row, then the locked update.       *)
(***************************************************************************)

\* submit_payment_request up to the call of record_payment_request_token_locked
SubmitPayment(c, w, t) ==
    /\ cb[c] = NoCallback /\ boot.onchain
    /\ row[w].state = "funding" /\ row[w].kind = "request"
    /\ row[w].token = NoToken /\ w \notin expired
    /\ cb' = [cb EXCEPT ![c] = [id |-> w, token |-> t]]
    /\ UNCHANGED <<dbVars, worldVars, workerVars, watchVars, op, procVars,
                   bookVars, faults, restarts>>

\* Mutated form of RecordPayment: the state is not rechecked under the lock.
RecordPaymentUnchecked(c) ==
    /\ cb[c] # NoCallback
    /\ row' = [row EXCEPT ![cb[c].id].token = cb[c].token,
                          ![cb[c].id].state = "queued"]
    /\ cb' = [cb EXCEPT ![c] = NoCallback]
    /\ UNCHANGED <<announced, worldVars, workerVars, watchVars, op, procVars,
                   bookVars, faults, restarts>>

\* record_payment_request_token_locked rechecks the state under the lock; it
\* may also refuse for lack of float capacity.
RecordPayment(c) ==
    /\ cb[c] # NoCallback
    /\ LET w == cb[c].id IN
         \/ /\ row[w].state = "funding"
            /\ row' = [row EXCEPT ![w].token = cb[c].token, ![w].state = "queued"]
         \/ UNCHANGED row
    /\ cb' = [cb EXCEPT ![c] = NoCallback]
    /\ UNCHANGED <<announced, worldVars, workerVars, watchVars, op, procVars,
                   bookVars, faults, restarts>>

--------------------------------------------------------------------------------
(***************************************************************************)
(* Operator overrides: guard on a fetched row, then an unconditional       *)
(* update of state and txid.                                               *)
(***************************************************************************)

\* The guards of operate_withdrawal, by action.
MayOperate(act, state) ==
    CASE act = "MarkSettled" -> state \notin {"settled", "funding"}
      [] act = "MarkFailed"  -> state # "settled"
      [] act = "Requeue"     -> state \in {"failed", "broadcasting", "confirming"}
      [] act = "Archive"     -> state \in {"failed", "funding"}

OperateFetch(o, w, act, txid) ==
    /\ op[o] = NoAction /\ row[w].state # "absent"
    /\ MayOperate(act, row[w].state)
    /\ txid = row[w].txid \/ (act = "MarkSettled" /\ txid = "other")
    /\ op' = [op EXCEPT ![o] = [act |-> act, id |-> w, txid |-> txid]]
    /\ UNCHANGED <<dbVars, worldVars, workerVars, watchVars, cb, procVars,
                   bookVars, faults, restarts>>

\* Mutated form of ManualUpdate: a requeue keeps the attempt count.
ManualUpdateKeepsAttempts(r, act, txid) ==
    [r EXCEPT
       !.state = CASE act = "MarkSettled" -> "settled"
                   [] act = "MarkFailed"  -> "failed"
                   [] act = "Requeue"     -> "queued"
                   [] act = "Archive"     -> "archived",
       !.txid = txid]

\* manual_update_withdrawal_state
ManualUpdate(r, act, txid) ==
    [r EXCEPT
       !.state = CASE act = "MarkSettled" -> "settled"
                   [] act = "MarkFailed"  -> "failed"
                   [] act = "Requeue"     -> "queued"
                   [] act = "Archive"     -> "archived",
       !.txid = txid,
       !.attempts = IF act = "Requeue" THEN 0 ELSE @]

OperateWrite(o) ==
    /\ op[o] # NoAction
    /\ op[o].act = "Requeue" => requeues[op[o].id] < MaxRequeues
    /\ row' = [row EXCEPT ![op[o].id] = ManualUpdate(@, op[o].act, op[o].txid)]
    /\ requeues' = [requeues EXCEPT ![op[o].id] =
                      IF op[o].act = "Requeue" THEN @ + 1 ELSE @]
    /\ op' = [op EXCEPT ![o] = NoAction]
    /\ UNCHANGED <<announced, worldVars, workerVars, watchVars, cb, procVars,
                   unrecorded, faults, restarts>>

SetHalt ==
    /\ halted' = ~halted
    /\ UNCHANGED <<dbVars, worldVars, workerVars, watchVars, httpVars, boot,
                   bookVars, faults, restarts>>

--------------------------------------------------------------------------------
(***************************************************************************)
(* WithdrawalWorker: tick_funding, then the queued rows.                   *)
(***************************************************************************)

Fault == faults < MaxFaults /\ faults' = faults + 1
NoFault == faults' = faults

\* The worker moves on to pc with its other variables unchanged.
Goto(pc) == wpc' = pc /\ UNCHANGED <<wcur, todo, snap, wout>>

\* An error that tick() does not catch: the rest of the tick is dropped.
AbortTick ==
    /\ wpc' = "idle" /\ wcur' = NoId /\ todo' = {} /\ wout' = "none"
    /\ snap' = [w \in Ids |-> NoSnap]

\* The current row is done with; the loop goes on at pc.
NextItem(pc) ==
    /\ wpc' = pc /\ wcur' = NoId /\ wout' = "none"
    /\ snap' = IF wcur = NoId THEN snap ELSE [snap EXCEPT ![wcur] = NoSnap]
    /\ UNCHANGED todo

\* Mutated form of Outcome: a failed redemption is logged and execution goes on.
OutcomeIgnoresRedeem(result) ==
    IF wpc = "redeem" THEN Goto("consume")
    ELSE wpc' = "record" /\ wout' = result /\ UNCHANGED <<wcur, todo, snap>>

\* execute() returned; wout is what record_withdrawal_attempt will be told.
Outcome(result) ==
    wpc' = "record" /\ wout' = result /\ UNCHANGED <<wcur, todo, snap>>

\* Start of an iteration of run(): Halt pauses it; without a cashu wallet
\* tick_funding returns at once.
StartTick ==
    /\ wpc = "idle" /\ ~halted
    /\ IF boot.cashu
         THEN wpc' = "funding" /\ todo' = InState(Ids, {"funding"})
         ELSE wpc' = "list" /\ todo' = {}
    /\ UNCHANGED <<wcur, snap, wout>>
    /\ UNCHANGED <<dbVars, worldVars, watchVars, httpVars, procVars, bookVars,
                   faults, restarts>>

\* One funding row without progress: not a Lightning row, or not paid yet.
FundingSkip(w) ==
    /\ wpc = "funding" /\ w \in todo
    /\ row[w].kind # "lightning" \/ (w \notin expired /\ quote[w] = "unpaid")
    /\ todo' = todo \ {w} /\ UNCHANGED <<wpc, wcur, snap, wout>>
    /\ UNCHANGED <<dbVars, worldVars, watchVars, httpVars, procVars, bookVars,
                   faults, restarts>>

\* Mutated form of FundingExpired: an expired invoice is an error of the tick.
FundingExpiredAborts(w) ==
    /\ wpc = "funding" /\ w \in todo
    /\ row[w].kind = "lightning" /\ w \in expired /\ AbortTick
    /\ UNCHANGED <<dbVars, worldVars, watchVars, httpVars, procVars, bookVars,
                   faults, restarts>>

\* mark_lightning_invoice_expired: conditional on the row still being funding.
FundingExpired(w) ==
    /\ wpc = "funding" /\ w \in todo
    /\ row[w].kind = "lightning" /\ w \in expired
    /\ IF row[w].state = "funding"
         THEN row' = [row EXCEPT ![w].state = "failed"]
         ELSE UNCHANGED row
    /\ todo' = todo \ {w} /\ UNCHANGED <<wpc, wcur, snap, wout>>
    /\ UNCHANGED <<announced, worldVars, watchVars, httpVars, procVars,
                   bookVars, faults, restarts>>

\* check_mint_quote_status says Paid or Issued; a paid quote is minted first.
FundingPaid(w) ==
    /\ wpc = "funding" /\ w \in todo
    /\ row[w].kind = "lightning" /\ w \notin expired
    /\ quote[w] \in {"paid", "issued"}
    /\ quote' = [quote EXCEPT ![w] = "issued"]
    /\ wpc' = "fund" /\ wcur' = w /\ todo' = todo \ {w}
    /\ UNCHANGED <<snap, wout>>
    /\ UNCHANGED <<dbVars, redeemedBy, expired, payouts, mined, watchVars,
                   httpVars, procVars, bookVars, faults, restarts>>

\* A mint call fails, possibly after the ecash was issued: the tick ends and
\* the queued rows are not looked at.
FundingError(w) ==
    /\ wpc = "funding" /\ w \in todo /\ Fault
    /\ row[w].kind = "lightning" /\ w \notin expired
    /\ \/ UNCHANGED quote
       \/ quote[w] = "paid" /\ quote' = [quote EXCEPT ![w] = "issued"]
    /\ AbortTick
    /\ UNCHANGED <<dbVars, redeemedBy, expired, payouts, mined, watchVars,
                   httpVars, procVars, bookVars, restarts>>

\* record_lightning_invoice_funded: conditional on the row being funding.
FundingRecord ==
    /\ wpc = "fund"
    /\ \/ /\ NoFault /\ NextItem("funding")
          /\ row[wcur].state = "funding"
          /\ row' = [row EXCEPT ![wcur].consumed = TRUE, ![wcur].state = "queued"]
       \/ /\ NoFault /\ NextItem("funding")
          /\ row[wcur].state # "funding" /\ UNCHANGED row
       \/ Fault /\ AbortTick /\ UNCHANGED row
    /\ UNCHANGED <<announced, worldVars, watchVars, httpVars, procVars,
                   bookVars, restarts>>

FundingDone ==
    /\ wpc = "funding" /\ todo = {} /\ Goto("list")
    /\ UNCHANGED <<dbVars, worldVars, watchVars, httpVars, procVars, bookVars,
                   faults, restarts>>

\* list_withdrawals_by_state([Queued]); the order of the list is abstracted.
ListQueued ==
    /\ wpc = "list"
    /\ todo' = InState(Ids, {"queued"})
    /\ snap' = [w \in Ids |-> IF row[w].state = "queued"
                  THEN [token |-> row[w].token, consumed |-> row[w].consumed,
                        attempts |-> row[w].attempts]
                  ELSE NoSnap]
    /\ wpc' = "queued" /\ UNCHANGED <<wcur, wout>>
    /\ UNCHANGED <<dbVars, worldVars, watchVars, httpVars, procVars, bookVars,
                   faults, restarts>>

QueuedDone ==
    /\ wpc = "queued" /\ todo = {} /\ Goto("idle")
    /\ UNCHANGED <<dbVars, worldVars, watchVars, httpVars, procVars, bookVars,
                   faults, restarts>>

\* execute() on the row as it was listed: the mock settles at once, a consumed
\* row goes straight to the payout, a row without a token is an error.
Execute(w) ==
    /\ wpc = "queued" /\ w \in todo
    /\ wcur' = w /\ todo' = todo \ {w} /\ UNCHANGED snap
    /\ \/ Executor = "mock" /\ wpc' = "record" /\ wout' = "settled"
       \/ /\ Executor # "mock" /\ snap[w].consumed
          /\ IF Executor = "payout"
               THEN wpc' = "send" /\ UNCHANGED wout
               ELSE wpc' = "record" /\ wout' = "broadcasting"
       \/ /\ Executor # "mock" /\ ~snap[w].consumed
          /\ IF snap[w].token = NoToken
               THEN wpc' = "record" /\ wout' = "error"
               ELSE wpc' = "redeem" /\ UNCHANGED wout
    /\ UNCHANGED <<dbVars, worldVars, watchVars, httpVars, procVars, bookVars,
                   faults, restarts>>

\* redeem: the mint spends the proofs once.  A failure may come before or
\* after that (a foreign swap that cannot be completed, a refused amount).
Redeem ==
    /\ wpc = "redeem"
    /\ LET t == snap[wcur].token IN
         \/ /\ redeemedBy[t] = NoId /\ NoFault
            /\ redeemedBy' = [redeemedBy EXCEPT ![t] = wcur]
            /\ Goto("consume")
         \/ /\ redeemedBy[t] # NoId /\ NoFault
            /\ UNCHANGED redeemedBy /\ Outcome("error")
         \/ /\ Fault /\ Outcome("error")
            /\ \/ UNCHANGED redeemedBy
               \/ /\ redeemedBy[t] = NoId
                  /\ redeemedBy' = [redeemedBy EXCEPT ![t] = wcur]
    /\ UNCHANGED <<dbVars, quote, expired, payouts, mined, watchVars, httpVars,
                   procVars, bookVars, restarts>>

\* record_token_consumed, by id only; its failure is an execution error.
RecordConsumed ==
    /\ wpc = "consume"
    /\ \/ /\ NoFault
          /\ row' = [row EXCEPT ![wcur].consumed = TRUE]
          /\ IF Executor = "payout" THEN Goto("send") ELSE Outcome("broadcasting")
       \/ Fault /\ Outcome("error") /\ UNCHANGED row
    /\ UNCHANGED <<announced, worldVars, watchVars, httpVars, procVars,
                   bookVars, restarts>>

\* send_to_address: sync, build, sign, broadcast.  A fault is an error before
\* the broadcast, or one reported although the network took the transaction.
Send ==
    /\ wpc = "send"
    /\ \/ /\ NoFault /\ Outcome("settled")
          /\ payouts' = [payouts EXCEPT ![wcur] = @ + 1]
          /\ UNCHANGED unrecorded
       \/ Fault /\ Outcome("error") /\ UNCHANGED <<payouts, unrecorded>>
       \/ /\ Fault /\ Outcome("error")
          /\ payouts' = [payouts EXCEPT ![wcur] = @ + 1]
          /\ unrecorded' = [unrecorded EXCEPT ![wcur] = @ + 1]
    /\ UNCHANGED <<dbVars, redeemedBy, quote, expired, mined, watchVars,
                   httpVars, procVars, requeues, restarts>>

\* Mutated forms of Attempted: the outcome is written as the state; a settled
\* outcome leaves the state alone; one attempt too many.
AttemptedRaw(r, result, seen) ==
    [r EXCEPT !.state = result, !.attempts = @ + 1]
AttemptedKeepsState(r, result, seen) ==
    [r EXCEPT
       !.state = IF result # "error" \/ seen + 1 < MaxAttempts THEN @ ELSE "failed",
       !.attempts = @ + 1]
AttemptedOnceMore(r, result, seen) ==
    [r EXCEPT
       !.state = IF result # "error" THEN result
                 ELSE IF seen < MaxAttempts THEN "queued" ELSE "failed",
       !.attempts = @ + 1]

\* The row after record_withdrawal_attempt: state by outcome (and, on an error,
\* by the attempt number read with the list), txid coalesced.
Attempted(r, result, seen) ==
    [r EXCEPT
       !.state = IF result # "error" THEN result
                 ELSE IF seen + 1 < MaxAttempts THEN "queued" ELSE "failed",
       !.txid = IF result # "settled" THEN @
                ELSE IF Executor = "payout" THEN "own" ELSE "other",
       !.attempts = @ + 1]

\* The payout of the current execution is on the network but not in the row.
PayoutInFlight == wpc = "record" /\ wout = "settled" /\ Executor = "payout"

RecordAttempt ==
    /\ wpc = "record"
    /\ \/ /\ NoFault /\ UNCHANGED unrecorded
          /\ row' = [row EXCEPT ![wcur] =
                        Attempted(@, wout, snap[wcur].attempts)]
          /\ IF wout = "settled" THEN Goto("notify") ELSE NextItem("queued")
       \/ /\ Fault /\ AbortTick /\ UNCHANGED row
          /\ unrecorded' = IF PayoutInFlight
               THEN [unrecorded EXCEPT ![wcur] = @ + 1] ELSE unrecorded
    /\ UNCHANGED <<announced, worldVars, watchVars, httpVars, procVars,
                   requeues, restarts>>

--------------------------------------------------------------------------------
(***************************************************************************)
(* TransactionNotifier::record: claim the row, then count and announce it. *)
(* The worker and the watcher both call it.                                *)
(***************************************************************************)

\* Mutated form of MarkCounted: the row is counted without being marked.
MarkNothing(w) == UNCHANGED row

\* mark_withdrawal_transaction_counted: only the first caller gets it.
MarkCounted(w) == row' = [row EXCEPT ![w].counted = TRUE]

\* increment_transaction_counter and the webhook.
Announce(w) == announced' = [announced EXCEPT ![w] = @ + 1]

WorkerNotify ==
    /\ wpc = "notify"
    /\ \/ /\ NoFault /\ MarkCounted(wcur)
          /\ IF row[wcur].counted THEN NextItem("queued") ELSE Goto("count")
       \/ Fault /\ NextItem("queued") /\ UNCHANGED row
    /\ UNCHANGED <<announced, worldVars, watchVars, httpVars, procVars,
                   bookVars, restarts>>

WorkerCount ==
    /\ wpc = "count" /\ NextItem("queued")
    /\ \/ NoFault /\ Announce(wcur)
       \/ Fault /\ UNCHANGED announced
    /\ UNCHANGED <<row, worldVars, watchVars, httpVars, procVars, bookVars,
                   restarts>>

--------------------------------------------------------------------------------
(***************************************************************************)
(* process_withdrawal_settlements: rows with a txid follow the chain.      *)
(***************************************************************************)

WatchNext ==
    /\ spc' = "scan" /\ scur' = NoId /\ UNCHANGED <<stodo, ssnap>>

WatchStop ==
    /\ spc' = "idle" /\ scur' = NoId /\ stodo' = {}
    /\ ssnap' = [w \in Ids |-> NoSettleSnap]

WatchList ==
    /\ spc = "idle" /\ ~halted /\ boot.onchain
    /\ stodo' = InState(Ids, {"broadcasting", "confirming"})
    /\ stodo' # {}
    /\ ssnap' = [w \in Ids |-> IF w \in stodo'
                   THEN [state |-> row[w].state, txid |-> row[w].txid]
                   ELSE NoSettleSnap]
    /\ spc' = "scan" /\ UNCHANGED scur
    /\ UNCHANGED <<dbVars, worldVars, workerVars, httpVars, procVars, bookVars,
                   faults, restarts>>

\* What tx_status may report of the txid the watcher read.  The wallet sees
\* no more than its last sync; a foreign txid may be any transaction.
ObservedStatus(w) ==
    {"unseen"} \cup
    (IF ssnap[w].txid = "other" THEN {"pending", "confirmed"} ELSE {}) \cup
    (IF ssnap[w].txid = "own" /\ w \in mined THEN {"confirmed"} ELSE {}) \cup
    (IF ssnap[w].txid = "own" /\ (w \notin mined \/ payouts[w] > 1)
       THEN {"pending"} ELSE {})

WatchSkip(w) ==
    /\ spc = "scan" /\ w \in stodo
    /\ ssnap[w].txid = "none" \/ "unseen" \in ObservedStatus(w)
    /\ stodo' = stodo \ {w} /\ UNCHANGED <<spc, scur, ssnap>>
    /\ UNCHANGED <<dbVars, worldVars, workerVars, httpVars, procVars, bookVars,
                   faults, restarts>>

\* update_withdrawal_chain_state(Confirming), by id only
WatchPending(w) ==
    /\ spc = "scan" /\ w \in stodo
    /\ ssnap[w].txid # "none" /\ "pending" \in ObservedStatus(w)
    /\ IF ssnap[w].state = "broadcasting"
         THEN row' = [row EXCEPT ![w].state = "confirming"]
         ELSE UNCHANGED row
    /\ stodo' = stodo \ {w} /\ UNCHANGED <<spc, scur, ssnap>>
    /\ UNCHANGED <<announced, worldVars, workerVars, httpVars, procVars,
                   bookVars, faults, restarts>>

\* update_withdrawal_chain_state(Settled), by id only, then the notifier
WatchConfirmed(w) ==
    /\ spc = "scan" /\ w \in stodo
    /\ ssnap[w].txid # "none" /\ "confirmed" \in ObservedStatus(w)
    /\ row' = [row EXCEPT ![w].state = "settled"]
    /\ stodo' = stodo \ {w} /\ spc' = "notify" /\ scur' = w /\ UNCHANGED ssnap
    /\ UNCHANGED <<announced, worldVars, workerVars, httpVars, procVars,
                   bookVars, faults, restarts>>

WatchNotify ==
    /\ spc = "notify"
    /\ \/ /\ NoFault /\ MarkCounted(scur)
          /\ IF row[scur].counted THEN WatchNext
             ELSE spc' = "count" /\ UNCHANGED <<scur, stodo, ssnap>>
       \/ Fault /\ WatchNext /\ UNCHANGED row
    /\ UNCHANGED <<announced, worldVars, workerVars, httpVars, procVars,
                   bookVars, restarts>>

WatchCount ==
    /\ spc = "count" /\ WatchNext
    /\ \/ NoFault /\ Announce(scur)
       \/ Fault /\ UNCHANGED announced
    /\ UNCHANGED <<row, worldVars, workerVars, httpVars, procVars, bookVars,
                   restarts>>

\* The pass ends, at the end of the list or on a failing call.
WatchEnd ==
    /\ spc = "scan" /\ WatchStop
    /\ (stodo = {} /\ NoFault) \/ (stodo # {} /\ Fault)
    /\ UNCHANGED <<dbVars, worldVars, workerVars, httpVars, procVars, bookVars,
                   restarts>>

--------------------------------------------------------------------------------
\* The process dies and starts again; only the database survives.
Restart ==
    /\ restarts < MaxRestarts /\ restarts' = restarts + 1
    /\ boot' \in Boots
    /\ unrecorded' = IF PayoutInFlight
                       THEN [unrecorded EXCEPT ![wcur] = @ + 1] ELSE unrecorded
    /\ AbortTick /\ WatchStop
    /\ cb' = [c \in Callbacks |-> NoCallback]
    /\ op' = [o \in Operators |-> NoAction]
    /\ UNCHANGED <<dbVars, worldVars, halted, requeues, faults>>

Customer ==
    \E w \in Ids :
       \/ \E kind \in Kinds, t \in Tokens \cup {NoToken} :
             RequestWithdrawal(w, kind, t)
       \/ PayInvoice(w)
       \/ \E c \in Callbacks, t \in Tokens : SubmitPayment(c, w, t)

Environment == \E w \in Ids : Expire(w) \/ Mine(w)

Handlers == \E c \in Callbacks : RecordPayment(c)

Operate ==
    \/ \E o \in Operators, w \in Ids, act \in Actions, txid \in TxIds :
          OperateFetch(o, w, act, txid)
    \/ \E o \in Operators : OperateWrite(o)
    \/ SetHalt

Worker ==
    \/ StartTick \/ FundingRecord \/ FundingDone \/ ListQueued \/ QueuedDone
    \/ Redeem \/ RecordConsumed \/ Send \/ RecordAttempt
    \/ WorkerNotify \/ WorkerCount
    \/ \E w \in Ids : FundingSkip(w) \/ FundingExpired(w) \/ FundingPaid(w)
                      \/ FundingError(w) \/ Execute(w)

Watcher ==
    \/ WatchList \/ WatchNotify \/ WatchCount \/ WatchEnd
    \/ \E w \in Ids : WatchSkip(w) \/ WatchPending(w) \/ WatchConfirmed(w)

Next == Customer \/ Environment \/ Handlers \/ Operate \/ Worker \/ Watcher
        \/ Restart

Spec == Init /\ [][Next]_vars

\* The worker is a loop the runtime keeps scheduling, and time passes; nobody
\* else is assumed to do anything.
FairSpec ==
    Spec /\ WF_vars(Worker) /\ \A w \in Ids : WF_vars(Expire(w))

--------------------------------------------------------------------------------
(***************************************************************************)
(* Properties                                                              *)
(***************************************************************************)

\* Every variable has its type.
TypeOK ==
    /\ row \in [Ids -> Row]
    /\ announced \in [Ids -> Nat]
    /\ redeemedBy \in [Tokens -> Ids \cup {NoId}]
    /\ quote \in [Ids -> {"none", "unpaid", "paid", "issued"}]
    /\ expired \subseteq Ids /\ mined \subseteq Ids
    /\ payouts \in [Ids -> Nat]
    /\ wpc \in {"idle", "funding", "fund", "list", "queued", "redeem",
                "consume", "send", "record", "notify", "count"}
    /\ wcur \in Ids \cup {NoId} /\ todo \subseteq Ids
    /\ snap \in [Ids -> Snap]
    /\ wout \in {"none", "settled", "broadcasting", "error"}
    /\ spc \in {"idle", "scan", "notify", "count"}
    /\ scur \in Ids \cup {NoId} /\ stodo \subseteq Ids
    /\ ssnap \in [Ids -> SettleSnap]
    /\ cb \in [Callbacks ->
               [id : Ids \cup {NoId}, token : Tokens \cup {NoToken}]]
    /\ op \in [Operators -> [act : Actions \cup {"none"}, id : Ids \cup {NoId},
                             txid : TxIds]]
    /\ boot \in Boots /\ halted \in BOOLEAN
    /\ unrecorded \in [Ids -> Nat] /\ requeues \in [Ids -> Nat]
    /\ faults \in Nat /\ restarts \in Nat

\* A withdrawal is paid at most once for the customer, once more for each
\* operator requeue and once more for each payout the database never learnt
\* of: the only ways this code pays twice (operate_withdrawal, and the window
\* between the broadcast in send_to_address and record_withdrawal_attempt).
PayoutsAccounted ==
    \A w \in Ids : payouts[w] <= 1 + unrecorded[w] + requeues[w]

\* Nothing is paid out before the customer's money is in: every payout's row
\* has its token spent at the mint by that very withdrawal, or its Lightning
\* quote issued to our wallet (the token_consumed branches of execute()).
PayoutBacked ==
    \A w \in Ids : payouts[w] > 0 =>
        /\ row[w].consumed
        /\ row[w].kind = "lightning" => quote[w] = "issued"
        /\ row[w].kind # "lightning" =>
              row[w].token # NoToken /\ redeemedBy[row[w].token] = w

\* Two withdrawals never live off one token, however often it was presented.
OneTokenOnePayout ==
    \A v, w \in Ids :
        /\ v # w /\ payouts[v] > 0 /\ payouts[w] > 0
        /\ row[v].token # NoToken
        => row[v].token # row[w].token

\* The worker gives up in time: a queued row always has an attempt left, so
\* the limit read with a stale list is never overrun.
QueuedHasAttemptLeft ==
    \A w \in Ids : row[w].state = "queued" => row[w].attempts < MaxAttempts

\* The counter moves and the webhook is sent at most once per withdrawal, even
\* when the worker, the watcher and a requeue settle it again (record()).
AnnouncedOnce ==
    \A w \in Ids : announced[w] <= 1 /\ (announced[w] = 1 => row[w].counted)

\* A funded payment request keeps the token it was funded with: concurrent or
\* repeated callbacks never replace it (record_payment_request_token_locked).
TokenIsKept ==
    [][\A w \in Ids : row[w].token # NoToken => row'[w].token = row[w].token]_vars

\* Once Halt is over for good every queued withdrawal is dealt with: a mint
\* that keeps failing, a token spent elsewhere or another customer's invoice
\* delays it, and never for ever (run(), tick(), tick_funding()).  Faults are
\* bounded, so the mint and the database recover in the end.
QueuedIsServed ==
    <>[](~halted) =>
        \A w \in Ids : (row[w].state = "queued") ~> (row[w].state # "queued")

\* The withdrawal side implements the payout ledger: "charged" is the row's
\* token_consumed, and every requeue or lost record allows one more payment.
Ledger == INSTANCE PayoutLedger WITH
    charged <- {w \in Ids : row[w].consumed},
    paid    <- payouts,
    allowed <- [w \in Ids |-> 1 + unrecorded[w] + requeues[w]]

ImplementsLedger == Ledger!Spec

\* What docs/api.md says of a settled withdrawal: "payout final".
SettledIsFinal ==
    [][\A w \in Ids : row[w].state = "settled" => row'[w].state = "settled"]_vars

\* A row settles after the payout has a confirmation, as the changelog has it.
SettledAfterConfirmation ==
    [][\A w \in Ids : wpc = "record" /\ wcur = w /\ row[w].state # "settled"
         /\ row'[w].state = "settled" => w \in mined]_vars

\* The recorded error of an expired invoice: no payment had been received.
ExpiredMeansUnpaid ==
    [][\A w \in Ids : row[w].state = "funding" /\ row'[w].state = "failed"
         /\ wpc = "funding" /\ todo' # todo => quote[w] = "unpaid"]_vars
================================================================================
