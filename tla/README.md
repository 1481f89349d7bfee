# Formal models of the shuestand backend

shuestand is a Bitcoin/ecash kiosk: a customer pays bitcoin on-chain and picks
up an ecash token (a *deposit*), or hands in ecash or pays a Lightning invoice
and receives an on-chain payment (a *withdrawal*). The backend
(`src/backend`) is one Rust process over one PostgreSQL database, with HTTP
handlers and background loops that all work on the same rows. These modules
model that backend in TLA+, check it with TLC on small instances, and prove the
safety part with TLAPS for instances of every size.

Read first: `Withdrawals.tla` and `Deposits.tla`, then `FrontDoor.tla` (how
customers get in) and `MintSwap.tla` (how a foreign token becomes canonical
ecash). Each states its actors, one action per database statement or outside
call, and its properties at the end.

## 1. Inventory of the system

Concurrency is the same everywhere: `tokio` tasks interleave at every `await`,
the database statements are the atomic steps, and what a task read before an
`await` may be stale when it writes. Almost all writes are `UPDATE ... WHERE
id = $1`: they do not recheck the state the decision was based on.

| Component | State | Operations | Talks to |
|---|---|---|---|
| Withdrawals (`http.rs`, `db.rs`, `workers/withdrawal.rs`, `main.rs`) | `withdrawals` rows; the worker's and the watcher's lists | request, NUT-18 callback, operator override, Lightning funding, execution (redeem, record, send, record), settlement watcher | mint, Lightning quote, on-chain wallet, notifier |
| Deposits (`http.rs`, `db.rs`, `workers/deposit.rs`, `main.rs`) | `deposits`, `deposit_claims`; the worker's and the watcher's lists | create, pickup, operator override, confirmation watcher, expiry sweep, mint and delivery | chain source (Esplora), cashu wallet, notifier |
| Transaction notifier (`transactions.rs`) | `transaction_counted_at` of a row, the counter | claim the row, count, post a webhook | called by pickup, worker and watcher |
| Admission (`http.rs`) | none of its own: balances, reservations, counts | float caps, per-session and global limits, burst detection, support messages | wallets, database |
| Address pool (`address.rs`) | `addresses` rows | assign, refill | on-chain wallet |
| Sessions (`http.rs`, `db.rs`) | `sessions` | create, resume, touch, purge | every customer handler |
| Operation mode (`main.rs`, `http.rs`, `operations.rs`) | a copy in memory and one in the database | operator switch, escalation after security events, auto-drain | every loop and handler |
| Float guard (`main.rs`) | band and drift state | alerts, auto-drain | operation mode, wallets |
| Mint swap (`wallet/swap.rs`, `wallet/multi.rs`) | quotes in progress | foreign token to canonical ecash | two mints |
| On-chain wallet (`onchain/mod.rs`) and its database (`onchain/postgres_db.rs`) | BDK wallet, key-value rows | send, status, balance, addresses, batches | Esplora |
| Fee estimator (`fees.rs`) | two cached rates | refresh, read | Esplora |
| M5 recovery command (`bin/m5_recover.rs`) | a journal, a plan and a lock | plan, execute, refuse to run again | wallet files, mint |
| Frontends (`src/frontend`) | browser state | clients of the HTTP API | the handlers |

`PROJECT.json` lists the remaining parts (configuration, telemetry, support
messages, command line tools) and, under "hazards", each place where the code
is exposed, with the properties that watch it. What makes the components
correct:

- **Withdrawals**: no payout without the customer's money; no second payout
  that nobody can account for; a token pays for one withdrawal; attempts are
  bounded; a queued row is dealt with; one announcement.
- **Deposits**: no ecash beyond the confirmed bitcoin; no ecash that nobody can
  account for; pickups serve the token once, and a view shows it only of a
  deposit an operator marked fulfilled; a claim is final; a deposit that is not
  paid in full gives up its place; a confirmed one is minted.
- **Admission**: counts and balances are read some awaits before the insert,
  so limits and float can be missed: the limits by the requests that ran side by
  side and the deposits the watcher brought back, the float by what the last
  accepted request could not see and what was paid or reserved since; every
  request is answered; once the mode is away from Normal nobody else
  gets in. **Sessions**: the limits are counted per session, whichever is
  resumed, purged or revived meanwhile.
- **Address pool**: one address, one deposit; refills overshoot the target by a
  bounded number.
- **Operation mode**: memory and database agree when no switch is under way. (A
  late automatic Drain over a Halt is possible and not excluded here, see 5.)
- **Mint swap**: a conversion spends only the proofs its own token brought, pays
  for no invoice that loses more than a twentieth, and leaves every redeemed
  token traceable.
- **M5 recovery**: the loss stays under the ceiling wherever it stops, the
  journal is ahead of each payment, and an interrupted run is not repeated.

## 2. Modules

| Module | Models | State and actions |
|---|---|---|
| `Withdrawals` | the withdrawal side | `row` is the table; `redeemedBy`, `quote`, `expired`, `payouts`, `mined` are the mint, the Lightning quote, the clock and the chain; `wpc/wcur/todo/snap/wout` is the worker's task, `spc/scur/stodo/ssnap` the settlement watcher's; `cb` and `op` are callbacks and operator requests between their read and their write |
| `PayoutLedger` | what the withdrawal side promises | charged before paid; paid as often as allowed |
| `WithdrawalsInv` | the inductive invariant of `Withdrawals` | |
| `WithdrawalsProofs` | types and control; accounting, backing, announcements, refinement | |
| `MCWithdrawals` | TLC instances | boots, symmetry |
| `Deposits` | the deposit side | `dep` and `claims` are the tables; `paid`, `deep`, `old` the chain and the clock; `minted`, `served`, `shown`, `lost` the ecash, `byHand` the deposits an operator marked fulfilled; `wpc...` the deposit worker, `cpc/ccur/ctodo/tip/obs` the confirmation watcher; `pk` and `op` requests in flight |
| `DepositEscrow` | what the deposit side promises | ecash against confirmed bitcoin, one live token, claimed once |
| `DepositsInv`, `DepositsProofs`, `MCDeposits` | as above | |
| `AddressPool` | `assign_address`, `ensure_capacity` | `address`, `owner` are the `addresses` rows, `given` the address in a deposit's own row; `ppc/asking/available/nextIndex/candidate` each caller between two statements |
| `OperationMode` | the three ways the mode is switched | `mode` in memory, `savedMode` in `app_settings`; `spc/want/seenBursts` each setter; `bursts/ratios` the security events in the window; `alone`, `unsure` are history |
| `FrontDoor` | the requests that let a customer in; extends the two above | `sess`, `dep`, `wd`, `recent`, `case` are tables; `hpc/kind/who/asks/seen/behind` each request; `listed` and `due` what the watcher and the worker have listed; `onchain` the balance, `synced` what the wallet knows of it; `revived`, `behind`, `unseen` are history; `cast` says who takes part |
| `AddressPoolProofs`, `OperationModeProofs`, `FrontDoorProofs` | inductive invariants and proofs of each | |
| `MCFrontDoor` | TLC instance | the casts |
| `SumProofs` | sums over finite sets | what the community module's `SumFunctionOnSet` computes |
| `MintSwap` | a conversion: receive, quote, shrink, melt, poll, mint, record, pay out | `row` and `sagas` are the foreign wallet's store, `redeemed` the foreign mint, `invoice` and `credited` the canonical side; `pc...polls` the worker |
| `TokenExchange` | what a conversion promises | a token is given up, buys, is credited and paid out once, in that order |
| `M5Recovery` | `m5_recover`: plan, execute, clean up; extends `MintSwap` | `serving`, `plan`, `lock`, `journal` are on disk; `rpc...moved` the execution |
| `MintSwapProofs`, `M5RecoveryProofs` | inductive invariants and proofs of the two | |
| `MCRecovery` | TLC instance | reserves, ceilings |

The actions keep the code's names where there is one (`RecordPayment` is
`record_payment_request_token_locked`, `Attempted` is the row
`record_withdrawal_attempt` leaves behind, `ChainState` is the decision in
`process_confirmations`); `PROJECT.json` "map" gives the lines of each.

How the code's control is kept:

- **Stale reads.** A list is copied when it is fetched (`snap`, `ssnap`,
  `seen`, `tip`, `obs`) and the write uses the copy, as the code does. An operator
  request checks its guard when it fetches (`OperateFetch`) and writes later,
  whatever the row has become (`OperateWrite`). Conditional updates in the SQL
  (`RecordPayment`, `FundingRecord`, `FundingExpired`, `ClaimPickup`,
  `MarkCounted`) are conditional in the model.
- **Early ends.** A `?` in a loop drops the rest of the pass (`AbortTick`,
  `WatchStop`, `WorkerStop`); an error `execute` returns becomes a recorded
  attempt.
- **Wallets at startup.** `main` picks the executor from the wallets that came
  up; `boot` is chosen again at every start. Without an on-chain wallet the
  redeem-only executor leaves rows in broadcasting without a txid; without a
  cashu wallet the mock executor settles rows with a made-up txid.
- **Crashes.** `Restart` loses every task and request and keeps the database
  and the outside world.
- **Dropped requests.** A pickup may be dropped at any await
  (`PickupDropped`). A callback or operator request that is dropped is one
  that never writes.

### How the modules fit together

`FrontDoor` is the composition of `AddressPool` and `OperationMode` with the
request handlers: it extends both, its requests are the `Users` of the pool and
raise the events that start escalations. That it uses them only through their
own actions is the pair of theorems `UsesPool` and `UsesMode`. `M5Recovery`
starts from any store an interrupted `MintSwap` can leave. `Withdrawals` sees a
conversion as one redemption that succeeds or fails before or after the mint
has spent the token; `MintSwap` is what happens inside it, with amounts.
`Withdrawals` and `Deposits` see admission as a request that may be refused;
`FrontDoor` is what decides it. What a conversion promises is in `TokenExchange`,
which `MintSwap` and `M5Recovery` implement; that `Withdrawals` sees no more of it
than that, and the link from `FrontDoor`, are by reading.

### Abstractions

- In `Withdrawals`, a token either covers the request or its redemption fails,
  before or after the mint spent it; the amounts are in `MintSwap`. The float
  cap of the NUT-18 callback is a refusal it may always make, and nothing more:
  no module computes it. A failing `mark_lightning_invoice_expired` is the tick
  that was aborted.
- Deposit amounts are small numbers. The transactions on an address are two
  sums, all of them and the deep ones. Deep ones are not reorganised away; the
  code has no handling of that either. Only the watcher writes
  `amount_sats`, once per pass, so the listed amount is the row's. The filter
  for transactions older than the deposit (`PREDEPOSIT_TX_TOLERANCE`) is left out:
  addresses are used once. `DepositEscrow` counts as handed over what was
  claimed; what a view shows is in `Deposits` alone.
- A list read that fails at the start of a pass changes nothing, so it is the
  pass not starting. The order of a list is abstracted (any row may be next).
- The notifier is assumed configured; without a webhook URL nothing is counted.
- `txid` is "none", "own" (a transaction this wallet made) or "other" (typed
  by an operator or made up); the watcher may see any status for a foreign
  one, and no more of an own one than the last sync has shown.
- Funding amounts of zero, log output and hints are left out, and so are the
  views, but for the one thing they do that matters: `map_deposit` gives the token
  of a fulfilled row to every reader (`GetDeposit`).
- `AddressPool`: deriving is injective, as it is for a ranged descriptor.
- `FrontDoor`: the cap on minted ecash, what makes a burst, the validation of
  fields and "a session has a deposit or a withdrawal" are refusals any request
  may meet (`GiveUp`). The number of security events saturates at the threshold.
  The float monitor may find the float low at any time (a balance it cannot
  read counts as 0). What is reserved and paid is the amount asked for; the code
  reserves the token's value where it is known, and pays the smaller of the two. The on-chain balance only falls,
  by payouts, their fees and payments by hand; top-ups, which raise it, and
  reorganisations that take back what came in are left out. What the wallet
  thinks it owns follows at its next sync, so a payment is seen late. A deposit is
  listed, closed and written back; how the watcher arrives at what it writes
  is in `Deposits`. After a restart, requests may come before the startup refill is through: more
  behaviours than the code has.
- `MintSwap`, `M5Recovery`: a row stands for the proofs of one wallet operation,
  with their sum; the wallet library and the mints do what `swap.rs` and
  `m5_recover.rs` rely on. There is one worker, so one conversion at a time;
  the recovery command runs with the backend stopped (the operator obeys
  `--backend-stopped`). There is one plan per behaviour. One value of
  `WITHDRAWAL_FEE_BUFFER_SATS` holds for all tokens, as it is configuration. The
  canonical mint issues what its quote says or nothing, so the branch of
  `swap.rs:150` for another amount is not reached. `Report` writes `complete` and
  removes the lock in one step; a stop between the two would leave a complete
  journal with its lock, which refuses the next run.
- Some branches are defensive and never taken in the model, as in the code: the
  loss check on receiving, the budget check after a payment, and the errors in
  the cleanup.

Bounds: `MaxFaults` (failing database, mint, node or chain calls),
`MaxRestarts`, `MaxRequeues` and `MaxSats` are bounds of the model, each in the
guard of the action it bounds; so are `MaxProofs`, `MaxIndex`, `Float`,
`MaxUnseen` (what is put back in the queue without a cap check) and `Casts`. `Fees` is the
set of miner fees a payment may cost. `MaxAttempts`, `Target`, `MaxPerSession`, `MaxGlobal`, `MaxMessages`,
`MaxReductions`, `MaxPolls`, `MaxRounds` and `MaxQuotes` are limits of the code,
smaller in the instances.

## 3. Runs

| Run | Instance | Shows |
|---|---|---|
| `WdFunding` | 2 withdrawals, 2 tokens, 2 callbacks, all funding variants, boots with and without on-chain wallet, 1 fault, 1 crash | `IndInv`, `PayoutBacked`, `OneTokenOnePayout`, `TokenIsKept`, `ImplementsLedger` |
| `WdOperators` | 1 withdrawal, 2 operators, every boot, 1 fault, 2 crashes, 1 requeue | `TypeOK`, `PayoutsAccounted`, `QueuedHasAttemptLeft`, `AnnouncedOnce` |
| `WdQueue` | 2 withdrawals (invoice and token), 2 faults, 1 crash, fairness | `QueuedIsServed` |
| `DpMoney` | 1 deposit of 2 sats paid up to 3, 1 operator, 2 pickups, 2 faults, 1 crash | `IndInv` (with `TypeOK`), `EcashAccounted`, `CoveredByChain`, `ReadyHasToken`, `ServedOnce`, `AnnouncedOnce`, `ClaimIsFinal`, `ImplementsEscrow` |
| `DpQueue` | 1 deposit, 1 operator, 1 pickup, 1 fault, 1 crash, fairness | `UnpaidIsReleased`, `ConfirmedIsServed` |
| `FdAdmission` | 2 requests, 4 deposits (one open at the start), 3 withdrawals of 1 or 2 from a float of 4, miner fees of 1, 2 sats requeued past the cap, 1 session, pool target 2, limits 1 per session and 2 in all, 1 crash, 17 casts | `FdTypeOK`, `AddressNotShared`, `RefillBounded`, `LimitsHold`, `FloatCovered`, `ModeSaved`, `DoorShuts`, `RequestsAnswered` |
| `MsRecovery` | 2 tokens of 12, fee 1, reserves 1, 3 or 20, a third may be lost, ceilings 1 or 5, 2 rounds with 2 quotes each, 1 fault, 1 crash | `TypeOK`, `OnlyOwnProofs`, `PaidWithinLimit`, `PayoutFunded`, `TokenTraced`, `LossWithinCeiling`, `JournalNamesPayment`, `LiveValueStaysActive`, `CompleteIsClean`, `InterruptedIsFinal`, `WorkEnds`, `ImplementsExchange` |
| `MsSurplus` | violation | a conversion that costs more than the surplus asked for is paid and minted, and then refused, although a test permits accounted bounded fees |
| `WdSettledFinal` | violation | the API text calls `settled` final; a running execution that fails puts the row back in the queue or fails it |
| `WdUnconfirmed` | violation | the changelog says a withdrawal settles after its confirmations; the payout executor settles it at the broadcast |
| `WdExpiredPaid` | violation | an invoice paid in time but not looked at before it expires is failed as "expired before payment was received" |
| `DpDeepExpired` | violation | a deposit paid and buried to the target depth is failed by its age and never minted |

Why these bounds are enough for the questions: two withdrawals and two tokens
are what it takes to present one token twice and another after it; two
callbacks race for one row; two operators let one decide on what the other
changes (in `WdOperators`; in `DpMoney` the pickups, the loops and the sweep do that to
one); a deposit of 2 paid up to 3 has the partial, exact, overpaid and
half-buried cases; one fault and one crash reach every error path once (two crashes in `WdOperators`: the watcher only gets a row that a start without on-chain wallet left in broadcasting), two
faults use up the attempts or lose a token twice. Two rows in one list
are needed where the worker's tick carries one row's error to another
(`WdFunding`, `WdQueue`); deposits do not interact, so one is enough. The
theorems below remove the bounds for most safety properties. Symmetry is used in
the safety runs only.

Two requests are what a race between a check and an insert takes, and the
balance, the reservations and the limits are small enough that the races do
happen: there are reachable states in which more is reserved than the wallet
holds, more addresses are free than `Target`, a limit is exceeded by one, and
by a deposit brought back on top, a payout is short of its fee, the two copies of the mode differ, and a session is purged under its request. A
product of all parts is out of reach, so a *cast* says at the start which kinds
of requests, which setters of the mode and which part of the world take part;
the 17 casts of `MCFrontDoor` pair what touches the same state. In `MsRecovery`
a reserve of 1 lets a conversion be paid after one reduction, 3 makes it lose too
much and leaves change for a second round of recovery, 20 is beyond everything; a
ceiling of 1 is refused before a payment, 5 is enough.

Deadlock is checked where the system cannot stop. In `Withdrawals` and
`Deposits` an operator may always switch Halt, so that says little; that the
loops get on is what the liveness properties say. `FdAdmission`, `MsRecovery` and
`MsSurplus` do not check it: a cast without setters ends when its ids are used
up, a recovery ends complete or stopped, and a token may use up its attempts.

### Fairness

`FairSpec` of `Withdrawals` assumes weak fairness of the worker's loop
(`run()` never returns and the runtime schedules it) and that time passes
(`Expire`). `FairSpec` of `Deposits` assumes weak fairness of the confirmation
watcher, the deposit worker and the expiry sweep, each an endless loop with a
sleep, and that a deposit ages. That describes a process whose expiry loop runs
(`PENDING_DEPOSIT_TTL_SECS` above 0) and whose deposit worker was spawned (the cashu
wallet opened at the start). Without the first only another request or an operator's
ledger snapshot sweeps; without the second nothing is minted. Nothing is assumed of customers, blocks,
operators or requests. `QueuedIsServed` and `ConfirmedIsServed` are conditional
on Halt being over for good, because Halt pauses the loops. `UnpaidIsReleased`
is not for a deposit that is never paid in full, because the sweep runs in every
mode; it is for one that was seen in full and lost a part again, which the
watcher has to notice. Faults and crashes are bounded,
which stands for outside services that recover in the end; with a mint that
never answers for one invoice, queued rows wait until that invoice expires.
`FairSpec` of `FrontDoor` assumes weak fairness of each request's own steps (every
await of a handler returns, with an answer or an error), and of nothing else: not
of new requests, the refill task or the setters. `FairSpec` of `M5Recovery`
assumes weak fairness of the worker's steps and of the recovery command's steps.

### Mutants

Next to a definition stand mutated forms of it ("Mutated form of ..."): a
dropped recheck, a missing reset, an off-by-one. They are in no specification.
Put in the definition's place each makes TLC report one property violated,
which shows that the property depends on that piece of the code.
`PROJECT.json` "mutants" pairs them with properties and runs.

## 4. Proofs

All theorems hold for every value of the constants under the named
assumptions of the modules: attempt limits are positive, bounds are naturals,
absent values are not values, amounts are positive, requests, deposits,
withdrawals and addresses are finitely many where they are counted. TLC
evaluates each assumption in a run. Every safety invariant, action property and
refinement that a passing run checks is also a theorem.

**Withdrawals** (`WithdrawalsProofs`). `PayoutsAccounted`
is not inductive: what decides about a second payment is whether the worker
still holds a *listed* copy of the row. `IndInv` adds, besides types:

- `ControlInv`: the worker's program counter, its current row and its lists fit
  together, and what is in a list is never again absent or waiting for funds;
- `AttemptsInv`: the attempts read with a list are no fewer than the row's, so
  an error that requeues leaves an attempt although operators reset the
  counter in between;
- `AccountInv`: a row that can still lead to a payment (`Payable`) has one
  left. A payment uses it up; an operator's requeue or a lost record grants one;
- `BackingInv`: a consumed row is backed by its own token or invoice, and the
  copy the worker holds names the same token;
- `AnnounceInv`: the right to announce is with the row, the worker or the
  watcher, with one of them only.

`Invariance` follows from `InitInd`, `NextInd` and PTL; `PayoutsAreAccounted`,
`PayoutsAreBacked`, `OneTokenPaysOnce`, `QueuedCanBeTried`,
`AnnouncedAtMostOnce` and `TypeCorrect` are its corollaries; `TokensAreKept` is
an action property under it; `LedgerImplemented` maps every step to a step of
`PayoutLedger` or a stutter.

**Deposits** (`DepositsProofs`). Everything is written by id here, so the
argument is that a row is never in the hands of two loops at once
(`ListInv`: a watched row is not in the mint list, a row to be minted has no
token, one to be delivered has an unclaimed one), that the state says what the
row holds (`RowInv`), that a pickup in flight is the only one that claimed
its deposit (`PickupInv`), and that a fulfilled row with its token still in it was
marked by an operator, since a claim clears the token and no late write brings one
back (`ViewInv`). From `Invariance` follow `EcashIsAccounted`,
`EcashIsCovered`, `ReadyIsBacked`, `ServedAtMostOnce` and
`AnnouncedAtMostOnce`; `ClaimsAreFinal` and `EscrowImplemented` are proved step by
step under it.

**Address pool** (`AddressPoolProofs`). `AddressNotShared` needs two facts about
callers in between: the candidate of an assignment is an address that exists
(`CallersInv`), and a caller whose claim went through holds an address that is
allocated to the id it asks for (`ClaimsHeld`). The claim is conditional on
"available", so two callers with the same candidate cannot both pass; nothing
ever makes an address available again. `PoolInvariance`, `AddressesAreNotShared`.

**Operation mode** (`OperationModeProofs`). `ModeSaved` needs that a switch that
started alone is the only one under way, and that one does run alone as long as
nothing made the copies doubtful (`AloneInv`); and that the database already
holds what such a switch is about to write to memory (`SwitchInv`).
Two switches that overlap may leave the copies apart; the theorem `ModeIsSaved`
says that nothing else but a lost answer or a failed load at a start does.

**Front door** (`FrontDoorProofs`). `NextMaps` shows that every step is a step of
the pool or leaves its variables alone, and the same for the mode. So `UsesPool`
(`Spec => PoolSpec`) and `UsesMode` (`Spec => ModeSpec`) hold, and the theorems
of the two parts carry over to the whole (`DepositsDoNotShare`, `SwitchesAreSaved`)
without a new induction. `LimitsAlwaysHold` counts ahead: `RoomInv` bounds
the open deposits together with those the requests past the check will still
add. A request that is at its check sees the rows alone, and the others past it
are at most all requests but itself; hence the spare of one less than the number
of requests. Deposits are counted without those the watcher brought back
(`Admitted`): a late write changes a row that was closed, whose place may be taken,
and nothing bounds how many do. That what is listed exists is in `DoorTypeOK`: a
late write never creates a deposit. `KindsInv` says which request can be where.

The types (`DoorTypes`) need one fact beside them, in `RowsInv`: there is a
free row for every withdrawal request that has yet to insert one.

`RefillStaysBounded` is about callers of `ensure_capacity` that have counted and
not inserted yet. A caller that is filling has counted less than the target
(`RefillInv`), and each insert turns one address it found missing into a free
one, so the sum of both does not grow; it grows only when a caller *begins* to
fill. At that moment what is free is what it counted, and the others bring at
most one target each.

`FloatIsCovered` needs the request's point of view (`CoverInv`): one that has
passed the cap and is about to insert may exceed the balance only by what
it could not see (`behind`). That is first what had left the balance before its
reads were through, was not known to the wallet (`balance()` is as of the last
sync) and was no longer reserved, and then what is paid or reserved before it
inserts: other requests, miner fees, payouts of rows that were given up while they
were listed, rows put back in the queue, and payments by hand. With the insert it
becomes `unseen`, which grows in the same way until the next request is accepted.
It starts again then because the cap of that request has looked at the balance and the
reservations anew: whatever was owed before it is in its sum.

**Sums** (`SumProofs`). `RefillBounded`, `FloatCovered` and the worth of rows in a
wallet are sums over sets, which the community module defines by a recursive
function on subsets. That the function exists, and what it is for a set with one
element more, takes an induction. The library's induction theorems have an
operator as parameter and cannot be used here, so `SubsetInduction` takes the
*set* of subsets a fact holds of, and finds a smallest exception by the
well-founded order of Nat. From it follow `SumAdd`, `SumRemove`, `SumSame`,
`SumNat`, `SumSubset` and `SumBounded`, which the other proofs cite.

**Mint swap** (`MintSwapProofs`). `SwapInv` adds to the properties what a
conversion holds at each point: the token in its hands is taken and not yet
recorded (`ControlInv`); an invoice belongs to a taken token, and the one about to
be paid is within the limit *and* fits with its reserve and fee into the proofs
(`InvoiceInv`), so that a paid melt has change or none and never a deficit; what
the wallet credited, the record and the payout agree (`LedgerInv`); and what the
wallet calls spent is worth nothing at the mint (`StoreInv`). `OnlyOwnProofs` is
inductive with these because `received_proofs` takes only rows that were not
there before. `PayoutFunded` follows (`LedgerFundsPayouts`).

`ConversionsImplemented` maps every step to `TokenExchange`: an attempt that
received its token is the only one that ever buys for it, since each retry is
turned away with the spent token (`InvoiceInv` knows that a token which was not
taken has no invoice, and a conversion that is still sizing has none either).
What is bought is never taken back or bought again, it is credited once, by the
worker or by the wallet when it is opened again, and paid out once.

**M5 recovery** (`M5RecoveryProofs`). The conversions and an execution take
turns (`TurnInv`), so the steps of the worker are dealt with by the lemmas of
`MintSwapProofs`, and a step of the command has to keep what they need of the
store (`StoreStep`). For the command itself: what the plan calls dead stays
dead (`PlanInv`); a round and its invoice belong together and the journal has the
round before anything is sent (`RoundInv`); the proofs it moves are all that is
live, and apart from its own melt no operation is in the store that was not in
the plan (`WalletInv`), which is what makes the clean-up safe. `CeilingHolds` rests on
`LossInv`: what has been minted and what is being paid keep the ceiling *by
themselves*. Change counts for nothing before it is there, so the ceiling holds
also where the answer of the melt is lost. `ExchangeImplemented` says that with
recoveries in between the conversions are still an exchange.

Only model-checked: the liveness properties (`QueuedIsServed`,
`UnpaidIsReleased`, `ConfirmedIsServed`, `RequestsAnswered`, `DoorShuts`,
`WorkEnds`), since the prover handles neither fairness nor ENABLED. The violation
runs state what does not hold, so there is nothing to prove about them.

## 5. What the models show about the code

Besides the five violation runs, these behaviours are reachable and are what
the accounting variables stand for:

- a payout is repeated after an operator's requeue or when the record of the
  first one is lost (crash or failing database between the broadcast and
  `record_withdrawal_attempt`); `docs/M5_WALLET_REPAIR.md` names this window;
- ecash is lost when `record_mint_success` fails, and the deposit is minted
  again;
- by-id writes bring back rows an operator has failed or archived: a failed
  deposit in the watcher's or the worker's list goes on to be minted and made
  ready, and an archive decided on a funding row may archive a funded one;
- a deposit an operator marks fulfilled keeps its token in the row, and every
  reader of the row is given it, as often as it asks and without a claim; when a
  delivery the worker had listed is then written by id, the row is ready again and
  a pickup serves the same token once more (`ServedOnce` says that there is no
  other way);
- a deposit that was seen in full and whose payment then vanished altogether stays
  confirming for ever: the watcher skips an address with no transactions
  (`main.rs:1161`), the sweep takes no confirming row (`db.rs:1128`), and its place in
  the limits is taken until an operator acts;
- a deposit closed after the watcher listed it comes back to partial or
  confirming, and the open deposits may pass the limits by as many;
- the cap of a withdrawal is computed from the balance of the last sync: a
  payment made and settled since is still in the balance and no longer reserved, and
  a requeued withdrawal is reserved again without any look at the cap;
- a client that goes away during a pickup leaves the token in
  `deposit_claims` only;
- the branch "missing minted token; returning to minting" in `tick()` is dead
  (`ReadyHasToken`);
- an escalation or the float monitor that decided on Drain before an operator
  switched to Halt writes Drain over it: the check and the two writes are apart.
  Memory and database agree afterwards, so no property reports it;
- when the answer of the write to the database is lost, memory keeps the old mode
  and the next start loads the new one;
- a deposit whose row cannot be inserted has used up its address for good;
- two withdrawal requests that read balance and reservations side by side may
  together reserve more than the wallet holds;
- a conversion is paid for, minted and only then refused when it costs more than
  the surplus the request asked for, though the limit of a twentieth allows it
  (`MsSurplus`): the customer's ecash is in the canonical wallet and the
  withdrawal fails;
- the fallback for `next_target >= target` in `swap.rs` is dead: a melt that is
  short by something always lowers the target.

## 6. Not modelled, and what is left

The recovery command is modelled but for the content of its backups and the
checks on file paths, hashes and schemas (they refuse to start and change
nothing), and but for an operator who removes the lock by hand (what happens
then is the operator's reconciliation). In the float guard, the bands and the
drift alerts only produce log lines, metrics and webhooks. What makes a burst is
an arbitrary refusal: remote addresses and amounts are not in the model.

Left out, with the reason:

- the on-chain wallet's database (`onchain/postgres_db.rs`): one SQL statement per
  key, called by the BDK library; the order of calls, and what becomes of
  a batch that was left half applied, is decided in that library;
- the set-up of the cashu wallets: opens files of the CDK library;
- the fee estimator: a cached rate with a fallback. What depends on it is the
  miner fee of a payment, which `FloatCovered` counts and `FrontDoor` takes from
  `Fees`;
- the command line tools: sequential, run by hand while the backend is stopped;
- configuration and telemetry: read once, counters; the frontends: clients of the
  API; `sqlx-sqlite`: vendored; operator reports: reads only.

Left to prove: that `Withdrawals` may treat a redemption as one step is argued
and not proved. `Withdrawals` lets it succeed, or fail before or after the mint
has spent the token; `TokenExchange` (`Give`, then `Buy`, `Arrive`, `PayOut`, with a
stop at any point) is that step taken apart, and `ConversionsImplemented` shows
that the conversion does nothing else. The cap of the NUT-18
callback is in no module: `FrontDoor` lets a withdrawal become funded at any time
(`Funded`), with or without it, and `Withdrawals` lets the callback refuse. A funded row was
reserved when it was inserted, so the cap can only refuse more.
