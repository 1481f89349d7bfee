------------------------------- MODULE M5Recovery ------------------------------
(***************************************************************************)
(* The recovery command (bin/m5_recover.rs) on the wallet store MintSwap   *)
(* leaves behind: the backend is stopped, a plan lists the proofs and the  *)
(* unfinished operations of the foreign wallet, and an execution moves the *)
(* live value to the canonical mint in rounds, each paying with the change *)
(* of the one before, and then retires what is spent and drops the old     *)
(* operations.                                                             *)
(*                                                                         *)
(* An execution may stop at any step, and the operator may try again.  The *)
(* journal is on disk before each payment, the lock file stays when an     *)
(* execution does not complete.                                            *)
(***************************************************************************)
EXTENDS MintSwap

CONSTANTS
    FeeCeilings,    \* values of --max-fee-sats
    MaxRounds,      \* 8
    MaxQuotes       \* quotes tried in a round, 16

ASSUME RecoveryAssumption ==
    FeeCeilings \subseteq Nat /\ MaxRounds \in Nat \ {0} /\ MaxQuotes \in Nat \ {0}

VARIABLES
    serving,        \* the backend runs
    plan,           \* the plan file: rows and operations of the foreign wallet
    lock,           \* .m5-recovery.lock exists
    journal,        \* rounds with a before_melt entry
    rpc,            \* where the execution is
    initial,        \* live_sats of the plan being executed
    budget,         \* its fee ceiling
    moving,         \* proofs the next round pays with
    round, moveFee, aim, spare, quotes, waits,
    bill,           \* the canonical quote of the round
    moved           \* credited so far

planVars    == <<serving, plan, lock>>
executeVars == <<journal, rpc, initial, budget, moving, round, moveFee, aim,
                 spare, quotes, waits, bill, moved>>
roundVars   == <<moveFee, aim, spare, quotes, waits>>
vars == <<swapVars, planVars, executeVars>>

NoPlan == [made |-> FALSE, rows |-> [p \in Proofs |-> NoRow], sagas |-> {}]

\* classify and check_old_operations: only what is known to be unspent, spent
\* or never carried out can be planned for.
Classified ==
    \A p \in Stored : \/ row[p].local \in {"UNSPENT", "RESERVED"}
                      \/ row[p].local = "SPENT" /\ row[p].mint = "SPENT"

\* Mutated form of OldOperationsDead: restore is not asked about old swaps.
OldMeltsDead ==
    \A s \in sagas : s.kind = "melt" => ~s.done /\ s.phase = "proofs_reserved"

OldOperationsDead ==
    \A s \in sagas : ~s.done /\ s.phase \in {"swap_requested", "proofs_reserved"}

Plannable == Stored # {} /\ Classified /\ OldOperationsDead
Current == [made |-> TRUE, rows |-> row, sagas |-> sagas]
LiveIn(rows) == {p \in Proofs : rows[p].local # "none" /\ rows[p].mint = "UNSPENT"}
LiveSats(rows) == WorthIn(rows, LiveIn(rows))

\* enforce_budget.
WithinBudget(start, there, here, ceiling) ==
    there + here <= start /\ start - (there + here) <= ceiling

RecoveryInit ==
    /\ SwapInit
    /\ serving = TRUE /\ plan = NoPlan /\ lock = FALSE
    /\ journal = {} /\ rpc = "none" /\ initial = 0 /\ budget = 0
    /\ moving = {} /\ round = 0 /\ moveFee = 0 /\ aim = 0 /\ spare = 0
    /\ quotes = 0 /\ waits = 0 /\ bill = NoInvoice /\ moved = 0

Running == rpc \notin {"none", "stopped", "complete"}

\* Mutated form of Stop: the lock is removed whatever the outcome.
StopUnlocked ==
    /\ rpc' = "stopped" /\ moving' = {} /\ round' = round
    /\ moveFee' = 0 /\ aim' = 0 /\ spare' = 0 /\ quotes' = 0 /\ waits' = 0
    /\ lock' = FALSE
    /\ UNCHANGED <<serving, plan, journal, initial, budget>>

\* An error or a crash ends the execution; the lock and the journal stay.
Stop ==
    /\ rpc' = "stopped" /\ moving' = {} /\ round' = round
    /\ moveFee' = 0 /\ aim' = 0 /\ spare' = 0 /\ quotes' = 0 /\ waits' = 0
    /\ UNCHANGED <<serving, plan, lock, journal, initial, budget>>

\* What the recovery never touches.
BackendUntouched == UNCHANGED <<withdrawalVars, canonicalVars, workerVars, restarts>>

--------------------------------------------------------------------------------
(***************************************************************************)
(* The operator.                                                           *)
(***************************************************************************)

StopBackend ==
    /\ serving /\ serving' = FALSE
    /\ ToIdle
    /\ UNCHANGED <<withdrawalVars, foreignVars, canonicalVars, faults, restarts,
                   plan, lock, executeVars>>

\* The backend stays stopped after an execution that did not complete
\* (M5_RECOVERY_COMMAND.md).
StartBackend ==
    /\ ~serving /\ rpc \in {"none", "complete"} /\ restarts < MaxRestarts
    /\ serving' = TRUE /\ restarts' = restarts + 1
    /\ Reopen
    /\ journal' = {} /\ rpc' = "none" /\ initial' = 0 /\ budget' = 0
    /\ moving' = {} /\ round' = 0 /\ bill' = NoInvoice /\ moved' = 0
    /\ UNCHANGED <<withdrawalVars, foreignVars, workerVars, faults, plan, lock,
                   roundVars>>

\* plan: it may be made while the backend still runs.  Bound: one plan.
MakePlan ==
    /\ ~Running /\ Plannable /\ ~plan.made
    /\ plan' = Current
    /\ UNCHANGED <<swapVars, serving, lock, executeVars>>

\* execute, with a directory and journal of its own: the lock file is created
\* first; the ceiling is checked after.
Execute(ceiling) ==
    /\ ~serving /\ ~Running /\ plan.made /\ ~lock
    /\ lock' = TRUE /\ budget' = ceiling
    /\ rpc' = IF ceiling \in 1..(LiveSats(plan.rows) \div LossDivisor)
              THEN "check" ELSE "stopped"
    /\ journal' = {} /\ initial' = 0 /\ round' = 0 /\ moved' = 0
    /\ bill' = NoInvoice
    /\ UNCHANGED <<swapVars, serving, plan, moving, roundVars>>

--------------------------------------------------------------------------------
(***************************************************************************)
(* The execution: before any payment.                                      *)
(***************************************************************************)

\* A call fails or the process dies, and nothing else happens.
ExecutionFails ==
    /\ Running /\ Fault /\ Stop
    /\ BackendUntouched /\ UNCHANGED <<foreignVars, bill, moved>>

\* The plan must be what a new one would be; load_live, and the backup.
CheckPlan ==
    /\ rpc = "check" /\ NoFault
    /\ IF Plannable /\ plan = Current
       THEN /\ rpc' = "backup" /\ moving' = LiveIn(row)
            /\ UNCHANGED <<planVars, journal, initial, budget, round, roundVars>>
       ELSE Stop
    /\ BackendUntouched /\ UNCHANGED <<foreignVars, bill, moved>>

\* And still be after the backup.
Backup ==
    /\ rpc = "backup" /\ NoFault
    /\ IF Plannable /\ plan = Current
       THEN /\ rpc' = "round" /\ initial' = LiveSats(plan.rows) /\ round' = 1
            /\ UNCHANGED <<planVars, journal, budget, moving, roundVars>>
       ELSE Stop
    /\ BackendUntouched /\ UNCHANGED <<foreignVars, bill, moved>>

--------------------------------------------------------------------------------
(***************************************************************************)
(* A round.                                                                *)
(***************************************************************************)

Proceed(next) ==
    rpc' = next /\ UNCHANGED <<planVars, initial, budget>>

\* The top of the loop: all inputs unspent, their fee, the first target.
BeginRound(charge) ==
    /\ rpc = "round" /\ NoFault /\ RequireUnspent(moving) /\ round <= MaxRounds
    /\ charge < Worth(moving)
    /\ moveFee' = charge /\ aim' = Worth(moving) - charge
    /\ quotes' = 0 /\ waits' = 0 /\ Proceed("quote")
    /\ BackendUntouched
    /\ UNCHANGED <<foreignVars, journal, moving, round, spare, bill, moved>>

\* The loop ends: no change left, none worth its fee, or the last round.
LastRound(charge) ==
    /\ rpc = "round" /\ NoFault
    /\ moving = {} \/ charge >= Worth(moving) \/ round > MaxRounds
    /\ Proceed("cleanup")
    /\ BackendUntouched
    /\ UNCHANGED <<foreignVars, journal, moving, round, roundVars, bill, moved>>

\* payment_target, 0 for None.
PaymentTarget(quoted) == Sub(Worth(moving), moveFee + quoted)

\* Mutated form of MoveQuote: the invoice follows the quoted reserve up and
\* down, and nobody counts.
MoveQuoteFollows(quoted) ==
    /\ rpc = "quote" /\ NoFault
    /\ IF PaymentTarget(quoted) = 0
       THEN Proceed("cleanup") /\ UNCHANGED <<aim, quotes>>
       ELSE /\ PaymentTarget(quoted) # aim
            /\ aim' = PaymentTarget(quoted) /\ UNCHANGED quotes
            /\ Proceed("quote")
    /\ BackendUntouched
    /\ UNCHANGED <<foreignVars, journal, moving, round, moveFee, spare, waits,
                   bill, moved>>

\* One quote: settle for less, or give the round up.
MoveQuote(quoted) ==
    /\ rpc = "quote" /\ NoFault
    /\ IF quotes = MaxQuotes \/ PaymentTarget(quoted) = 0
       THEN Proceed("cleanup") /\ UNCHANGED <<aim, quotes>>
       ELSE /\ PaymentTarget(quoted) < aim
            /\ aim' = PaymentTarget(quoted) /\ quotes' = quotes + 1
            /\ Proceed("quote")
    /\ BackendUntouched
    /\ UNCHANGED <<foreignVars, journal, moving, round, moveFee, spare, waits,
                   bill, moved>>

\* Mutated form of MoveChosen: the change is expected to come back.
MoveExpectingChange(quoted) ==
    /\ rpc = "quote" /\ NoFault /\ quotes < MaxQuotes
    /\ PaymentTarget(quoted) # 0 /\ PaymentTarget(quoted) >= aim
    /\ IF WithinBudget(initial, moved + aim, PaymentTarget(0) - aim, budget)
       THEN /\ Proceed("announce") /\ spare' = quoted
            /\ bill' = [amount |-> aim, state |-> "UNPAID"]
            /\ UNCHANGED <<journal, moving, round, moveFee, aim, quotes, waits>>
       ELSE Stop /\ UNCHANGED bill
    /\ BackendUntouched /\ UNCHANGED <<foreignVars, moved>>

\* Or pay, if the loss is within the ceiling when no change comes back.
MoveChosen(quoted) ==
    /\ rpc = "quote" /\ NoFault /\ quotes < MaxQuotes
    /\ PaymentTarget(quoted) # 0 /\ PaymentTarget(quoted) >= aim
    /\ IF WithinBudget(initial, moved + aim, 0, budget)
       THEN /\ Proceed("announce") /\ spare' = quoted
            /\ bill' = [amount |-> aim, state |-> "UNPAID"]
            /\ UNCHANGED <<journal, moving, round, moveFee, aim, quotes, waits>>
       ELSE Stop /\ UNCHANGED bill
    /\ BackendUntouched /\ UNCHANGED <<foreignVars, moved>>

\* Mutated form of Announce: only the first round is announced.
AnnounceOnce ==
    /\ rpc = "announce" /\ NoFault
    /\ journal' = (IF journal = {} THEN {round} ELSE journal) /\ Proceed("prepare")
    /\ BackendUntouched
    /\ UNCHANGED <<foreignVars, moving, round, roundVars, bill, moved>>

\* The before_melt entry is on disk before anything is sent.
Announce ==
    /\ rpc = "announce" /\ NoFault
    /\ journal' = journal \cup {round} /\ Proceed("prepare")
    /\ BackendUntouched
    /\ UNCHANGED <<foreignVars, moving, round, roundVars, bill, moved>>

MovePrepare ==
    /\ rpc = "prepare" /\ NoFault
    /\ row' = Marked(moving, "RESERVED", "UNSPENT")
    /\ sagas' = sagas \cup {MeltOf(NoToken, "proofs_reserved", FALSE)}
    /\ Proceed("confirm")
    /\ BackendUntouched
    /\ UNCHANGED <<redeemed, journal, moving, round, roundVars, bill, moved>>

MovePaid(lightning) ==
    /\ rpc = "confirm" /\ lightning <= spare /\ NoFault
    /\ LET change == Worth(moving) - aim - moveFee - lightning IN
        /\ change > 0 => Stored # Proofs
        /\ row' = Melted(moving, NoToken, change)
        /\ moving' = IF change > 0 THEN {Unused} ELSE {}
    /\ sagas' = sagas \ {MeltOf(NoToken, "proofs_reserved", FALSE)}
    /\ bill' = [bill EXCEPT !.state = "PAID"] /\ Proceed("poll")
    /\ BackendUntouched
    /\ UNCHANGED <<redeemed, journal, round, roundVars, moved>>

MoveRefused ==
    /\ rpc = "confirm" /\ Fault /\ Stop
    /\ row' = Marked(moving, "UNSPENT", "UNSPENT")
    /\ sagas' = sagas \ {MeltOf(NoToken, "proofs_reserved", FALSE)}
    /\ BackendUntouched /\ UNCHANGED <<redeemed, bill, moved>>

\* No answer within two minutes, or one that is not PAID.
MoveLost(done) ==
    /\ rpc = "confirm" /\ Fault /\ Stop
    /\ row' = Marked(moving, "PENDING_SPENT", IF done THEN "SPENT" ELSE "UNSPENT")
    /\ sagas' = (sagas \ {MeltOf(NoToken, "proofs_reserved", FALSE)})
                    \cup {MeltOf(NoToken, "melt_requested", done)}
    /\ bill' = [bill EXCEPT !.state = IF done THEN "PAID" ELSE @]
    /\ BackendUntouched /\ UNCHANGED <<redeemed, moved>>

MoveWaits ==
    /\ rpc = "poll" /\ waits < MaxPolls /\ NoFault
    /\ waits' = waits + 1 /\ Proceed("poll")
    /\ BackendUntouched
    /\ UNCHANGED <<foreignVars, journal, moving, round, moveFee, aim, spare,
                   quotes, bill, moved>>

MoveUnpaid ==
    /\ rpc = "poll" /\ waits = MaxPolls /\ NoFault /\ Stop
    /\ BackendUntouched /\ UNCHANGED <<foreignVars, bill, moved>>

\* The quote is paid: mint, verify with the mint, and add up.
MoveMinted ==
    /\ rpc = "poll" /\ waits < MaxPolls /\ bill.state = "PAID" /\ NoFault
    /\ moved' = moved + bill.amount /\ bill' = NoInvoice
    /\ IF WithinBudget(initial, moved', Worth(moving), budget)
       THEN /\ Proceed("round") /\ round' = round + 1
            /\ UNCHANGED <<journal, moving, roundVars>>
       ELSE Stop
    /\ BackendUntouched /\ UNCHANGED foreignVars

\* The mint issues the ecash and the answer is lost.
MintedLost ==
    /\ rpc = "poll" /\ bill.state = "PAID" /\ Fault /\ Stop
    /\ bill' = [bill EXCEPT !.state = "ISSUING"]
    /\ BackendUntouched /\ UNCHANGED <<foreignVars, moved>>

--------------------------------------------------------------------------------
(***************************************************************************)
(* The cleanup.                                                            *)
(***************************************************************************)

\* make_cleanup_states and the old operations are asked about once more.
CheckCleanup ==
    /\ rpc = "cleanup" /\ NoFault
    /\ IF OldOperationsDead
       THEN Proceed("archive") /\ UNCHANGED <<journal, moving, round, roundVars>>
       ELSE Stop
    /\ BackendUntouched /\ UNCHANGED <<foreignVars, bill, moved>>

\* Mutated form of Archive: the old operations are kept.
ArchiveRows ==
    /\ rpc = "archive" /\ NoFault
    /\ row' = [p \in Proofs |->
                IF plan.rows[p].local \in {"none", "SPENT"} THEN row[p]
                ELSE [row[p] EXCEPT !.local = row[p].mint]]
    /\ Proceed("report")
    /\ BackendUntouched
    /\ UNCHANGED <<sagas, redeemed, journal, moving, round, roundVars, bill, moved>>

\* Mutated form of Archive: what was planned for is taken to be spent.
ArchiveAll ==
    /\ rpc = "archive" /\ NoFault
    /\ row' = [p \in Proofs |->
                IF plan.rows[p].local \in {"none", "SPENT"} THEN row[p]
                ELSE [row[p] EXCEPT !.local = "SPENT"]]
    /\ sagas' = sagas \ plan.sagas
    /\ Proceed("report")
    /\ BackendUntouched
    /\ UNCHANGED <<redeemed, journal, moving, round, roundVars, bill, moved>>

\* One transaction: the planned rows get the state the mint reports, and the
\* operations listed at the start are dropped.
Archive ==
    /\ rpc = "archive" /\ NoFault
    /\ row' = [p \in Proofs |->
                IF plan.rows[p].local \in {"none", "SPENT"} THEN row[p]
                ELSE [row[p] EXCEPT !.local = row[p].mint]]
    /\ sagas' = sagas \ plan.sagas
    /\ Proceed("report")
    /\ BackendUntouched
    /\ UNCHANGED <<redeemed, journal, moving, round, roundVars, bill, moved>>

ActiveSats == Worth({p \in Stored : row[p].local # "SPENT"})

\* The wallet must hold exactly the change that was tracked.
Report ==
    /\ rpc = "report" /\ NoFault
    /\ IF ActiveSats = Worth(moving)
            /\ WithinBudget(initial, moved, Worth(moving), budget)
       THEN /\ rpc' = "complete" /\ lock' = FALSE /\ moving' = {}
            /\ moveFee' = 0 /\ aim' = 0 /\ spare' = 0 /\ quotes' = 0
            /\ waits' = 0
            /\ UNCHANGED <<serving, plan, journal, initial, budget, round>>
       ELSE Stop
    /\ BackendUntouched /\ UNCHANGED <<foreignVars, bill, moved>>

RecoveryStep ==
    \/ ExecutionFails \/ CheckPlan \/ Backup
    \/ \E c \in InputFees : BeginRound(c) \/ LastRound(c)
    \/ \E r \in Reserves : MoveQuote(r) \/ MoveChosen(r)
    \/ Announce \/ MovePrepare \/ MoveRefused
    \/ \E l \in 0..spare : MovePaid(l)
    \/ \E done \in BOOLEAN : MoveLost(done)
    \/ MoveWaits \/ MoveUnpaid \/ MoveMinted \/ MintedLost
    \/ CheckCleanup \/ Archive \/ Report

Operator == StopBackend \/ StartBackend \/ MakePlan
                \/ \E ceiling \in FeeCeilings : Execute(ceiling)

Backend(A) == serving /\ A /\ UNCHANGED <<planVars, executeVars>>

Next ==
    \/ \E t \in Tokens : Backend(Take(t))
    \/ Backend(CallFails) \/ Backend(ReceiveRefused)
    \/ \E c \in InputFees : Backend(Receive(c)) \/ Backend(ReadFee(c))
    \/ \E done \in BOOLEAN : Backend(ReceiveLost(done)) \/ Backend(ConfirmLost(done))
    \/ \E r \in Reserves : Backend(Quote(r)) \/ Backend(QuoteGivesUp(r))
    \/ Backend(Prepare) \/ Backend(ConfirmRefused)
    \/ \E l \in 0..reserve : Backend(ConfirmPaid(l))
    \/ Backend(PollAgain) \/ Backend(PollGivesUp)
    \/ Backend(MintCanonical) \/ Backend(MintLost)
    \/ Backend(Record) \/ Backend(RecordRefused) \/ Backend(Pay)
    \/ Backend(Restart)
    \/ RecoveryStep
    \/ Operator

\* The backend's worker and the command run; what the operator does is free.
Fairness ==
    /\ WF_vars(Backend(SwapStep))
    /\ WF_vars(RecoveryStep)

Spec == RecoveryInit /\ [][Next]_vars
FairSpec == Spec /\ Fairness

--------------------------------------------------------------------------------
(***************************************************************************)
(* Properties.                                                             *)
(***************************************************************************)

TypeOK ==
    /\ SwapTypeOK
    /\ serving \in BOOLEAN /\ lock \in BOOLEAN
    /\ plan \in [made : BOOLEAN, rows : [Proofs -> Row], sagas : SUBSET Saga]
    /\ journal \subseteq 1..MaxRounds /\ round \in 0..MaxRounds + 1
    /\ rpc \in {"none", "check", "backup", "round", "quote", "announce",
                "prepare", "confirm", "poll", "cleanup", "archive", "report",
                "stopped", "complete"}
    /\ initial \in Nat /\ budget \in Nat /\ moving \subseteq Proofs
    /\ moveFee \in Nat /\ aim \in Nat /\ spare \in Nat
    /\ quotes \in 0..MaxQuotes /\ waits \in 0..MaxPolls
    /\ bill \in Invoice /\ moved \in Nat

\* "Aggregate loss cannot exceed the configured ceiling" (M5_RECOVERY_COMMAND.md):
\* at every point of an execution, also where it stopped, the value minted,
\* paid for or still unspent is the planned value less the ceiling at most.
LossWithinCeiling ==
    journal # {} =>
        LET paidFor == IF bill.state \in {"PAID", "ISSUING"} THEN bill.amount ELSE 0
        IN  LiveSats(row) + paidFor + moved >= initial - budget

\* A melt the mint may have paid has its entry in the journal, so that an
\* interrupted execution can be reconciled (event, before_melt).
JournalNamesPayment == bill.state \in {"PAID", "ISSUING"} => round \in journal

\* After an execution stopped that had announced a payment, nothing is
\* executed until somebody has removed the lock (main, execute).
InterruptedIsFinal ==
    [][(rpc = "stopped" /\ journal # {}) => rpc' = "stopped"]_vars

\* The cleanup never writes off value the mint still honours.
LiveValueStaysActive ==
    \A p \in Stored : row[p].local = "SPENT" => row[p].mint = "SPENT"

\* A completed execution leaves no old operation, nothing reserved and nothing
\* active that is spent: what is left can be used again (execute).
CompleteIsClean ==
    rpc = "complete" =>
        /\ sagas = {} /\ ~lock
        /\ \A p \in Stored : row[p].local \in {"UNSPENT", "SPENT"}
        /\ ActiveSats = LiveSats(row)

\* A conversion and an execution come to an end, with an outcome or an error:
\* shrinking, quotes, polls and rounds are bounded (swap_to_canonical, execute).
WorkEnds == (pc # "idle" \/ Running) ~> (pc = "idle" /\ ~Running)
================================================================================
