---------------------------- MODULE M5RecoveryProofs ---------------------------
(***************************************************************************)
(* The recovery command and the conversions it cleans up after: the        *)
(* inductive invariant of M5Recovery and what follows from it.  A step of  *)
(* the worker is dealt with in MintSwapProofs; here are the steps of the   *)
(* command, and that the two take turns.                                   *)
(***************************************************************************)
EXTENDS M5Recovery, MintSwapProofs

\* What a plan says is dead is dead for good.
PlanInv ==
    /\ \A s \in plan.sagas : ~s.done
    /\ \A p \in Proofs : \/ plan.rows[p].local \in {"none", "UNSPENT", "RESERVED"}
                         \/ plan.rows[p].local = "SPENT" /\ plan.rows[p].mint = "SPENT"

\* The backend and an execution exclude each other, and one that has begun
\* has the lock until it completes.
TurnInv ==
    /\ serving => rpc = "none"
    /\ ~serving => pc = "idle"
    /\ Running \/ rpc = "stopped" => lock
    /\ rpc \in {"none", "check", "backup"} => journal = {}

Paying == {"announce", "prepare", "confirm", "poll"}

\* A round, its invoice and its entry in the journal.
RoundInv ==
    /\ rpc = "round" => round \in 1..MaxRounds + 1
    /\ rpc \in Paying \cup {"quote"} => round \in 1..MaxRounds
    /\ rpc \in {"prepare", "confirm", "poll"} => round \in journal
    /\ rpc \in Paying =>
            /\ bill.amount = aim
            /\ bill.state = IF rpc = "poll" THEN "PAID" ELSE "UNPAID"
    /\ rpc \notin Paying \cup {"stopped"} => bill = NoInvoice

Moving == {"round", "quote", "cleanup", "archive"} \cup Paying

\* The wallet of an execution: the proofs it moves are all that is live, the
\* operations it found are all there are besides its own melt, and what it
\* made itself is settled.
WalletInv ==
    /\ rpc \in Moving \cup {"backup", "report"} => moving = LiveIn(row)
    /\ rpc \in Moving =>
            /\ sagas \subseteq plan.sagas \cup
                    IF rpc = "confirm" THEN {MeltOf(NoToken, "proofs_reserved", FALSE)}
                                       ELSE {}
            /\ \A p \in Proofs :
                    \/ plan.rows[p].local \in {"UNSPENT", "RESERVED"}
                    \/ row[p].local \in {"none", "UNSPENT", "SPENT"}
                    \/ rpc = "confirm" /\ p \in moving
    /\ rpc = "report" =>
            /\ sagas = {}
            /\ \A p \in Proofs : row[p].local \in {"none", "UNSPENT", "SPENT"}

\* What has been minted, together with what is being paid, keeps the ceiling
\* by itself: no change needs to come back.
LossInv ==
    /\ rpc \in {"announce", "prepare", "confirm"} =>
            aim + moveFee + spare <= Worth(moving)
    /\ rpc \in Paying => moved + aim >= initial - budget
    /\ rpc \in (Moving \ Paying) \cup {"announce", "report"} /\ journal # {} =>
            moved >= initial - budget

IndInv ==
    /\ SwapInv /\ TypeOK
    /\ PlanInv /\ TurnInv /\ RoundInv /\ WalletInv /\ LossInv
    /\ LossWithinCeiling /\ JournalNamesPayment /\ CompleteIsClean

--------------------------------------------------------------------------------
(***************************************************************************)
(* What a step of the command does to the conversions' part.               *)
(***************************************************************************)

\* It may work on the store as long as nothing held becomes unknown.
LEMMA StoreStep ==
    ASSUME SwapInv, pc = "idle", BackendUntouched, redeemed' = redeemed,
           Fault \/ NoFault, row' \in [Proofs -> Row], sagas' \subseteq Saga, StoreInv',
           \A p \in Stored : row'[p].local # "none" /\ row'[p].of = row[p].of,
           \A s \in sagas : s.kind = "swap" /\ s.done => s \in sagas'
    PROVE  SwapInv'
<1> USE DEF SwapInv, BackendUntouched, withdrawalVars, canonicalVars, workerVars
<1>1. faults' \in 0..MaxFaults
  BY FaultBound
<1>2. SwapTypeOK'
  BY <1>1 DEF SwapTypeOK
<1>3. ControlInv' /\ OnlyOwnProofs'
  BY DEF ControlInv, Idle, Converting, OnlyOwnProofs
<1>4. InvoiceInv' /\ LedgerInv' /\ PaidWithinLimit'
  BY DEF InvoiceInv, LedgerInv, PaidWithinLimit, Paid
<1>5. TokenTraced'
  BY TraceKept
<1> QED  BY <1>2, <1>3, <1>4, <1>5

\* Most steps leave the store alone.
LEMMA QuietStep ==
    ASSUME SwapInv, pc = "idle", BackendUntouched, UNCHANGED foreignVars, Fault \/ NoFault
    PROVE  SwapInv'
<1>1. /\ row \in [Proofs -> Row] /\ sagas \subseteq Saga /\ StoreInv
      /\ row' = row /\ sagas' = sagas /\ redeemed' = redeemed
  BY DEF SwapInv, SwapTypeOK, foreignVars
<1>2. \A p \in Stored : row[p].local # "none"
  BY DEF Stored
<1> QED  BY <1>1, <1>2, StoreStep DEF StoreInv

\* While an execution runs, the backend does not.
LEMMA RunningAlone ==
    ASSUME IndInv, rpc # "none"
    PROVE  ~serving /\ pc = "idle"
  BY DEF IndInv, TurnInv

\* The live value is an amount, and what an execution moves is all of it.
LEMMA LiveIsAmount ==
    ASSUME NEW rows \in [Proofs -> Row]
    PROVE  LiveSats(rows) \in Nat
  BY WorthIsAmount DEF LiveSats, LiveIn

\* What a round moves is what is live, all of it stored and unspent.
LEMMA MovingIsLive ==
    ASSUME IndInv, rpc \in Moving \cup {"backup", "report"}
    PROVE  /\ LiveSats(row) = Worth(moving) /\ Worth(moving) \in Nat
           /\ moving \in SUBSET Stored /\ moving \in SUBSET Proofs
           /\ \A p \in Proofs : p \in moving <=> (p \in Stored /\ row[p].mint = "UNSPENT")
<1>1. moving = LiveIn(row) /\ row \in [Proofs -> Row]
  BY DEF IndInv, WalletInv, SwapInv, SwapTypeOK
<1> QED  BY <1>1, LiveIsAmount DEF LiveSats, Worth, LiveIn, Stored

--------------------------------------------------------------------------------
(***************************************************************************)
(* An execution that stops, and steps that only change where it is.        *)
(***************************************************************************)

\* Stopping is harmless wherever the ceiling holds and the journal is ahead.
LEMMA StopKeeps ==
    ASSUME IndInv, Running, Stop, SwapInv', pc' = pc,
           bill' \in Invoice, moved' \in Nat, LossWithinCeiling',
           bill'.state \in {"PAID", "ISSUING"} => round \in journal
    PROVE  IndInv'
<1> USE DEF IndInv, Stop
<1>1. ~serving /\ pc = "idle" /\ lock
  BY RunningAlone DEF Running, TurnInv
<1>2. TypeOK'
  BY RecoveryAssumption, ConversionAssumption DEF TypeOK, SwapInv
<1>3. PlanInv' /\ TurnInv'
  BY <1>1 DEF PlanInv, TurnInv, Running
<1>4. RoundInv' /\ WalletInv' /\ LossInv' /\ CompleteIsClean' /\ JournalNamesPayment'
  BY DEF RoundInv, WalletInv, LossInv, CompleteIsClean, JournalNamesPayment, Paying, Moving
<1> QED  BY <1>2, <1>3, <1>4

\* Nothing was changed but where the execution is.
LEMMA StopQuietly ==
    ASSUME IndInv, Running, Stop, BackendUntouched, UNCHANGED <<foreignVars, bill, moved>>,
           Fault \/ NoFault
    PROVE  IndInv'
<1> USE DEF IndInv
<1>1. SwapInv' /\ pc' = pc
  BY RunningAlone, QuietStep DEF Running, BackendUntouched, workerVars
<1>2. LossWithinCeiling'
  BY DEF LossWithinCeiling, Stop, foreignVars, LiveSats, LiveIn, WorthIn
<1>3. bill' \in Invoice /\ moved' \in Nat
  BY DEF TypeOK
<1>4. bill'.state \in {"PAID", "ISSUING"} => round \in journal
  BY DEF JournalNamesPayment
<1> QED  BY <1>1, <1>2, <1>3, <1>4, StopKeeps

\* A call that fails, a wait that was too long.
LEMMA FailingKeeps ==
    ASSUME IndInv, ExecutionFails \/ MoveUnpaid
    PROVE  IndInv'
  BY StopQuietly DEF ExecutionFails, MoveUnpaid, Running

\* The plan is compared with the wallet twice.
LEMMA CheckPlanKeeps ==
    ASSUME IndInv, CheckPlan
    PROVE  IndInv'
<1>1. CASE Stop
  BY <1>1, StopQuietly DEF CheckPlan, Running
<1>2. CASE ~Stop
  <2> USE DEF IndInv
  <2>1. /\ rpc = "check" /\ rpc' = "backup" /\ moving' = LiveIn(row)
        /\ UNCHANGED <<planVars, journal, initial, budget, round, roundVars>>
        /\ UNCHANGED <<foreignVars, bill, moved>> /\ BackendUntouched /\ NoFault
    BY <1>2 DEF CheckPlan
  <2>2. SwapInv' /\ ~serving /\ pc = "idle" /\ pc' = pc
    BY <2>1, RunningAlone, QuietStep DEF BackendUntouched, workerVars
  <2>3. LiveIn(row) \subseteq Proofs /\ LiveIn(row)' = LiveIn(row)
    BY <2>1 DEF LiveIn, foreignVars
  <2>4. TypeOK'
    BY <2>1, <2>2, <2>3 DEF TypeOK, SwapInv, planVars, roundVars
  <2>5. PlanInv' /\ TurnInv'
    BY <2>1, <2>2 DEF PlanInv, TurnInv, Running, planVars
  <2>6. RoundInv' /\ WalletInv' /\ LossInv'
    BY <2>1, <2>3 DEF RoundInv, WalletInv, LossInv, Paying, Moving, NoInvoice
  <2>7. LossWithinCeiling' /\ CompleteIsClean' /\ JournalNamesPayment'
    BY <2>1 DEF TurnInv, RoundInv, LossWithinCeiling, CompleteIsClean, JournalNamesPayment,
                Paying, NoInvoice
  <2> QED  BY <2>2, <2>4, <2>5, <2>6, <2>7
<1> QED  BY <1>1, <1>2

\* The copy of the wallet before anything else.
LEMMA BackupKeeps ==
    ASSUME IndInv, Backup
    PROVE  IndInv'
<1>1. CASE Stop
  BY <1>1, StopQuietly DEF Backup, Running
<1>2. CASE ~Stop
  <2> USE DEF IndInv
  <2>1. /\ rpc = "backup" /\ plan = Current
        /\ rpc' = "round" /\ initial' = LiveSats(plan.rows) /\ round' = 1
        /\ UNCHANGED <<planVars, journal, budget, moving, roundVars>>
        /\ UNCHANGED <<foreignVars, bill, moved>> /\ BackendUntouched /\ NoFault
    BY <1>2 DEF Backup
  <2>2. SwapInv' /\ ~serving /\ pc = "idle" /\ pc' = pc
    BY <2>1, RunningAlone, QuietStep DEF BackendUntouched, workerVars
  <2>3. plan.rows = row /\ plan.sagas = sagas /\ initial' \in Nat
    BY <2>1, LiveIsAmount DEF Current, TypeOK
  <2>4. TypeOK'
    BY <2>1, <2>2, <2>3, RecoveryAssumption DEF TypeOK, SwapInv, planVars, roundVars
  <2>5. PlanInv' /\ TurnInv'
    BY <2>1, <2>2 DEF PlanInv, TurnInv, Running, planVars
  <2>6. RoundInv'
    BY <2>1, RecoveryAssumption DEF RoundInv, Paying, NoInvoice
  <2>7. WalletInv'
    BY <2>1, <2>3 DEF WalletInv, PlanInv, Paying, Moving, planVars, foreignVars, LiveIn
  <2>8. LossInv' /\ LossWithinCeiling' /\ CompleteIsClean' /\ JournalNamesPayment'
    BY <2>1 DEF TurnInv, RoundInv, LossInv, LossWithinCeiling, CompleteIsClean,
                JournalNamesPayment, Paying, Moving, NoInvoice
  <2> QED  BY <2>2, <2>4, <2>5, <2>6, <2>7, <2>8
<1> QED  BY <1>1, <1>2

\* From one step of a round to the next without a change to the store: what
\* remains to be shown is what the next step relies on.
LEMMA RoundGoesOn ==
    ASSUME IndInv, rpc \in Moving, Proceed(rpc'), rpc' \in Moving \ {"confirm"},
           rpc # "confirm", BackendUntouched, UNCHANGED foreignVars, NoFault,
           journal \subseteq journal', journal' \subseteq 1..MaxRounds,
           moving' = moving, round' \in 0..MaxRounds + 1,
           moveFee' \in Nat, aim' \in Nat, spare' \in Nat, quotes' \in 0..MaxQuotes,
           waits' \in 0..MaxPolls, bill' \in Invoice, moved' \in Nat,
           RoundInv', LossInv', LossWithinCeiling'
    PROVE  IndInv'
<1> USE DEF IndInv, Proceed
<1>1. SwapInv' /\ ~serving /\ pc = "idle" /\ pc' = pc
  BY RunningAlone, QuietStep DEF BackendUntouched, workerVars, Moving, Paying
<1>2. TypeOK'
  BY <1>1 DEF TypeOK, SwapInv, planVars, Moving, Paying
<1>3. PlanInv' /\ TurnInv'
  BY <1>1 DEF PlanInv, TurnInv, Running, Moving, Paying, planVars
<1>4. WalletInv'
  BY DEF WalletInv, Moving, Paying, planVars, foreignVars, LiveIn
<1>5. CompleteIsClean' /\ JournalNamesPayment'
  BY DEF RoundInv, CompleteIsClean, JournalNamesPayment, Paying, Moving, NoInvoice
<1> QED  BY <1>1, <1>2, <1>3, <1>4, <1>5

--------------------------------------------------------------------------------
(***************************************************************************)
(* The steps of a round.                                                   *)
(***************************************************************************)

\* With no payment in between, what was within the ceiling stays so.
LEMMA CeilingStays ==
    ASSUME LossWithinCeiling, UNCHANGED <<foreignVars, bill, moved, journal, initial, budget>>
    PROVE  LossWithinCeiling'
  BY DEF LossWithinCeiling, foreignVars, LiveSats, LiveIn, WorthIn

\* The top of the loop, the quotes, and giving a round up.
LEMMA QuotingKeeps ==
    ASSUME IndInv,
           \/ \E c \in InputFees : BeginRound(c) \/ LastRound(c)
           \/ \E r \in Reserves : MoveQuote(r)
    PROVE  IndInv'
<1> USE DEF IndInv
<1>1. /\ TypeOK /\ Worth(moving) \in Nat /\ rpc \in {"round", "quote"} /\ bill = NoInvoice
      /\ UNCHANGED <<foreignVars, bill, moved, journal, moving, round, initial, budget>>
      /\ BackendUntouched /\ NoFault /\ Proceed(rpc')
  BY MovingIsLive DEF BeginRound, LastRound, MoveQuote, Proceed, Moving, Paying, RoundInv
<1>2. LossWithinCeiling'
  BY <1>1, CeilingStays
<1>3. CASE \E c \in InputFees : BeginRound(c)
  <2>1. PICK c \in InputFees : BeginRound(c)
    BY <1>3
  <2>2. moveFee' \in Nat /\ aim' \in Nat /\ UNCHANGED spare
    BY <1>1, <2>1, ConversionAssumption DEF BeginRound
  <2>3. quotes' \in 0..MaxQuotes /\ waits' \in 0..MaxPolls
    BY <2>1, ConversionAssumption, RecoveryAssumption DEF BeginRound
  <2>4. rpc = "round" /\ rpc' = "quote" /\ round <= MaxRounds
    BY <2>1 DEF BeginRound, Proceed
  <2>5. RoundInv' /\ LossInv'
    BY <1>1, <2>4 DEF RoundInv, LossInv, Paying, Moving, TypeOK
  <2> QED  BY <1>1, <1>2, <2>2, <2>3, <2>4, <2>5, RoundGoesOn DEF Moving, Paying, TypeOK
<1>4. CASE \E c \in InputFees : LastRound(c)
  <2>1. rpc = "round" /\ rpc' = "cleanup" /\ UNCHANGED roundVars
    BY <1>4 DEF LastRound, Proceed
  <2>2. RoundInv' /\ LossInv'
    BY <1>1, <2>1 DEF RoundInv, LossInv, Paying, Moving
  <2> QED  BY <1>1, <1>2, <2>1, <2>2, RoundGoesOn DEF Moving, Paying, TypeOK, roundVars
<1>5. CASE \E r \in Reserves : MoveQuote(r)
  <2>1. PICK r \in Reserves : MoveQuote(r)
    BY <1>5
  <2>2. /\ rpc = "quote" /\ rpc' \in {"quote", "cleanup"}
        /\ UNCHANGED <<moveFee, spare, waits>>
        /\ \/ UNCHANGED <<aim, quotes>>
           \/ aim' = PaymentTarget(r) /\ quotes # MaxQuotes /\ quotes' = quotes + 1
    BY <2>1 DEF MoveQuote, Proceed
  <2>3. PaymentTarget(r) \in Nat
    <3>1. r \in Nat /\ moveFee \in Nat
      BY <1>1, ConversionAssumption DEF TypeOK
    <3> QED  BY <1>1, <3>1 DEF PaymentTarget, Sub
  <2>4. aim' \in Nat /\ quotes' \in 0..MaxQuotes
    BY <1>1, <2>2, <2>3, RecoveryAssumption DEF TypeOK
  <2>5. RoundInv' /\ LossInv'
    BY <1>1, <2>2 DEF RoundInv, LossInv, Paying, Moving
  <2> QED  BY <1>1, <1>2, <2>2, <2>4, <2>5, RoundGoesOn DEF Moving, Paying, TypeOK
<1> QED  BY <1>3, <1>4, <1>5

\* A payment is chosen that keeps the ceiling without its change.
LEMMA ChosenKeeps ==
    ASSUME IndInv, NEW r \in Reserves, MoveChosen(r)
    PROVE  IndInv'
<1> USE DEF IndInv
<1>1. CASE Stop /\ UNCHANGED bill
  BY <1>1, StopQuietly DEF MoveChosen, Running
<1>2. CASE ~(Stop /\ UNCHANGED bill)
  <2>1. /\ rpc = "quote" /\ rpc' = "announce" /\ Proceed(rpc') /\ spare' = r
        /\ WithinBudget(initial, moved + aim, 0, budget)
        /\ bill' = [amount |-> aim, state |-> "UNPAID"]
        /\ UNCHANGED <<journal, moving, round, moveFee, aim, quotes, waits>>
        /\ BackendUntouched /\ UNCHANGED <<foreignVars, moved>> /\ NoFault
        /\ PaymentTarget(r) # 0 /\ PaymentTarget(r) >= aim
    BY <1>2 DEF MoveChosen, Proceed
  <2>2. /\ Worth(moving) \in Nat /\ r \in Nat /\ moveFee \in Nat /\ aim \in Nat
        /\ moved \in Nat /\ initial \in Nat /\ budget \in Nat
    BY <2>1, MovingIsLive, ConversionAssumption DEF TypeOK, Moving
  <2>3. aim + moveFee + r <= Worth(moving)
    BY <2>1, <2>2 DEF PaymentTarget, Sub
  <2>4. moved + aim >= initial - budget
    BY <2>1, <2>2 DEF WithinBudget
  <2>5. Worth(moving)' = Worth(moving)
    BY <2>1 DEF Worth, foreignVars
  <2>6. LossInv'
    BY <2>1, <2>3, <2>4, <2>5 DEF LossInv, Paying, Moving, Proceed
  <2>7. RoundInv'
    BY <2>1 DEF RoundInv, Paying
  <2>8. LossWithinCeiling'
    <3>1. bill.state \notin {"PAID", "ISSUING"} /\ bill'.state \notin {"PAID", "ISSUING"}
      BY <2>1 DEF RoundInv, Paying, NoInvoice
    <3> QED  BY <2>1, <3>1 DEF LossWithinCeiling, Proceed, foreignVars, LiveSats, LiveIn, WorthIn
  <2>9. bill' \in Invoice
    BY <2>1, <2>2 DEF Invoice
  <2> QED
    BY <2>1, <2>2, <2>6, <2>7, <2>8, <2>9, RoundGoesOn DEF Moving, Paying, TypeOK
<1> QED  BY <1>1, <1>2

\* Announcing it, and waiting for its quote.
LEMMA AnnounceKeeps ==
    ASSUME IndInv, Announce \/ MoveWaits
    PROVE  IndInv'
<1> USE DEF IndInv
<1>1. /\ UNCHANGED <<foreignVars, moving, round, moveFee, aim, spare, quotes, bill, moved>>
      /\ BackendUntouched /\ NoFault /\ Proceed(rpc') /\ UNCHANGED <<initial, budget>>
  BY DEF Announce, MoveWaits, Proceed, roundVars
<1>2. CASE Announce
  <2>1. /\ rpc = "announce" /\ rpc' = "prepare" /\ journal' = journal \cup {round}
        /\ waits' = waits /\ round \in 1..MaxRounds
    BY <1>2 DEF Announce, Proceed, roundVars, RoundInv, Paying
  <2>2. RoundInv' /\ LossInv'
    <3>1. Worth(moving)' = Worth(moving)
      BY <1>1 DEF Worth, foreignVars
    <3> QED  BY <1>1, <2>1, <3>1 DEF RoundInv, LossInv, Paying, Moving
  <2>3. LossWithinCeiling'
    <3>1. LiveSats(row)' = LiveSats(row)
      BY <1>1 DEF foreignVars, LiveSats, LiveIn, WorthIn
    <3>2. LiveSats(row) = Worth(moving) /\ Worth(moving) \in Nat
      BY <2>1, MovingIsLive DEF Moving, Paying
    <3>3. aim + moveFee + spare <= Worth(moving) /\ moved + aim >= initial - budget
      BY <2>1 DEF LossInv, Paying
    <3>4. /\ aim \in Nat /\ moveFee \in Nat /\ spare \in Nat /\ moved \in Nat
          /\ initial \in Nat /\ budget \in Nat
      BY DEF TypeOK
    <3>5. bill.state = "UNPAID"
      BY <2>1 DEF RoundInv, Paying
    <3>6. LiveSats(row) + 0 + moved >= initial - budget
      BY <3>2, <3>3, <3>4
    <3> QED  BY <1>1, <3>1, <3>5, <3>6 DEF LossWithinCeiling
  <2> QED  BY <1>1, <2>1, <2>2, <2>3, RoundGoesOn DEF Moving, Paying, TypeOK
<1>3. CASE MoveWaits
  <2>1. /\ rpc = "poll" /\ rpc' = "poll" /\ journal' = journal
        /\ waits < MaxPolls /\ waits' = waits + 1
    BY <1>3 DEF MoveWaits, Proceed
  <2>2. RoundInv' /\ LossInv'
    BY <1>1, <2>1 DEF RoundInv, LossInv, Paying, Moving
  <2>3. LossWithinCeiling'
    BY <1>1, <2>1, CeilingStays
  <2>4. waits' \in 0..MaxPolls
    BY <2>1, ConversionAssumption DEF TypeOK
  <2> QED  BY <1>1, <2>1, <2>2, <2>3, <2>4, RoundGoesOn DEF Moving, Paying, TypeOK
<1> QED  BY <1>2, <1>3

\* The proofs are reserved.
LEMMA MovePrepareKeeps ==
    ASSUME IndInv, MovePrepare
    PROVE  IndInv'
<1> USE DEF IndInv
<1>1. /\ rpc = "prepare" /\ rpc' = "confirm" /\ row' = Marked(moving, "RESERVED", "UNSPENT")
      /\ sagas' = sagas \cup {MeltOf(NoToken, "proofs_reserved", FALSE)}
      /\ UNCHANGED <<serving, plan, lock, initial, budget>>
      /\ UNCHANGED <<redeemed, journal, moving, round, moveFee, aim, spare, quotes, waits,
                     bill, moved>>
      /\ BackendUntouched /\ NoFault
  BY DEF MovePrepare, Proceed, planVars, roundVars
<1>2. /\ row \in [Proofs -> Row] /\ ~serving /\ pc = "idle" /\ pc' = pc /\ lock
      /\ MeltOf(NoToken, "proofs_reserved", FALSE) \in Saga
  BY <1>1, RunningAlone
  DEF SwapInv, SwapTypeOK, MeltOf, Saga, TurnInv, Running, BackendUntouched, workerVars
<1>3. /\ LiveSats(row) = Worth(moving) /\ moving \in SUBSET Stored
      /\ moving \in SUBSET Proofs
      /\ \A p \in Proofs : p \in moving <=> (p \in Stored /\ row[p].mint = "UNSPENT")
  BY <1>1, MovingIsLive DEF Moving, Paying
<1>4. /\ row' \in [Proofs -> Row]
      /\ \A p \in Proofs :
            /\ row'[p].of = row[p].of /\ row'[p].amount = row[p].amount
            /\ p \in moving => row'[p].local = "RESERVED" /\ row'[p].mint = "UNSPENT"
            /\ p \notin moving => row'[p] = row[p]
  BY <1>1, <1>2, <1>3, MarkedRows
<1>5. SwapInv'
  <2>1. StoreInv'
    BY <1>4 DEF StoreInv, SwapInv
  <2>2. \A p \in Stored : row'[p].local # "none" /\ row'[p].of = row[p].of
    BY <1>4 DEF Stored
  <2>3. sagas' \subseteq Saga
    BY <1>1, <1>2 DEF SwapInv, SwapTypeOK
  <2> QED  BY <1>1, <1>2, <1>4, <2>1, <2>2, <2>3, StoreStep
<1>6. TypeOK'
  BY <1>1, <1>5 DEF TypeOK, SwapInv
<1>7. PlanInv' /\ TurnInv' /\ RoundInv' /\ CompleteIsClean'
  BY <1>1, <1>2 DEF PlanInv, TurnInv, Running, RoundInv, CompleteIsClean, Paying
<1>8. LiveIn(row)' = moving
  BY <1>3, <1>4 DEF LiveIn, Stored
<1>9. WalletInv'
  BY <1>1, <1>4, <1>8 DEF WalletInv, Moving, Paying
<1>10. Worth(moving)' = Worth(moving)
  BY <1>1, <1>3, <1>4, SameWorth DEF Worth
<1>11. LossInv' /\ JournalNamesPayment'
  BY <1>1, <1>10 DEF LossInv, RoundInv, JournalNamesPayment, Moving, Paying
<1>12. LossWithinCeiling'
  <2>1. LiveSats(row)' = LiveSats(row)
    BY <1>3, <1>8, <1>10, <1>1 DEF LiveSats, Worth
  <2> QED  BY <1>1, <2>1 DEF LossWithinCeiling
<1> QED  BY <1>5, <1>6, <1>7, <1>9, <1>11, <1>12

\* The payment is made; its change is what the next round moves.
LEMMA MovePaidKeeps ==
    ASSUME IndInv, NEW l \in 0..spare, MovePaid(l)
    PROVE  IndInv'
<1> DEFINE change == Worth(moving) - aim - moveFee - l
<1> USE DEF IndInv
<1>1. /\ rpc = "confirm" /\ rpc' = "poll" /\ row' = Melted(moving, NoToken, change)
      /\ change > 0 => Stored # Proofs
      /\ moving' = IF change > 0 THEN {Unused} ELSE {}
      /\ sagas' = sagas \ {MeltOf(NoToken, "proofs_reserved", FALSE)}
      /\ bill' = [bill EXCEPT !.state = "PAID"]
      /\ UNCHANGED <<serving, plan, lock, initial, budget>>
      /\ UNCHANGED <<redeemed, journal, round, moveFee, aim, spare, quotes, waits, moved>>
      /\ BackendUntouched /\ NoFault
  BY DEF MovePaid, Proceed, planVars, roundVars
<1>2. /\ row \in [Proofs -> Row] /\ ~serving /\ pc = "idle" /\ pc' = pc /\ lock
  BY <1>1, RunningAlone
  DEF SwapInv, SwapTypeOK, TurnInv, Running, BackendUntouched, workerVars
<1>3. /\ Worth(moving) \in Nat /\ moving \in SUBSET Stored /\ moving \in SUBSET Proofs
      /\ \A p \in Proofs : p \in moving <=> (p \in Stored /\ row[p].mint = "UNSPENT")
  BY <1>1, MovingIsLive DEF Moving, Paying
<1>4. /\ aim \in Nat /\ moveFee \in Nat /\ spare \in Nat /\ moved \in Nat
      /\ initial \in Nat /\ budget \in Nat
      /\ moved + aim >= initial - budget /\ aim + moveFee + spare <= Worth(moving)
  BY <1>1 DEF TypeOK, LossInv, Paying
<1>5. change \in Nat
  BY <1>3, <1>4
<1> HIDE DEF change
<1>6. /\ row' \in [Proofs -> Row]
      /\ change > 0 => Unused \in Proofs \ Stored /\ row'[Unused] = Fresh(NoToken, change)
      /\ \A p \in Proofs : ~(change > 0 /\ p = Unused) =>
            /\ row'[p].of = row[p].of
            /\ p \in moving => row'[p].local = "SPENT" /\ row'[p].mint = "SPENT"
            /\ p \notin moving => row'[p] = row[p]
  <2>1. NoToken \in Tokens \cup {NoToken}
    OBVIOUS
  <2> QED  BY <1>1, <1>2, <1>3, <1>5, <2>1, MeltedRows
<1>7. /\ bill'.amount = aim /\ bill'.state = "PAID" /\ bill' \in Invoice
  BY <1>1, <1>4 DEF RoundInv, Paying, TypeOK, Invoice
<1>8. SwapInv'
  <2>1. StoreInv'
    BY <1>6 DEF StoreInv, SwapInv, Fresh
  <2>2. \A p \in Stored : row'[p].local # "none" /\ row'[p].of = row[p].of
    BY <1>6 DEF Stored
  <2>3. sagas' \subseteq Saga /\ \A s \in sagas : s.kind = "swap" => s \in sagas'
    BY <1>1 DEF SwapInv, SwapTypeOK, MeltOf
  <2> QED  BY <1>1, <1>2, <1>6, <2>1, <2>2, <2>3, StoreStep
<1>9. TypeOK'
  BY <1>1, <1>6, <1>7, <1>8 DEF TypeOK, SwapInv
<1>10. PlanInv' /\ TurnInv' /\ RoundInv' /\ CompleteIsClean' /\ LossInv' /\ JournalNamesPayment'
  BY <1>1, <1>2, <1>4, <1>7
  DEF PlanInv, TurnInv, Running, RoundInv, CompleteIsClean, LossInv, JournalNamesPayment,
      Paying, Moving
<1>11. LiveIn(row)' = moving'
  BY <1>1, <1>3, <1>6 DEF LiveIn, Stored, Fresh
<1>12. WalletInv'
  <2>1. \A p \in Proofs : \/ plan.rows[p].local \in {"UNSPENT", "RESERVED"}
                          \/ row'[p].local \in {"none", "UNSPENT", "SPENT"}
    BY <1>1, <1>6 DEF WalletInv, Moving, Paying, Fresh
  <2>2. sagas' \subseteq plan.sagas
    BY <1>1 DEF WalletInv, Moving, Paying
  <2> QED  BY <1>1, <1>11, <2>1, <2>2 DEF WalletInv, Moving, Paying
<1>13. LossWithinCeiling'
  <2>1. LiveSats(row') \in Nat
    BY <1>6, LiveIsAmount
  <2>2. LiveSats(row') + bill'.amount + moved >= initial - budget
    BY <1>4, <1>7, <2>1
  <2> QED  BY <1>1, <1>7, <2>2 DEF LossWithinCeiling
<1> QED  BY <1>8, <1>9, <1>10, <1>12, <1>13

\* The payment is refused or its answer is lost: the value is still there or
\* has been paid for.
LEMMA MoveUnansweredKeeps ==
    ASSUME IndInv, MoveRefused \/ (\E done \in BOOLEAN : MoveLost(done))
    PROVE  IndInv'
<1> USE DEF IndInv
<1>1. /\ rpc = "confirm" /\ Stop /\ Fault /\ BackendUntouched
      /\ UNCHANGED <<redeemed, moved, initial, budget, journal>>
  BY DEF MoveRefused, MoveLost, Stop
<1>2. /\ row \in [Proofs -> Row] /\ ~serving /\ pc = "idle" /\ pc' = pc /\ Running
  BY <1>1, RunningAlone DEF SwapInv, SwapTypeOK, Running, BackendUntouched, workerVars
<1>3. PICK local \in {"UNSPENT", "PENDING_SPENT"}, mint \in {"UNSPENT", "SPENT"} :
        /\ row' = Marked(moving, local, mint)
        /\ bill' = [bill EXCEPT !.state = IF mint = "SPENT" THEN "PAID" ELSE @]
  <2>1. CASE MoveRefused
    <3>1. bill' = [bill EXCEPT !.state = @]
      BY <2>1 DEF MoveRefused, TypeOK, Invoice
    <3> QED  BY <2>1, <3>1 DEF MoveRefused
  <2>2. CASE \E done \in BOOLEAN : MoveLost(done)
    BY <2>2 DEF MoveLost
  <2> QED  BY <2>1, <2>2
<1>4. /\ LiveSats(row) = Worth(moving) /\ Worth(moving) \in Nat
      /\ moving \in SUBSET Stored /\ moving \in SUBSET Proofs
      /\ \A p \in Proofs : p \in moving <=> (p \in Stored /\ row[p].mint = "UNSPENT")
  BY <1>1, MovingIsLive DEF Moving, Paying
<1>5. /\ row' \in [Proofs -> Row]
      /\ \A p \in Proofs :
            /\ row'[p].of = row[p].of /\ row'[p].amount = row[p].amount
            /\ p \in moving => row'[p].local = local /\ row'[p].mint = mint
            /\ p \notin moving => row'[p] = row[p]
  BY <1>2, <1>3, <1>4, MarkedRows
<1>6. SwapInv'
  <2>1. StoreInv'
    BY <1>3, <1>5 DEF StoreInv, SwapInv
  <2>2. \A p \in Stored : row'[p].local # "none" /\ row'[p].of = row[p].of
    BY <1>3, <1>5 DEF Stored
  <2>3. sagas' \subseteq Saga /\ \A s \in sagas : s.kind = "swap" => s \in sagas'
    BY DEF MoveRefused, MoveLost, SwapInv, SwapTypeOK, MeltOf, Saga
  <2> QED  BY <1>1, <1>2, <1>5, <2>1, <2>2, <2>3, StoreStep
<1>7. /\ bill'.amount = aim /\ bill' \in Invoice /\ bill'.state \in {"UNPAID", "PAID"}
      /\ mint = "SPENT" => bill'.state = "PAID"
      /\ round \in journal
  BY <1>1, <1>3 DEF RoundInv, Paying, TypeOK, Invoice
<1>8. /\ aim \in Nat /\ moveFee \in Nat /\ spare \in Nat /\ moved \in Nat
      /\ initial \in Nat /\ budget \in Nat
      /\ moved + aim >= initial - budget /\ aim + moveFee + spare <= Worth(moving)
  BY <1>1 DEF TypeOK, LossInv, Paying
<1>9. LossWithinCeiling'
  <2>1. LiveSats(row') \in Nat
    BY <1>5, LiveIsAmount
  <2>2. CASE bill'.state = "PAID"
    <3>1. LiveSats(row') + aim + moved >= initial - budget
      BY <1>8, <2>1
    <3> QED  BY <1>1, <1>7, <2>2, <3>1 DEF LossWithinCeiling
  <2>3. CASE bill'.state = "UNPAID"
    <3>1. LiveIn(row') = moving
      BY <1>3, <1>4, <1>5, <1>7, <2>3 DEF LiveIn, Stored
    <3>2. LiveSats(row') = Worth(moving)
      BY <1>4, <1>5, <3>1, SameWorth DEF LiveSats, Worth
    <3>3. LiveSats(row') + 0 + moved >= initial - budget
      BY <1>4, <1>8, <3>2
    <3> QED  BY <1>1, <2>3, <3>3 DEF LossWithinCeiling
  <2> QED  BY <1>7, <2>2, <2>3
<1> QED  BY <1>1, <1>2, <1>6, <1>7, <1>8, <1>9, StopKeeps

\* The quote is paid and minted: what was being paid is moved.
LEMMA MintedKeeps ==
    ASSUME IndInv, MoveMinted
    PROVE  IndInv'
<1> USE DEF IndInv
<1>1. /\ rpc = "poll" /\ moved' = moved + bill.amount /\ bill' = NoInvoice
      /\ BackendUntouched /\ UNCHANGED foreignVars /\ NoFault
      /\ bill.amount = aim /\ moved + aim >= initial - budget
      /\ aim \in Nat /\ moved \in Nat /\ round \in 1..MaxRounds
      /\ initial \in Nat /\ budget \in Nat
  BY DEF MoveMinted, RoundInv, LossInv, Paying, TypeOK
<1>2. SwapInv' /\ pc' = pc /\ bill' \in Invoice /\ moved' \in Nat
  BY <1>1, RunningAlone, QuietStep DEF BackendUntouched, workerVars, NoInvoice, Invoice
<1>3. UNCHANGED <<journal, initial, budget>>
  BY DEF MoveMinted, Stop, Proceed
<1>4. LossWithinCeiling'
  <2>1. LiveSats(row') \in Nat
    BY <1>2, LiveIsAmount DEF SwapInv, SwapTypeOK
  <2>2. LiveSats(row') + 0 + moved' >= initial - budget
    BY <1>1, <2>1
  <2> QED  BY <1>1, <1>3, <2>2 DEF LossWithinCeiling, NoInvoice
<1>5. CASE Stop
  BY <1>1, <1>2, <1>4, <1>5, StopKeeps DEF Running, NoInvoice
<1>6. CASE ~Stop
  <2>1. rpc' = "round" /\ Proceed(rpc') /\ round' = round + 1
        /\ UNCHANGED <<journal, moving, roundVars>>
    BY <1>6 DEF MoveMinted, Proceed
  <2>2. RoundInv' /\ LossInv'
    BY <1>1, <1>3, <2>1, RecoveryAssumption DEF RoundInv, LossInv, Paying, Moving
  <2>3. round' \in 0..MaxRounds + 1
    BY <1>1, <2>1, RecoveryAssumption
  <2> QED
    BY <1>1, <1>2, <1>3, <1>4, <2>1, <2>2, <2>3, RoundGoesOn
    DEF Moving, Paying, TypeOK, roundVars
<1> QED  BY <1>5, <1>6

\* The mint issues and its answer is lost: the quote stays as one being issued.
LEMMA MintedLostKeeps ==
    ASSUME IndInv, MintedLost
    PROVE  IndInv'
<1> USE DEF IndInv
<1>1. /\ rpc = "poll" /\ bill' = [bill EXCEPT !.state = "ISSUING"] /\ Stop
      /\ bill.state = "PAID" /\ round \in journal /\ bill \in Invoice
      /\ BackendUntouched /\ UNCHANGED <<foreignVars, moved>> /\ Fault
  BY DEF MintedLost, RoundInv, Paying, TypeOK
<1>2. /\ SwapInv' /\ pc' = pc /\ bill'.amount = bill.amount /\ bill'.state = "ISSUING"
      /\ bill' \in Invoice
  BY <1>1, RunningAlone, QuietStep DEF BackendUntouched, workerVars, Invoice
<1>3. LossWithinCeiling'
  BY <1>1, <1>2 DEF LossWithinCeiling, Stop, foreignVars, LiveSats, LiveIn, WorthIn
<1> QED  BY <1>1, <1>2, <1>3, StopKeeps DEF Running, TypeOK

--------------------------------------------------------------------------------
(***************************************************************************)
(* The cleanup.                                                            *)
(***************************************************************************)

\* The check before the cleanup asks the mint and writes no rows.
LEMMA CheckCleanupKeeps ==
    ASSUME IndInv, CheckCleanup
    PROVE  IndInv'
<1> USE DEF IndInv
<1>1. /\ rpc = "cleanup" /\ BackendUntouched /\ UNCHANGED <<foreignVars, bill, moved>>
      /\ NoFault
  BY DEF CheckCleanup
<1>2. CASE Stop
  BY <1>1, <1>2, StopQuietly DEF Running
<1>3. CASE ~Stop
  <2>1. /\ rpc' = "archive" /\ Proceed(rpc') /\ UNCHANGED <<initial, budget>>
        /\ UNCHANGED <<journal, moving, round, roundVars>>
    BY <1>3 DEF CheckCleanup, Proceed
  <2>2. RoundInv' /\ LossInv'
    BY <1>1, <2>1 DEF RoundInv, LossInv, Paying, Moving
  <2>3. LossWithinCeiling'
    BY <1>1, <2>1, CeilingStays
  <2> QED
    BY <1>1, <2>1, <2>2, <2>3, RoundGoesOn DEF Moving, Paying, TypeOK, roundVars
<1> QED  BY <1>2, <1>3

\* What was planned for gets the state the mint reports, and the operations
\* listed at the start are gone; nothing live is lost by it.
LEMMA ArchiveKeeps ==
    ASSUME IndInv, Archive
    PROVE  IndInv'
<1> USE DEF IndInv
<1>1. /\ rpc = "archive" /\ rpc' = "report" /\ sagas' = sagas \ plan.sagas
      /\ UNCHANGED <<serving, plan, lock, initial, budget>>
      /\ UNCHANGED <<redeemed, journal, moving, round, moveFee, aim, spare, quotes, waits,
                     bill, moved>>
      /\ BackendUntouched /\ NoFault
  BY DEF Archive, Proceed, planVars, roundVars
<1>2. /\ row \in [Proofs -> Row] /\ ~serving /\ pc = "idle" /\ pc' = pc /\ lock
      /\ StoreInv
  BY <1>1, RunningAlone
  DEF SwapInv, SwapTypeOK, TurnInv, Running, BackendUntouched, workerVars
<1>3. /\ row' \in [Proofs -> Row]
      /\ \A p \in Proofs :
            /\ row'[p].of = row[p].of /\ row'[p].amount = row[p].amount
            /\ row'[p].mint = row[p].mint
            /\ row'[p].local = IF plan.rows[p].local \in {"none", "SPENT"}
                               THEN row[p].local ELSE row[p].mint
  BY <1>2 DEF Archive, Row
<1>4. /\ \A p \in Proofs : row[p].mint \in {"UNSPENT", "SPENT"}
      /\ \A p \in Stored : row'[p].local # "none"
  BY <1>2, <1>3 DEF Row, Stored
<1>5. SwapInv'
  <2>1. StoreInv'
    BY <1>2, <1>3, <1>4 DEF StoreInv
  <2>2. sagas' \subseteq Saga /\ \A s \in sagas : s.kind = "swap" /\ s.done => s \in sagas'
    BY <1>1 DEF SwapInv, SwapTypeOK, PlanInv
  <2>3. \A p \in Stored : row'[p].of = row[p].of
    BY <1>3 DEF Stored
  <2> QED  BY <1>1, <1>2, <1>3, <1>4, <2>1, <2>2, <2>3, StoreStep
<1>6. TypeOK'
  BY <1>1, <1>5 DEF TypeOK, SwapInv
<1>7. PlanInv' /\ TurnInv' /\ RoundInv' /\ CompleteIsClean' /\ LossInv' /\ JournalNamesPayment'
  BY <1>1, <1>2
  DEF PlanInv, TurnInv, Running, RoundInv, CompleteIsClean, LossInv, JournalNamesPayment,
      Paying, Moving
<1>8. LiveIn(row)' = moving /\ moving \in SUBSET Proofs
  <2>1. \A p \in Proofs : /\ row[p].local = "none" => row[p].mint = "SPENT"
                          /\ row[p].mint = "UNSPENT" => row'[p].local # "none"
    BY <1>2, <1>3 DEF StoreInv
  <2> QED  BY <1>1, <1>3, <2>1 DEF WalletInv, LiveIn, Moving
<1>9. WalletInv'
  <2>1. sagas' = {}
    BY <1>1 DEF WalletInv, Moving
  <2>2. \A p \in Proofs : row'[p].local \in {"none", "UNSPENT", "SPENT"}
    BY <1>1, <1>3, <1>4 DEF WalletInv, Moving
  <2> QED  BY <1>1, <1>8, <2>1, <2>2 DEF WalletInv, Moving, Paying
<1>10. LossWithinCeiling'
  <2>1. LiveSats(row) = Worth(moving)
    BY <1>1, MovingIsLive DEF Moving
  <2>2. LiveSats(row)' = Worth(moving)
    BY <1>3, <1>8, SameWorth DEF LiveSats, Worth
  <2> QED  BY <1>1, <2>1, <2>2 DEF LossWithinCeiling
<1> QED  BY <1>5, <1>6, <1>7, <1>9, <1>10

\* The wallet is compared with what the execution knows.
LEMMA ReportKeeps ==
    ASSUME IndInv, Report
    PROVE  IndInv'
<1> USE DEF IndInv
<1>1. /\ rpc = "report" /\ BackendUntouched /\ UNCHANGED <<foreignVars, bill, moved>>
      /\ NoFault
  BY DEF Report
<1>2. CASE Stop
  BY <1>1, <1>2, StopQuietly DEF Running
<1>3. CASE ~Stop
  <2>1. /\ rpc' = "complete" /\ lock' = FALSE /\ moving' = {} /\ moveFee' = 0 /\ aim' = 0
        /\ spare' = 0 /\ quotes' = 0 /\ waits' = 0
        /\ UNCHANGED <<serving, plan, journal, initial, budget, round>>
        /\ ActiveSats = Worth(moving)
    BY <1>3 DEF Report
  <2>2. SwapInv' /\ ~serving /\ pc = "idle" /\ pc' = pc
    BY <1>1, RunningAlone, QuietStep DEF BackendUntouched, workerVars
  <2>3. TypeOK'
    <3>1. quotes' \in 0..MaxQuotes /\ waits' \in 0..MaxPolls
      BY <2>1, RecoveryAssumption, ConversionAssumption
    <3>2. SwapTypeOK' /\ bill' \in Invoice /\ moved' \in Nat
      BY <1>1, <2>2 DEF TypeOK, SwapInv
    <3> QED  BY <2>1, <3>1, <3>2 DEF TypeOK
  <2>4. PlanInv' /\ TurnInv' /\ RoundInv' /\ WalletInv' /\ LossInv' /\ JournalNamesPayment'
    BY <1>1, <2>1, <2>2
    DEF PlanInv, TurnInv, Running, RoundInv, WalletInv, LossInv, JournalNamesPayment,
        Paying, Moving
  <2>5. LossWithinCeiling'
    BY <1>1, <2>1, CeilingStays
  <2>6. CompleteIsClean'
    <3>1. LiveSats(row) = Worth(moving)
      BY <1>1, MovingIsLive
    <3>2. ActiveSats' = LiveSats(row)'
      BY <1>1, <2>1, <3>1
      DEF ActiveSats, LiveSats, LiveIn, Worth, WorthIn, Stored, foreignVars
    <3>3. sagas' = {} /\ ~lock' /\ \A p \in Stored' : row'[p].local \in {"UNSPENT", "SPENT"}
      BY <1>1, <2>1 DEF WalletInv, Stored, foreignVars
    <3> QED  BY <3>2, <3>3 DEF CompleteIsClean
  <2> QED  BY <2>2, <2>3, <2>4, <2>5, <2>6
<1> QED  BY <1>2, <1>3

\* Every step of an execution keeps the invariant.
LEMMA ExecutionKeeps ==
    ASSUME IndInv, RecoveryStep
    PROVE  IndInv'
  BY FailingKeeps, CheckPlanKeeps, BackupKeeps, QuotingKeeps, ChosenKeeps, AnnounceKeeps,
     MovePrepareKeeps, MovePaidKeeps, MoveUnansweredKeeps, MintedKeeps, MintedLostKeeps,
     CheckCleanupKeeps, ArchiveKeeps, ReportKeeps
  DEF RecoveryStep

--------------------------------------------------------------------------------
(***************************************************************************)
(* The backend and the operator.                                           *)
(***************************************************************************)

\* While the backend runs there is no execution whose state could be at odds
\* with what it does.
LEMMA ServingKeeps ==
    ASSUME IndInv, serving, SwapInv', UNCHANGED <<planVars, executeVars>>
    PROVE  IndInv'
<1> USE DEF IndInv, planVars, executeVars
<1>1. rpc = "none" /\ journal = {}
  BY DEF TurnInv
<1>2. TypeOK' /\ PlanInv' /\ TurnInv' /\ RoundInv'
  BY <1>1 DEF TypeOK, SwapInv, PlanInv, TurnInv, Running, RoundInv
<1>3. WalletInv' /\ LossInv' /\ CompleteIsClean' /\ JournalNamesPayment' /\ LossWithinCeiling'
  BY <1>1
  DEF WalletInv, LossInv, CompleteIsClean, JournalNamesPayment, LossWithinCeiling, Paying,
      Moving
<1> QED  BY <1>2, <1>3

\* The steps of the backend, as Next lists them.
BackendStep ==
    serving /\ SwapNext /\ UNCHANGED <<planVars, executeVars>>

\* What the backend does while it serves.
LEMMA BackendKeeps ==
    ASSUME IndInv, BackendStep
    PROVE  IndInv'
<1>1. SwapInv'
  BY SwapStepKeeps, TakeKeeps, RestartKeeps DEF BackendStep, SwapNext, IndInv
<1> QED  BY <1>1, ServingKeeps DEF BackendStep

\* Stopping the backend cuts its conversion off where it is.
LEMMA StopBackendKeeps ==
    ASSUME IndInv, StopBackend
    PROVE  IndInv'
<1> USE DEF IndInv, StopBackend, executeVars
<1>1. SwapInv' /\ pc' = "idle"
  BY EndKeeps DEF SwapInv, SwapTypeOK, ToIdle
<1>2. rpc = "none" /\ journal = {}
  BY DEF TurnInv
<1>3. TypeOK' /\ PlanInv' /\ TurnInv' /\ RoundInv'
  BY <1>1, <1>2 DEF TypeOK, SwapInv, PlanInv, TurnInv, Running, RoundInv
<1>4. WalletInv' /\ LossInv' /\ CompleteIsClean' /\ JournalNamesPayment' /\ LossWithinCeiling'
  BY <1>2
  DEF WalletInv, LossInv, CompleteIsClean, JournalNamesPayment, LossWithinCeiling, Paying,
      Moving
<1> QED  BY <1>1, <1>3, <1>4

\* The backend is started again, when no command runs or it is complete.
LEMMA StartBackendKeeps ==
    ASSUME IndInv, StartBackend
    PROVE  IndInv'
<1> USE DEF IndInv, StartBackend
<1>1. SwapInv'
  <2>1. pc = "idle" /\ pc' = "idle" /\ Idle'
    BY DEF TurnInv, SwapInv, ControlInv, Idle, workerVars
  <2>2. faults' \in 0..MaxFaults /\ restarts' \in 0..MaxRestarts
    BY ConversionAssumption DEF SwapInv, SwapTypeOK
  <2> QED  BY <2>1, <2>2, ReopenKeeps
<1>2. rpc' = "none" /\ journal' = {} /\ bill' = NoInvoice
  OBVIOUS
<1>3. TypeOK'
  BY <1>1, RecoveryAssumption DEF TypeOK, SwapInv, NoInvoice, Invoice, roundVars
<1>4. PlanInv' /\ TurnInv' /\ RoundInv'
  BY <1>2 DEF PlanInv, TurnInv, Running, RoundInv, Paying
<1>5. WalletInv' /\ LossInv' /\ CompleteIsClean' /\ JournalNamesPayment' /\ LossWithinCeiling'
  BY <1>2
  DEF WalletInv, LossInv, CompleteIsClean, JournalNamesPayment, LossWithinCeiling, Paying,
      Moving, NoInvoice
<1> QED  BY <1>1, <1>3, <1>4, <1>5

\* A plan is made of a wallet whose old operations are dead; an execution takes
\* the lock before anything else.
LEMMA PlanningKeeps ==
    ASSUME IndInv, MakePlan \/ (\E ceiling \in FeeCeilings : Execute(ceiling))
    PROVE  IndInv'
<1> USE DEF IndInv
<1>1. SwapInv' /\ UNCHANGED <<row, sagas, pc>>
  BY SwapStutter DEF MakePlan, Execute, swapVars, foreignVars, workerVars
<1>2. CASE MakePlan
  <2>1. /\ ~Running /\ Classified /\ OldOperationsDead /\ plan' = Current
        /\ UNCHANGED <<serving, lock, executeVars>>
    BY <1>2 DEF MakePlan, Plannable
  <2>2. plan' \in [made : BOOLEAN, rows : [Proofs -> Row], sagas : SUBSET Saga]
    BY <2>1 DEF Current, SwapInv, SwapTypeOK
  <2>3. PlanInv'
    BY <2>1 DEF PlanInv, Current, Classified, OldOperationsDead, Stored
  <2>4. TypeOK' /\ TurnInv' /\ RoundInv'
    BY <1>1, <2>1, <2>2 DEF TypeOK, SwapInv, TurnInv, Running, RoundInv, executeVars
  <2>5. WalletInv' /\ LossInv'
    BY <2>1 DEF WalletInv, LossInv, Running, Paying, Moving, executeVars
  <2>6. CompleteIsClean' /\ JournalNamesPayment' /\ LossWithinCeiling'
    BY <1>1, <2>1
    DEF CompleteIsClean, JournalNamesPayment, LossWithinCeiling, executeVars, Stored,
        ActiveSats, Worth, WorthIn, LiveSats, LiveIn
  <2> QED  BY <1>1, <2>3, <2>4, <2>5, <2>6
<1>3. CASE \E ceiling \in FeeCeilings : Execute(ceiling)
  <2>1. PICK ceiling \in FeeCeilings : Execute(ceiling)
    BY <1>3
  <2>2. /\ lock' = TRUE /\ budget' \in Nat /\ rpc' \in {"check", "stopped"}
        /\ journal' = {} /\ initial' = 0 /\ round' = 0 /\ moved' = 0 /\ bill' = NoInvoice
        /\ ~serving /\ UNCHANGED <<serving, plan, moving, roundVars>>
    BY <2>1, RecoveryAssumption DEF Execute
  <2>3. TypeOK'
    BY <1>1, <2>2, RecoveryAssumption DEF TypeOK, SwapInv, NoInvoice, Invoice, roundVars
  <2>4. PlanInv' /\ TurnInv' /\ RoundInv'
    BY <1>1, <2>2 DEF PlanInv, TurnInv, Running, RoundInv, Paying
  <2>5. WalletInv' /\ LossInv' /\ CompleteIsClean' /\ JournalNamesPayment' /\ LossWithinCeiling'
    BY <2>2
    DEF WalletInv, LossInv, CompleteIsClean, JournalNamesPayment, LossWithinCeiling, Paying,
        Moving, NoInvoice
  <2> QED  BY <1>1, <2>3, <2>4, <2>5
<1> QED  BY <1>2, <1>3

--------------------------------------------------------------------------------
(***************************************************************************)
(* The theorems.                                                           *)
(***************************************************************************)

\* The invariant before the command is run.
LEMMA InitInd == RecoveryInit => IndInv
<1> SUFFICES ASSUME RecoveryInit PROVE IndInv
  OBVIOUS
<1> USE DEF RecoveryInit
<1>1. SwapInv /\ SwapTypeOK
  BY SwapInitInv DEF SwapInv
<1>2. TypeOK
  <2>1. plan \in [made : BOOLEAN, rows : [Proofs -> Row], sagas : SUBSET Saga]
    BY DEF NoPlan, NoRow, Row
  <2>2. quotes \in 0..MaxQuotes /\ waits \in 0..MaxPolls /\ round \in 0..MaxRounds + 1
    BY RecoveryAssumption, ConversionAssumption
  <2> QED  BY <1>1, <2>1, <2>2 DEF TypeOK, NoInvoice, Invoice
<1>3. PlanInv /\ TurnInv /\ RoundInv
  BY DEF PlanInv, TurnInv, Running, RoundInv, NoPlan, NoRow, Paying
<1>4. WalletInv /\ LossInv /\ CompleteIsClean /\ JournalNamesPayment /\ LossWithinCeiling
  BY DEF WalletInv, LossInv, CompleteIsClean, JournalNamesPayment, LossWithinCeiling,
         Paying, Moving, NoInvoice
<1> QED  BY <1>1, <1>2, <1>3, <1>4 DEF IndInv

\* Next is a step of the backend, of an execution or of the operator.
LEMMA NextSplits == Next => BackendStep \/ RecoveryStep \/ Operator
<1> SUFFICES ASSUME Next, ~RecoveryStep, ~Operator PROVE BackendStep
  OBVIOUS
<1> QED  BY DEF Next, Backend, BackendStep, SwapNext, SwapStep

\* Every step keeps the invariant.
LEMMA NextInd == IndInv /\ [Next]_vars => IndInv'
<1> SUFFICES ASSUME IndInv, [Next]_vars PROVE IndInv'
  OBVIOUS
<1>1. CASE Operator
  BY <1>1, StopBackendKeeps, StartBackendKeeps, PlanningKeeps DEF Operator
<1>2. CASE UNCHANGED vars
  <2>1. CASE serving
    BY <1>2, <2>1, SwapStutter, ServingKeeps DEF vars, IndInv
  <2> USE DEF vars, planVars, executeVars, swapVars, foreignVars, workerVars
  <2>2. SwapInv'
    BY <1>2, SwapStutter DEF IndInv
  <2>3. TypeOK' /\ PlanInv' /\ TurnInv' /\ RoundInv'
    BY <1>2, <2>2 DEF IndInv, TypeOK, SwapInv, PlanInv, TurnInv, Running, RoundInv
  <2>4. WalletInv' /\ LossInv'
    BY <1>2 DEF IndInv, WalletInv, LossInv, LiveIn, Worth, WorthIn
  <2>5. CompleteIsClean' /\ JournalNamesPayment' /\ LossWithinCeiling'
    BY <1>2
    DEF IndInv, CompleteIsClean, JournalNamesPayment, LossWithinCeiling, Stored,
        ActiveSats, Worth, WorthIn, LiveSats, LiveIn
  <2> QED  BY <2>2, <2>3, <2>4, <2>5 DEF IndInv
<1> QED  BY <1>1, <1>2, NextSplits, BackendKeeps, ExecutionKeeps

\* The invariant holds throughout, whatever is cut off, refused or lost.
THEOREM Invariance == Spec => []IndInv
  BY InitInd, NextInd, PTL DEF Spec

\* Types and bounds, conversions and executions together.
THEOREM TypeCorrect == Spec => []TypeOK
<1>1. IndInv => TypeOK
  BY DEF IndInv
<1> QED  BY <1>1, Invariance, PTL

\* A conversion spends only what its own token brought (received_proofs),
\* also from a wallet that recoveries have worked on.
THEOREM ProofsAreOwn == Spec => []OnlyOwnProofs
<1>1. IndInv => OnlyOwnProofs
  BY DEF IndInv, SwapInv
<1> QED  BY <1>1, Invariance, PTL

\* No melt is paid for an invoice that loses more than the limit of the token
\* (swap_to_canonical).
THEOREM LossIsLimited == Spec => []PaidWithinLimit
<1>1. IndInv => PaidWithinLimit
  BY DEF IndInv, SwapInv
<1> QED  BY <1>1, Invariance, PTL

\* A payout is made from ecash minted for its token (validate_redemption).
THEOREM PayoutsAreFunded == Spec => []PayoutFunded
<1>1. IndInv => PayoutFunded
  BY LedgerFundsPayouts DEF IndInv
<1> QED  BY <1>1, Invariance, PTL

\* A token the mint has taken is found again, in a row or in an operation, also
\* after a cleanup (receive_foreign_token, m5_recover).
THEOREM TokensAreTraced == Spec => []TokenTraced
<1>1. IndInv => TokenTraced
  BY DEF IndInv, SwapInv
<1> QED  BY <1>1, Invariance, PTL

\* "Aggregate loss cannot exceed the configured ceiling", wherever an execution
\* is or has stopped (enforce_budget).
THEOREM CeilingHolds == Spec => []LossWithinCeiling
<1>1. IndInv => LossWithinCeiling
  BY DEF IndInv
<1> QED  BY <1>1, Invariance, PTL

\* The journal is ahead of every payment (event, before_melt).
THEOREM PaymentsAreAnnounced == Spec => []JournalNamesPayment
<1>1. IndInv => JournalNamesPayment
  BY DEF IndInv
<1> QED  BY <1>1, Invariance, PTL

\* No cleanup writes off what the mint still honours.
THEOREM LiveValueIsKept == Spec => []LiveValueStaysActive
<1>1. IndInv => LiveValueStaysActive
  BY DEF IndInv, SwapInv, StoreInv, LiveValueStaysActive, Stored
<1> QED  BY <1>1, Invariance, PTL

\* An execution that completes leaves a wallet that can be used (execute).
THEOREM CompletionIsClean == Spec => []CompleteIsClean
<1>1. IndInv => CompleteIsClean
  BY DEF IndInv
<1> QED  BY <1>1, Invariance, PTL

\* After an interrupted execution that had announced a payment nothing is
\* executed (main, execute): nobody but the operator removes its lock.
THEOREM InterruptionsAreFinal == Spec => InterruptedIsFinal
<1>1. IndInv /\ [Next]_vars => [(rpc = "stopped" /\ journal # {}) => rpc' = "stopped"]_vars
  <2> SUFFICES ASSUME IndInv, Next, rpc = "stopped" PROVE rpc' = "stopped"
    OBVIOUS
  <2>1. ~serving /\ lock
    BY DEF IndInv, TurnInv
  <2>2. CASE Operator
    BY <2>1, <2>2 DEF Operator, StopBackend, StartBackend, MakePlan, Execute, executeVars
  <2>3. ~RecoveryStep
    BY DEF RecoveryStep, ExecutionFails, Running, CheckPlan, Backup, BeginRound, LastRound,
           MoveQuote, MoveChosen, Announce, MovePrepare, MoveRefused, MovePaid, MoveLost,
           MoveWaits, MoveUnpaid, MoveMinted, MintedLost, CheckCleanup, Archive, Report
  <2> QED  BY <2>1, <2>2, <2>3, NextSplits DEF BackendStep
<1> QED  BY <1>1, Invariance, PTL DEF Spec, InterruptedIsFinal

\* Also with recoveries in between the conversions are an exchange: a recovery
\* moves what they left behind and buys for no token again (execute).
THEOREM ExchangeImplemented == Spec => ImplementsExchange
<1>1. RecoveryInit => Exchange!Init
  BY ExchangeInit DEF RecoveryInit
<1>2. IndInv /\ [Next]_vars => [Exchange!Next]_(Exchange!account)
  <2> SUFFICES ASSUME IndInv, [Next]_vars PROVE ExchangeNext
    BY DEF ExchangeNext
  <2>1. SwapInv
    BY DEF IndInv
  <2>2. CASE BackendStep \/ UNCHANGED vars
    BY <2>1, <2>2, ExchangeStep DEF BackendStep, vars
  <2>3. CASE StartBackend
    BY <2>1, <2>3, ExchangeReopens DEF StartBackend, withdrawalVars, foreignVars
  <2>4. CASE RecoveryStep \/ StopBackend \/ MakePlan
                \/ (\E ceiling \in FeeCeilings : Execute(ceiling))
    <3>1. UNCHANGED <<face, asked, redeemed, credited, paidOut, invoice>>
      BY <2>4
      DEF RecoveryStep, ExecutionFails, CheckPlan, Backup, BeginRound, LastRound,
          MoveQuote, MoveChosen, Announce, MovePrepare, MoveRefused, MovePaid, MoveLost,
          MoveWaits, MoveUnpaid, MoveMinted, MintedLost, CheckCleanup, Archive, Report,
          StopBackend, MakePlan, Execute, BackendUntouched, swapVars, withdrawalVars,
          foreignVars, canonicalVars
    <3> QED  BY <2>1, <3>1, ExchangeRests
  <2> QED  BY <2>2, <2>3, <2>4, NextSplits DEF Operator
<1> QED
  BY <1>1, <1>2, Invariance, PTL DEF Spec, ImplementsExchange, Exchange!Spec
================================================================================
