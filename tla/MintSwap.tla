-------------------------------- MODULE MintSwap -------------------------------
(***************************************************************************)
(* The conversion of a foreign token into ecash of the canonical mint      *)
(* (wallet/swap.rs), as the withdrawal worker runs it (redeem and execute  *)
(* in workers/withdrawal.rs): receive the token into the wallet kept for   *)
(* the foreign mint, size an invoice of the canonical mint, pay it with    *)
(* exactly the proofs received, mint, and record what came out.            *)
(*                                                                         *)
(* There is one worker, so one conversion runs at a time; what makes it    *)
(* hard is that each step of an earlier one may have failed or been cut    *)
(* off, and its proofs and wallet operations are still in the store.       *)
(*                                                                         *)
(* A row of the foreign wallet stands for the proofs one operation         *)
(* produced.  The wallet library and the two mints are modelled from what  *)
(* swap.rs and m5_recover.rs rely on.                                      *)
(***************************************************************************)
EXTENDS Naturals, FiniteSets, Functions

CONSTANTS
    Tokens,         \* foreign tokens, each handed in for one withdrawal
    Faces,          \* what a token can be worth
    Surpluses,      \* values of WITHDRAWAL_FEE_BUFFER_SATS, asked for on top
    InputFees,      \* what a mint can charge for spending proofs
    Reserves,       \* fee reserves the foreign mint can quote
    LossDivisor,    \* 20: at most a twentieth may be lost
    MaxReductions,  \* MAX_MELT_FEE_REDUCTIONS, 32
    MaxPolls,       \* DEFAULT_SWAP_MAX_ATTEMPTS, 30
    MaxAttempts,    \* attempts of a withdrawal
    MaxProofs,      \* bound: rows of the foreign wallet
    MaxFaults,      \* bound: calls that fail or whose answer is lost
    MaxRestarts,    \* bound: crashes of the backend
    NoToken         \* absent value

ASSUME ConversionAssumption ==
    /\ Faces \subseteq Nat \ {0} /\ Surpluses \subseteq Nat
    /\ InputFees \subseteq Nat /\ Reserves \subseteq Nat
    /\ LossDivisor \in Nat \ {0} /\ MaxReductions \in Nat /\ MaxPolls \in Nat
    /\ MaxAttempts \in Nat /\ MaxProofs \in Nat
    /\ MaxFaults \in Nat /\ MaxRestarts \in Nat
    /\ NoToken \notin Tokens

VARIABLES
    \* the withdrawals
    face, asked,    \* worth of the token, requested_amount_sats
    consumed, fee,  \* token_value_sats once token_consumed, swap_fee_sats
    paidOut,        \* what the payout was made for
    attempts,
    \* the foreign mint and the wallet kept for it
    redeemed,       \* tokens whose proofs the mint has spent
    row,            \* proofs in the wallet
    sagas,          \* wallet operations that did not finish
    \* the canonical mint and wallet
    invoice,        \* mint quote a conversion pays or has paid
    credited,       \* what the canonical wallet minted for the token
    \* the worker
    pc, cur, inputs, inputFee, target, reserve, tries, polls,
    faults, restarts

withdrawalVars == <<face, asked, consumed, fee, paidOut, attempts>>
foreignVars    == <<redeemed, row, sagas>>
canonicalVars  == <<invoice, credited>>
workerVars     == <<pc, cur, inputs, inputFee, target, reserve, tries, polls>>
swapVars == <<withdrawalVars, foreignVars, canonicalVars, workerVars, faults, restarts>>

Proofs == 1..MaxProofs
\* local is the state in the wallet's store, mint what the mint would answer.
Row == [of : Tokens \cup {NoToken}, amount : Nat,
        local : {"none", "UNSPENT", "RESERVED", "PENDING_SPENT", "SPENT"},
        mint : {"UNSPENT", "SPENT"}]
NoRow == [of |-> NoToken, amount |-> 0, local |-> "none", mint |-> "SPENT"]
\* done: the mint issued the outputs of the swap, or paid the quote.
Saga == [kind : {"swap", "melt"}, of : Tokens \cup {NoToken},
         phase : {"swap_requested", "proofs_reserved", "melt_requested"},
         done : BOOLEAN]
Invoice == [amount : Nat, state : {"none", "UNPAID", "PAID", "ISSUING", "ISSUED"}]
NoInvoice == [amount |-> 0, state |-> "none"]

Stored == {p \in Proofs : row[p].local # "none"}
WorthIn(rows, ps) == SumFunctionOnSet([p \in Proofs |-> rows[p].amount], ps)
Worth(ps) == WorthIn(row, ps)
Fresh(t, amount) ==
    [of |-> t, amount |-> amount, local |-> "UNSPENT", mint |-> "UNSPENT"]
Unused == CHOOSE p \in Proofs \ Stored : \A q \in Proofs \ Stored : p <= q
Sub(a, b) == IF a > b THEN a - b ELSE 0
Least(a, b) == IF a < b THEN a ELSE b
Greatest(a, b) == IF a > b THEN a ELSE b

Idle == /\ pc = "idle" /\ cur = NoToken /\ inputs = {} /\ inputFee = 0
        /\ target = 0 /\ reserve = 0 /\ tries = 0 /\ polls = 0
ToIdle == /\ pc' = "idle" /\ cur' = NoToken /\ inputs' = {} /\ inputFee' = 0
          /\ target' = 0 /\ reserve' = 0 /\ tries' = 0 /\ polls' = 0

SwapInit ==
    /\ face \in [Tokens -> Faces]
    /\ \E s \in Surpluses :
            asked = [t \in Tokens |-> Greatest(1, Sub(face[t], s))]
    /\ consumed = [t \in Tokens |-> 0] /\ fee = [t \in Tokens |-> 0]
    /\ paidOut = [t \in Tokens |-> 0] /\ attempts = [t \in Tokens |-> 0]
    /\ redeemed = {} /\ row = [p \in Proofs |-> NoRow] /\ sagas = {}
    /\ invoice = [t \in Tokens |-> NoInvoice] /\ credited = [t \in Tokens |-> 0]
    /\ Idle /\ faults = 0 /\ restarts = 0

Fault == faults < MaxFaults /\ faults' = faults + 1
NoFault == faults' = faults

\* validate_conversion_amount.
LossAllowed(original, converted) ==
    /\ 0 < converted /\ converted <= original
    /\ original - converted <= original \div LossDivisor

\* Mutated form of RedemptionValid: any shortfall is taken for a fee.
AnyShortfall(requested, amount, swapFee) == 0 < amount

\* validate_redemption: a token worth at least what was asked for may bring
\* more; a shortfall must be small and be the whole fee of the conversion.
RedemptionValid(requested, amount, swapFee) ==
    /\ 0 < amount
    /\ amount < requested => /\ LossAllowed(requested, amount)
                             /\ swapFee = requested - amount

--------------------------------------------------------------------------------
(***************************************************************************)
(* The withdrawal worker takes a queued withdrawal.                        *)
(***************************************************************************)

\* Mutated form of Take: the attempts are not limited.
TakeAlways(t) ==
    /\ pc = "idle" /\ paidOut[t] = 0
    /\ attempts' = [attempts EXCEPT ![t] = @ + 1]
    /\ cur' = t
    /\ pc' = IF consumed[t] = 0 THEN "receive" ELSE "pay"
    /\ UNCHANGED <<face, asked, consumed, fee, paidOut, foreignVars,
                   canonicalVars, inputs, inputFee, target, reserve, tries,
                   polls, faults, restarts>>

\* execute: a token already recorded as consumed is not redeemed again.
Take(t) ==
    /\ pc = "idle" /\ paidOut[t] = 0 /\ attempts[t] < MaxAttempts
    /\ attempts' = [attempts EXCEPT ![t] = @ + 1]
    /\ cur' = t
    /\ pc' = IF consumed[t] = 0 THEN "receive" ELSE "pay"
    /\ consumed[t] # 0 => RedemptionValid(asked[t], consumed[t], fee[t])
    /\ UNCHANGED <<face, asked, consumed, fee, paidOut, foreignVars,
                   canonicalVars, inputs, inputFee, target, reserve, tries,
                   polls, faults, restarts>>

\* Any error ends the attempt and leaves the wallet as it is.
Give == ToIdle /\ UNCHANGED <<withdrawalVars, canonicalVars, restarts>>

\* A wallet or mint call fails and leaves nothing behind.
CallFails ==
    /\ pc \in {"receive", "fee", "quote", "melt", "mint", "record"} /\ Fault
    /\ Give /\ UNCHANGED foreignVars

--------------------------------------------------------------------------------
(***************************************************************************)
(* receive_foreign_token, under one lock of the foreign wallet.            *)
(***************************************************************************)

UnspentIn(rows) == {p \in Proofs : rows[p].local = "UNSPENT"}

\* Mutated form of ReceivedProofs: the wallet's whole unspent balance.
PooledProofs(before, rows, received) == UnspentIn(rows)

\* received_proofs: what is unspent now and was not there before, if it adds
\* up to what the wallet says it received.
ReceivedProofs(before, rows, received) ==
    LET fresh == UnspentIn(rows) \ before
    IN  IF WorthIn(rows, fresh) = received THEN fresh ELSE {}

\* The mint exchanges the token for new proofs, less a fee.
Receive(charge) ==
    /\ pc = "receive" /\ cur \notin redeemed /\ charge < face[cur]
    /\ NoFault /\ Stored # Proofs
    /\ redeemed' = redeemed \cup {cur} /\ UNCHANGED sagas
    /\ LET received == face[cur] - charge
           after == [row EXCEPT ![Unused] = Fresh(cur, received)]
           got == ReceivedProofs(Stored, after, received)
       IN   /\ row' = after
            /\ IF got # {} /\ LossAllowed(face[cur], received)
               THEN /\ pc' = "fee" /\ inputs' = got
                    /\ UNCHANGED <<cur, inputFee, target, reserve, tries,
                                   polls, withdrawalVars, canonicalVars,
                                   restarts>>
               ELSE Give

\* Mutated form of ReceiveRefused: a retry goes on with what the wallet holds.
ReceiveResumes ==
    /\ pc = "receive" /\ cur \in redeemed /\ NoFault /\ UnspentIn(row) # {}
    /\ pc' = "fee" /\ inputs' = UnspentIn(row)
    /\ UNCHANGED <<cur, inputFee, target, reserve, tries, polls, withdrawalVars,
                   foreignVars, canonicalVars, restarts>>

\* A token the mint has seen is an error, never a reason to use other proofs.
ReceiveRefused ==
    /\ pc = "receive" /\ cur \in redeemed /\ NoFault
    /\ Give /\ UNCHANGED foreignVars

\* The answer is lost: the mint has made the exchange or has not, and the
\* wallet keeps the operation.
ReceiveLost(done) ==
    /\ pc = "receive" /\ cur \notin redeemed /\ Fault
    /\ redeemed' = IF done THEN redeemed \cup {cur} ELSE redeemed
    /\ sagas' = sagas \cup {[kind |-> "swap", of |-> cur, done |-> done,
                             phase |-> "swap_requested"]}
    /\ Give /\ UNCHANGED row

--------------------------------------------------------------------------------
(***************************************************************************)
(* Sizing the invoice.  Nothing has been paid, so an error is harmless.    *)
(***************************************************************************)

\* require_unspent, as the foreign mint answers.
RequireUnspent(ps) == ps # {} /\ \A p \in ps : row[p].mint = "UNSPENT"

\* spendable_amount_and_fee.
ReadFee(charge) ==
    /\ pc = "fee" /\ RequireUnspent(inputs) /\ NoFault
    /\ inputFee' = charge
    /\ target' = Least(Sub(Worth(inputs), charge), face[cur])
    /\ pc' = "quote"
    /\ UNCHANGED <<cur, inputs, reserve, tries, polls, withdrawalVars,
                   foreignVars, canonicalVars, restarts>>

\* The next smaller invoice, after a quote that does not fit.
Shrunk(total, quoted) ==
    LET next == Least(Sub(total, inputFee + quoted), target)
    IN  IF next >= target THEN Sub(target, Greatest(quoted, 1)) ELSE next

\* Mutated form of Quote: only the first target is checked.
QuoteUnchecked(quoted) ==
    /\ pc = "quote" /\ tries <= MaxReductions
    /\ tries = 0 => LossAllowed(face[cur], target)
    /\ NoFault
    /\ IF target + quoted + inputFee > Worth(inputs)
       THEN /\ Shrunk(Worth(inputs), quoted) # 0
            /\ target' = Shrunk(Worth(inputs), quoted) /\ tries' = tries + 1
            /\ UNCHANGED <<pc, reserve, invoice>>
       ELSE /\ pc' = "melt" /\ reserve' = quoted
            /\ invoice' = [invoice EXCEPT ![cur] =
                            [amount |-> target, state |-> "UNPAID"]]
            /\ UNCHANGED <<target, tries>>
    /\ UNCHANGED <<cur, inputs, inputFee, polls, withdrawalVars, foreignVars,
                   credited, restarts>>

\* One turn of the loop: a mint quote for the target and a melt quote for
\* its invoice.  The target is checked before either is asked for.
Quote(quoted) ==
    /\ pc = "quote" /\ tries <= MaxReductions
    /\ LossAllowed(face[cur], target) /\ NoFault
    /\ IF target + quoted + inputFee > Worth(inputs)
       THEN /\ Shrunk(Worth(inputs), quoted) # 0
            /\ target' = Shrunk(Worth(inputs), quoted) /\ tries' = tries + 1
            /\ UNCHANGED <<pc, reserve, invoice>>
       ELSE /\ pc' = "melt" /\ reserve' = quoted
            /\ invoice' = [invoice EXCEPT ![cur] =
                            [amount |-> target, state |-> "UNPAID"]]
            /\ UNCHANGED <<target, tries>>
    /\ UNCHANGED <<cur, inputs, inputFee, polls, withdrawalVars, foreignVars,
                   credited, restarts>>

\* The target has become too small, the quotes never fitted, or nothing is
\* left to pay: the proofs stay in the wallet.
QuoteGivesUp(quoted) ==
    /\ pc = "quote" /\ NoFault
    /\ \/ ~LossAllowed(face[cur], target)
       \/ tries > MaxReductions
       \/ /\ target + quoted + inputFee > Worth(inputs)
          /\ Shrunk(Worth(inputs), quoted) = 0
    /\ Give /\ UNCHANGED foreignVars

--------------------------------------------------------------------------------
(***************************************************************************)
(* Paying the invoice with exactly the proofs received.                    *)
(***************************************************************************)

Marked(ps, local, mint) ==
    [p \in Proofs |->
        IF p \in ps THEN [row[p] EXCEPT !.local = local, !.mint = mint] ELSE row[p]]
MeltOf(t, phase, done) ==
    [kind |-> "melt", of |-> t, phase |-> phase, done |-> done]
\* The rows after a paid melt, with its change if there is any.
Melted(ps, t, change) ==
    LET spent == Marked(ps, "SPENT", "SPENT")
    IN  IF change = 0 THEN spent ELSE [spent EXCEPT ![Unused] = Fresh(t, change)]

\* confirm_melt_with_quote up to prepare: the proofs are reserved.
Prepare ==
    /\ pc = "melt" /\ RequireUnspent(inputs) /\ NoFault
    /\ row' = Marked(inputs, "RESERVED", "UNSPENT")
    /\ sagas' = sagas \cup {MeltOf(cur, "proofs_reserved", FALSE)}
    /\ pc' = "confirm"
    /\ UNCHANGED <<cur, inputs, inputFee, target, reserve, tries, polls,
                   redeemed, withdrawalVars, canonicalVars, restarts>>

\* confirm: the melt is paid, at a Lightning fee within the reserve, and the
\* rest comes back as change.
ConfirmPaid(lightning) ==
    /\ pc = "confirm" /\ lightning <= reserve /\ NoFault
    /\ LET change == Worth(inputs) - target - inputFee - lightning IN
        /\ change > 0 => Stored # Proofs
        /\ row' = Melted(inputs, cur, change)
    /\ sagas' = sagas \ {MeltOf(cur, "proofs_reserved", FALSE)}
    /\ invoice' = [invoice EXCEPT ![cur].state = "PAID"]
    /\ pc' = "mint"
    /\ UNCHANGED <<cur, inputs, inputFee, target, reserve, tries, polls,
                   redeemed, credited, withdrawalVars, restarts>>

\* The foreign mint refuses; the library releases the proofs.
ConfirmRefused ==
    /\ pc = "confirm" /\ Fault
    /\ row' = Marked(inputs, "UNSPENT", "UNSPENT")
    /\ sagas' = sagas \ {MeltOf(cur, "proofs_reserved", FALSE)}
    /\ Give /\ UNCHANGED redeemed

\* The answer is lost or says the payment is not final: it has been made, or
\* will not be.  There is no retry with other proofs.
ConfirmLost(done) ==
    /\ pc = "confirm" /\ Fault
    /\ row' = Marked(inputs, "PENDING_SPENT", IF done THEN "SPENT" ELSE "UNSPENT")
    /\ sagas' = (sagas \ {MeltOf(cur, "proofs_reserved", FALSE)})
                    \cup {MeltOf(cur, "melt_requested", done)}
    /\ invoice' = [invoice EXCEPT ![cur].state = IF done THEN "PAID" ELSE @]
    /\ ToIdle /\ UNCHANGED <<redeemed, credited, withdrawalVars, restarts>>

--------------------------------------------------------------------------------
(***************************************************************************)
(* Minting the canonical ecash and recording it.                           *)
(***************************************************************************)

\* mint_canonical_proofs finds the quote not paid yet and polls again.
PollAgain ==
    /\ pc = "mint" /\ polls < MaxPolls /\ NoFault
    /\ polls' = polls + 1
    /\ UNCHANGED <<pc, cur, inputs, inputFee, target, reserve, tries,
                   withdrawalVars, foreignVars, canonicalVars, restarts>>

PollGivesUp ==
    /\ pc = "mint" /\ polls = MaxPolls /\ NoFault
    /\ Give /\ UNCHANGED foreignVars

\* The quote is paid and its ecash is minted, for the amount of the invoice.
MintCanonical ==
    /\ pc = "mint" /\ polls < MaxPolls /\ NoFault
    /\ invoice[cur].state = "PAID"
    /\ invoice' = [invoice EXCEPT ![cur].state = "ISSUED"]
    /\ credited' = [credited EXCEPT ![cur] = @ + invoice[cur].amount]
    /\ pc' = "record"
    /\ UNCHANGED <<cur, inputs, inputFee, target, reserve, tries, polls,
                   withdrawalVars, foreignVars, restarts>>

\* The answer of the mint is lost; the canonical wallet finishes the
\* operation when it is opened again.
MintLost ==
    /\ pc = "mint" /\ invoice[cur].state = "PAID" /\ Fault
    /\ invoice' = [invoice EXCEPT ![cur].state = "ISSUING"]
    /\ ToIdle
    /\ UNCHANGED <<credited, withdrawalVars, foreignVars, restarts>>

\* execute: check what the conversion brought, then record_token_consumed.
Record ==
    /\ pc = "record" /\ RedemptionValid(asked[cur], target, face[cur] - target)
    /\ NoFault
    /\ consumed' = [consumed EXCEPT ![cur] = target]
    /\ fee' = [fee EXCEPT ![cur] = face[cur] - target]
    /\ pc' = "pay"
    /\ UNCHANGED <<face, asked, paidOut, attempts, cur, inputs, inputFee,
                   target, reserve, tries, polls, foreignVars, canonicalVars,
                   restarts>>

RecordRefused ==
    /\ pc = "record" /\ ~RedemptionValid(asked[cur], target, face[cur] - target)
    /\ NoFault /\ Give /\ UNCHANGED foreignVars

\* The payout, at most what was asked for.  Its own failures are the subject
\* of Withdrawals.
Pay ==
    /\ pc = "pay" /\ NoFault
    /\ paidOut' = [paidOut EXCEPT ![cur] = Least(consumed[cur], asked[cur])]
    /\ ToIdle
    /\ UNCHANGED <<face, asked, consumed, fee, attempts, foreignVars,
                   canonicalVars, restarts>>

--------------------------------------------------------------------------------
(***************************************************************************)
(* The process.                                                            *)
(***************************************************************************)

\* Opening the canonical wallet finishes its operations; opening a foreign
\* one leaves them alone (wallet_for_mint).
Reopen ==
    /\ invoice' = [t \in Tokens |->
            IF invoice[t].state = "ISSUING"
            THEN [invoice[t] EXCEPT !.state = "ISSUED"] ELSE invoice[t]]
    /\ credited' = [t \in Tokens |->
            IF invoice[t].state = "ISSUING"
            THEN credited[t] + invoice[t].amount ELSE credited[t]]

Restart ==
    /\ restarts < MaxRestarts /\ restarts' = restarts + 1
    /\ ToIdle /\ Reopen
    /\ UNCHANGED <<withdrawalVars, foreignVars, faults>>

SwapStep ==
    \/ CallFails \/ ReceiveRefused
    \/ \E c \in InputFees : Receive(c) \/ ReadFee(c)
    \/ \E done \in BOOLEAN : ReceiveLost(done) \/ ConfirmLost(done)
    \/ \E r \in Reserves : Quote(r) \/ QuoteGivesUp(r)
    \/ Prepare \/ ConfirmRefused
    \/ \E l \in 0..reserve : ConfirmPaid(l)
    \/ PollAgain \/ PollGivesUp \/ MintCanonical \/ MintLost
    \/ Record \/ RecordRefused \/ Pay

SwapNext == SwapStep \/ (\E t \in Tokens : Take(t)) \/ Restart

\* The worker's task runs: each of its calls returns, with an answer or an
\* error.
SwapFairness == WF_swapVars(SwapStep)

SwapSpec == SwapInit /\ [][SwapNext]_swapVars /\ SwapFairness

--------------------------------------------------------------------------------
(***************************************************************************)
(* Properties.                                                             *)
(***************************************************************************)

SwapTypeOK ==
    /\ face \in [Tokens -> Faces] /\ asked \in [Tokens -> Nat \ {0}]
    /\ consumed \in [Tokens -> Nat] /\ fee \in [Tokens -> Nat]
    /\ paidOut \in [Tokens -> Nat] /\ attempts \in [Tokens -> 0..MaxAttempts]
    /\ redeemed \subseteq Tokens
    /\ row \in [Proofs -> Row] /\ sagas \subseteq Saga
    /\ invoice \in [Tokens -> Invoice] /\ credited \in [Tokens -> Nat]
    /\ pc \in {"idle", "receive", "fee", "quote", "melt", "confirm", "mint",
               "record", "pay"}
    /\ cur \in Tokens \cup {NoToken} /\ inputs \subseteq Proofs
    /\ inputFee \in Nat /\ target \in Nat /\ reserve \in Nat
    /\ tries \in 0..MaxReductions + 1 /\ polls \in 0..MaxPolls
    /\ faults \in 0..MaxFaults /\ restarts \in 0..MaxRestarts

\* A conversion spends only proofs its own token brought, whatever earlier
\* conversions left behind in the wallet (received_proofs).
OnlyOwnProofs == \A p \in inputs : row[p].of = cur

Paid(t) == invoice[t].state \in {"PAID", "ISSUING", "ISSUED"}

\* No foreign melt is paid for an invoice that loses more than the limit of
\* the token, however the invoice was shrunk (swap_to_canonical).
PaidWithinLimit == \A t \in Tokens : Paid(t) => LossAllowed(face[t], invoice[t].amount)

\* A payout is made from ecash the canonical wallet holds for this token, and
\* falls short only by what the conversion cost (validate_redemption).
PayoutFunded ==
    \A t \in Tokens : paidOut[t] > 0 =>
        /\ paidOut[t] <= credited[t]
        /\ paidOut[t] < asked[t] => asked[t] - paidOut[t] = face[t] - credited[t]

\* Every token the foreign mint has taken left its proofs in the wallet, or
\* the operation that finds them (receive_foreign_token, m5_recover).
TokenTraced ==
    \A t \in redeemed :
        \/ \E p \in Stored : row[p].of = t
        \/ \E s \in sagas : s.kind = "swap" /\ s.of = t /\ s.done

\* What a token has bought, once its invoice is paid.
Bought == [t \in Tokens |-> IF Paid(t) THEN invoice[t].amount ELSE 0]

\* The conversions seen from the money: a retry, a restart or a recovery never
\* buys for a token a second time, and never takes back what was bought
\* (swap_to_canonical, redeem).
Exchange == INSTANCE TokenExchange WITH
    worth  <- face,
    taken  <- redeemed,
    bought <- Bought,
    held   <- credited,
    paid   <- paidOut

ImplementsExchange == Exchange!Spec

\* A test of workers/withdrawal.rs says that the check after a redemption
\* "permits ... accounted bounded conversion fees": when the conversion and
\* the shortfall are both within the limit and the whole loss is recorded as
\* its fee, the redemption is accepted.
AccountedFeePermitted ==
    pc = "record" /\ LossAllowed(face[cur], target)
                  /\ (target < asked[cur] => LossAllowed(asked[cur], target))
        => RedemptionValid(asked[cur], target, face[cur] - target)
================================================================================
