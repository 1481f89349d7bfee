----------------------------- MODULE MintSwapProofs ----------------------------
(***************************************************************************)
(* What a conversion keeps, step by step: the invariant behind             *)
(* OnlyOwnProofs, PaidWithinLimit, PayoutFunded and TokenTraced.  The      *)
(* steps are those of SwapNext, and the same lemmas serve M5Recovery,      *)
(* where the recovery command works on the store in between.               *)
(***************************************************************************)
EXTENDS MintSwap, SumProofs

\* Where a conversion holds a token the foreign mint has taken.
Converting == {"fee", "quote", "melt", "confirm", "mint", "record"}

\* The worker's program counter says what it holds: a conversion never works
\* on a token whose proceeds are recorded, and a payout on no other.
ControlInv ==
    /\ pc = "idle" => Idle
    /\ pc # "idle" => cur \in Tokens
    /\ pc \in Converting => cur \in redeemed
    /\ pc \in Converting \cup {"receive"} => consumed[cur] = 0
    /\ pc = "pay" => consumed[cur] # 0

\* A token the mint has not taken has no invoice, and a conversion goes
\* through the states of its own one.  What it is about to pay is within the
\* limit and within what its proofs are worth.
InvoiceInv ==
    /\ \A t \in Tokens : t \notin redeemed => invoice[t] = NoInvoice
    /\ pc \in {"fee", "quote"} => invoice[cur] = NoInvoice
    /\ pc \in {"melt", "confirm"} =>
            /\ invoice[cur] = [amount |-> target, state |-> "UNPAID"]
            /\ LossAllowed(face[cur], target)
            /\ target + reserve + inputFee <= Worth(inputs)
    /\ pc = "mint" => invoice[cur] = [amount |-> target, state |-> "PAID"]
    /\ pc = "record" => invoice[cur] = [amount |-> target, state |-> "ISSUED"]

\* The ecash of the canonical wallet, the records and the payouts agree.
LedgerInv ==
    \A t \in Tokens :
        /\ credited[t] = IF invoice[t].state = "ISSUED" THEN invoice[t].amount ELSE 0
        /\ consumed[t] # 0 =>
                /\ invoice[t].state = "ISSUED" /\ consumed[t] = invoice[t].amount
                /\ fee[t] = face[t] - consumed[t]
                /\ RedemptionValid(asked[t], consumed[t], fee[t])
        /\ paidOut[t] > 0 => /\ consumed[t] # 0
                             /\ paidOut[t] = Least(consumed[t], asked[t])

\* A row the wallet does not hold, or holds as spent, is worth nothing.
StoreInv == \A p \in Proofs : row[p].local \in {"none", "SPENT"} => row[p].mint = "SPENT"

SwapInv ==
    /\ SwapTypeOK /\ ControlInv /\ InvoiceInv /\ LedgerInv /\ StoreInv
    /\ OnlyOwnProofs /\ PaidWithinLimit /\ TokenTraced

--------------------------------------------------------------------------------
(***************************************************************************)
(* Rows and their worth.                                                   *)
(***************************************************************************)

\* The rows are finitely many.
LEMMA RowsAreFinite ==
    ASSUME NEW ps \in SUBSET Proofs
    PROVE  IsFiniteSet(ps)
<1>1. MaxProofs \in Int /\ 1 \in Int
  BY ConversionAssumption
<1>2. IsFiniteSet(1..MaxProofs)
  BY <1>1, FS_Interval
<1> QED  BY <1>2, FS_Subset DEF Proofs

\* What proofs are worth is an amount.
LEMMA WorthIsAmount ==
    ASSUME NEW rows \in [Proofs -> Row], NEW ps \in SUBSET Proofs
    PROVE  WorthIn(rows, ps) \in Nat
<1>1. IsFiniteSet(ps)
  BY RowsAreFinite
<1>2. \A p \in ps : [q \in Proofs |-> rows[q].amount][p] \in Nat
  BY DEF Row
<1> QED  BY <1>1, <1>2, SumNat DEF WorthIn

\* And depends on their amounts only.
LEMMA SameWorth ==
    ASSUME NEW rows, NEW other, NEW ps \in SUBSET Proofs,
           \A p \in ps : rows[p].amount = other[p].amount
    PROVE  WorthIn(rows, ps) = WorthIn(other, ps)
<1>1. IsFiniteSet(ps)
  BY RowsAreFinite
<1>2. \A p \in ps : [q \in Proofs |-> rows[q].amount][p] = [q \in Proofs |-> other[q].amount][p]
  OBVIOUS
<1> QED  BY <1>1, <1>2, SumSame DEF WorthIn

\* There is a row for new proofs as long as the wallet has one left.
LEMMA UnusedIsFree ==
    ASSUME Stored # Proofs
    PROVE  Unused \in Proofs \ Stored
<1>1. Proofs \ Stored \in SUBSET Nat /\ Proofs \ Stored # {}
  BY DEF Proofs, Stored
<1>2. \E p \in Proofs \ Stored : \A q \in Proofs \ Stored : p <= q
  BY <1>1, LeastNumber
<1> QED  BY <1>2 DEF Unused

\* Marking proofs changes their states and nothing else.
LEMMA MarkedRows ==
    ASSUME row \in [Proofs -> Row], NEW ps \in SUBSET Proofs,
           NEW local \in {"none", "UNSPENT", "RESERVED", "PENDING_SPENT", "SPENT"},
           NEW mint \in {"UNSPENT", "SPENT"}
    PROVE  /\ Marked(ps, local, mint) \in [Proofs -> Row]
           /\ \A p \in Proofs :
                /\ Marked(ps, local, mint)[p].of = row[p].of
                /\ Marked(ps, local, mint)[p].amount = row[p].amount
                /\ p \in ps => /\ Marked(ps, local, mint)[p].local = local
                               /\ Marked(ps, local, mint)[p].mint = mint
                /\ p \notin ps => Marked(ps, local, mint)[p] = row[p]
  BY DEF Marked, Row

\* A paid melt spends its proofs, and its change takes a row of its own.
LEMMA MeltedRows ==
    ASSUME row \in [Proofs -> Row], NEW ps \in SUBSET Proofs,
           NEW t \in Tokens \cup {NoToken}, NEW change \in Nat,
           change > 0 => Stored # Proofs,
           row' = Melted(ps, t, change)
    PROVE  /\ row' \in [Proofs -> Row]
           /\ change > 0 => Unused \in Proofs \ Stored /\ row'[Unused] = Fresh(t, change)
           /\ \A p \in Proofs : ~(change > 0 /\ p = Unused) =>
                /\ row'[p].of = row[p].of
                /\ p \in ps => row'[p].local = "SPENT" /\ row'[p].mint = "SPENT"
                /\ p \notin ps => row'[p] = row[p]
<1> DEFINE spent == Marked(ps, "SPENT", "SPENT")
<1>1. /\ spent \in [Proofs -> Row]
      /\ \A p \in Proofs :
            /\ spent[p].of = row[p].of
            /\ p \in ps => spent[p].local = "SPENT" /\ spent[p].mint = "SPENT"
            /\ p \notin ps => spent[p] = row[p]
  BY MarkedRows
<1>2. change > 0 => Unused \in Proofs \ Stored
  BY UnusedIsFree
<1>3. change > 0 => Fresh(t, change) \in Row
  BY DEF Fresh, Row
<1>4. row' = IF change = 0 THEN spent ELSE [spent EXCEPT ![Unused] = Fresh(t, change)]
  BY DEF Melted
<1> HIDE DEF spent
<1> QED  BY <1>1, <1>2, <1>3, <1>4

\* A token stays traced while its rows and its operation stay.
LEMMA TraceKept ==
    ASSUME TokenTraced, redeemed' = redeemed,
           \A p \in Stored : row'[p].local # "none" /\ row'[p].of = row[p].of,
           \A s \in sagas : s.kind = "swap" /\ s.done => s \in sagas'
    PROVE  TokenTraced'
<1> SUFFICES ASSUME NEW t \in redeemed
             PROVE  \/ \E p \in Stored' : row'[p].of = t
                    \/ \E s \in sagas' : s.kind = "swap" /\ s.of = t /\ s.done
  BY DEF TokenTraced
<1>1. Stored \subseteq Stored'
  BY DEF Stored
<1> QED  BY <1>1 DEF TokenTraced

--------------------------------------------------------------------------------
(***************************************************************************)
(* The steps of the worker.                                                *)
(***************************************************************************)

\* An attempt that ends, without a change to what is stored, does no harm.
LEMMA EndKeeps ==
    ASSUME SwapInv, ToIdle, UNCHANGED <<withdrawalVars, foreignVars, canonicalVars>>,
           faults' \in 0..MaxFaults, restarts' \in 0..MaxRestarts
    PROVE  SwapInv'
<1> USE DEF SwapInv, withdrawalVars, foreignVars, canonicalVars, ToIdle
<1>1. SwapTypeOK'
  BY ConversionAssumption DEF SwapTypeOK
<1>2. ControlInv' /\ OnlyOwnProofs'
  BY ConversionAssumption DEF ControlInv, Idle, Converting, OnlyOwnProofs
<1>3. InvoiceInv' /\ LedgerInv' /\ PaidWithinLimit'
  BY DEF InvoiceInv, LedgerInv, PaidWithinLimit, Paid
<1>4. StoreInv' /\ TokenTraced'
  BY DEF StoreInv, TokenTraced, Stored
<1> QED  BY <1>1, <1>2, <1>3, <1>4

\* Faults are counted up to their bound.
LEMMA FaultBound ==
    ASSUME SwapTypeOK, Fault \/ NoFault
    PROVE  faults' \in 0..MaxFaults
  BY ConversionAssumption DEF SwapTypeOK, Fault, NoFault

\* Errors before anything was paid, and attempts that find nothing to do.
LEMMA GivingUpKeeps ==
    ASSUME SwapInv,
           \/ CallFails \/ ReceiveRefused \/ PollGivesUp \/ RecordRefused
           \/ \E r \in Reserves : QuoteGivesUp(r)
    PROVE  SwapInv'
<1>1. ToIdle /\ UNCHANGED <<withdrawalVars, foreignVars, canonicalVars, restarts>>
  BY DEF CallFails, ReceiveRefused, PollGivesUp, RecordRefused, QuoteGivesUp, Give
<1>2. Fault \/ NoFault
  BY DEF CallFails, ReceiveRefused, PollGivesUp, RecordRefused, QuoteGivesUp
<1>3. faults' \in 0..MaxFaults /\ restarts' \in 0..MaxRestarts
  BY <1>1, <1>2, FaultBound DEF SwapInv, SwapTypeOK
<1> QED  BY <1>1, <1>3, EndKeeps

\* A withdrawal is taken from the queue.
LEMMA TakeKeeps ==
    ASSUME SwapInv, NEW t \in Tokens, Take(t)
    PROVE  SwapInv'
<1> USE DEF SwapInv, Take, withdrawalVars, foreignVars, canonicalVars
<1>1. Idle
  BY DEF ControlInv
<1>2. SwapTypeOK'
  BY ConversionAssumption DEF SwapTypeOK
<1>3. ControlInv' /\ OnlyOwnProofs'
  BY <1>1 DEF ControlInv, Idle, Converting, OnlyOwnProofs, SwapTypeOK
<1>4. InvoiceInv' /\ LedgerInv' /\ PaidWithinLimit'
  BY DEF InvoiceInv, LedgerInv, PaidWithinLimit, Paid
<1>5. StoreInv' /\ TokenTraced'
  BY DEF StoreInv, TokenTraced, Stored
<1> QED  BY <1>2, <1>3, <1>4, <1>5

\* What received_proofs returns is the one row the operation wrote, or nothing.
LEMMA ReceivedIsNew ==
    ASSUME NEW rows \in [Proofs -> Row], NEW received, NEW u \in Proofs,
           \A p \in Proofs \ {u} : rows[p] = row[p]
    PROVE  ReceivedProofs(Stored, rows, received) \subseteq {u}
  BY DEF ReceivedProofs, UnspentIn, Stored

\* The exchange at the foreign mint.
LEMMA ReceiveKeeps ==
    ASSUME SwapInv, NEW c \in InputFees, Receive(c)
    PROVE  SwapInv'
<1> DEFINE received == face[cur] - c
           after == [row EXCEPT ![Unused] = Fresh(cur, received)]
           got == ReceivedProofs(Stored, after, received)
<1> USE DEF SwapInv
<1>1. /\ cur \in Tokens /\ cur \notin redeemed /\ consumed[cur] = 0
      /\ invoice[cur] = NoInvoice /\ received \in Nat
      /\ row \in [Proofs -> Row]
  <2>1. cur \in Tokens /\ cur \notin redeemed /\ consumed[cur] = 0
    BY DEF ControlInv, Receive
  <2>2. received \in Nat
    <3>1. face[cur] \in Nat /\ c \in Nat /\ c < face[cur]
      BY <2>1, ConversionAssumption DEF SwapTypeOK, Receive
    <3> QED  BY <3>1
  <2> QED  BY <2>1, <2>2 DEF SwapTypeOK, InvoiceInv
<1>2. /\ Unused \in Proofs \ Stored /\ Fresh(cur, received) \in Row
      /\ Fresh(cur, received).of = cur /\ Fresh(cur, received).local = "UNSPENT"
  BY <1>1, UnusedIsFree DEF Receive, Fresh, Row
<1>3. /\ after \in [Proofs -> Row] /\ after[Unused] = Fresh(cur, received)
      /\ \A p \in Proofs \ {Unused} : after[p] = row[p]
  BY <1>1, <1>2
<1>4. /\ row' = after /\ redeemed' = redeemed \cup {cur} /\ sagas' = sagas
      /\ faults' = faults /\ restarts' = restarts
      /\ UNCHANGED withdrawalVars /\ UNCHANGED canonicalVars
      /\ \/ /\ pc' = "fee" /\ inputs' = got
            /\ UNCHANGED <<cur, inputFee, target, reserve, tries, polls>>
         \/ ToIdle
  BY DEF Receive, Give, NoFault
<1>5. got \subseteq {Unused}
  <2> HIDE DEF after, received
  <2> QED  BY <1>2, <1>3, ReceivedIsNew
<1> HIDE DEF after, got, received
<1>6. SwapTypeOK'
  BY <1>1, <1>2, <1>3, <1>4, <1>5, ConversionAssumption
  DEF SwapTypeOK, withdrawalVars, canonicalVars, ToIdle
<1>7. ControlInv'
  BY <1>1, <1>4, ConversionAssumption DEF ControlInv, Idle, ToIdle, Converting, withdrawalVars
<1>8. OnlyOwnProofs'
  BY <1>2, <1>3, <1>4, <1>5 DEF OnlyOwnProofs, ToIdle
<1>9. InvoiceInv' /\ LedgerInv' /\ PaidWithinLimit'
  BY <1>1, <1>4
  DEF InvoiceInv, LedgerInv, PaidWithinLimit, Paid, withdrawalVars, canonicalVars, ToIdle
<1>10. StoreInv'
  BY <1>2, <1>3, <1>4 DEF StoreInv, Fresh
<1>11. TokenTraced'
  <2>1. \A p \in Stored : row'[p] = row[p]
    BY <1>2, <1>3, <1>4 DEF Stored
  <2>2. Stored' = Stored \cup {Unused}
    BY <1>2, <1>3, <1>4 DEF Stored
  <2>3. row'[Unused].of = cur
    BY <1>2, <1>3, <1>4
  <2> QED  BY <1>4, <2>1, <2>2, <2>3 DEF TokenTraced
<1> QED  BY <1>6, <1>7, <1>8, <1>9, <1>10, <1>11

\* The answer of the mint is lost: the operation says which token it was for.
LEMMA ReceiveLostKeeps ==
    ASSUME SwapInv, NEW done \in BOOLEAN, ReceiveLost(done)
    PROVE  SwapInv'
<1> DEFINE saga == [kind |-> "swap", of |-> cur, done |-> done,
                    phase |-> "swap_requested"]
<1> USE DEF SwapInv
<1>1. /\ cur \in Tokens /\ cur \notin redeemed /\ saga \in Saga
  BY DEF SwapTypeOK, ControlInv, ReceiveLost, Saga
<1>2. /\ redeemed' = IF done THEN redeemed \cup {cur} ELSE redeemed
      /\ sagas' = sagas \cup {saga} /\ ToIdle
      /\ UNCHANGED <<withdrawalVars, canonicalVars, row, restarts>>
      /\ faults' \in 0..MaxFaults
  BY FaultBound DEF ReceiveLost, Give
<1>3. saga.kind = "swap" /\ saga.of = cur /\ saga.done = done
  OBVIOUS
<1> HIDE DEF saga
<1>4. SwapTypeOK'
  BY <1>1, <1>2, ConversionAssumption DEF SwapTypeOK, withdrawalVars, canonicalVars, ToIdle
<1>5. ControlInv' /\ OnlyOwnProofs' /\ StoreInv'
  BY <1>1, <1>2 DEF ControlInv, Idle, ToIdle, Converting, OnlyOwnProofs, StoreInv
<1>6. InvoiceInv' /\ LedgerInv' /\ PaidWithinLimit'
  BY <1>1, <1>2
  DEF InvoiceInv, LedgerInv, PaidWithinLimit, Paid, withdrawalVars, canonicalVars, ToIdle
<1>7. TokenTraced'
  BY <1>2, <1>3 DEF TokenTraced, Stored
<1> QED  BY <1>4, <1>5, <1>6, <1>7

\* The fee for spending the proofs, and the first target.
LEMMA ReadFeeKeeps ==
    ASSUME SwapInv, NEW c \in InputFees, ReadFee(c)
    PROVE  SwapInv'
<1> USE DEF SwapInv, ReadFee, withdrawalVars, foreignVars, canonicalVars
<1>1. cur \in Tokens /\ Worth(inputs) \in Nat
  BY WorthIsAmount DEF ControlInv, SwapTypeOK, Worth
<1>2. target' \in Nat /\ c \in Nat
  BY <1>1, ConversionAssumption DEF Least, Sub, SwapTypeOK
<1>3. SwapTypeOK'
  BY <1>2 DEF SwapTypeOK, NoFault
<1>4. ControlInv' /\ OnlyOwnProofs' /\ StoreInv' /\ TokenTraced'
  BY DEF ControlInv, Converting, OnlyOwnProofs, StoreInv, TokenTraced, Stored
<1>5. InvoiceInv' /\ LedgerInv' /\ PaidWithinLimit'
  BY DEF InvoiceInv, LedgerInv, PaidWithinLimit, Paid
<1> QED  BY <1>3, <1>4, <1>5

\* An invoice is asked for only when its target is within the limit, and kept
\* only when the proofs pay for it.
LEMMA QuoteKeeps ==
    ASSUME SwapInv, NEW r \in Reserves, Quote(r)
    PROVE  SwapInv'
<1> USE DEF SwapInv
<1>1. /\ pc = "quote" /\ cur \in Tokens /\ cur \in redeemed /\ consumed[cur] = 0
      /\ invoice[cur] = NoInvoice /\ LossAllowed(face[cur], target)
      /\ target \in Nat /\ inputFee \in Nat /\ r \in Nat /\ Worth(inputs) \in Nat
      /\ tries \in 0..MaxReductions /\ invoice \in [Tokens -> Invoice]
  BY WorthIsAmount, ConversionAssumption
  DEF ControlInv, Converting, InvoiceInv, SwapTypeOK, Quote, Worth
<1>2. /\ UNCHANGED <<cur, inputs, inputFee, polls, withdrawalVars, foreignVars,
                     credited, restarts, faults>>
  BY DEF Quote, NoFault
<1>3. CASE /\ target' = Shrunk(Worth(inputs), r) /\ tries' = tries + 1
           /\ UNCHANGED <<pc, reserve, invoice>>
  <2>1. target' \in Nat
    BY <1>1, <1>3 DEF Shrunk, Least, Sub, Greatest
  <2>2. SwapTypeOK'
    BY <1>1, <1>2, <1>3, <2>1, ConversionAssumption
    DEF SwapTypeOK, withdrawalVars, foreignVars
  <2>3. ControlInv' /\ OnlyOwnProofs' /\ StoreInv' /\ TokenTraced'
    BY <1>1, <1>2, <1>3
    DEF ControlInv, Converting, OnlyOwnProofs, StoreInv, TokenTraced, Stored,
        withdrawalVars, foreignVars
  <2>4. InvoiceInv' /\ LedgerInv' /\ PaidWithinLimit'
    BY <1>1, <1>2, <1>3
    DEF InvoiceInv, LedgerInv, PaidWithinLimit, Paid, withdrawalVars, foreignVars
  <2> QED  BY <2>2, <2>3, <2>4
<1>4. CASE /\ target + r + inputFee <= Worth(inputs)
           /\ pc' = "melt" /\ reserve' = r /\ UNCHANGED <<target, tries>>
           /\ invoice' = [invoice EXCEPT ![cur] =
                            [amount |-> target, state |-> "UNPAID"]]
  <2>1. /\ invoice'[cur] = [amount |-> target, state |-> "UNPAID"]
        /\ \A t \in Tokens \ {cur} : invoice'[t] = invoice[t]
        /\ invoice' \in [Tokens -> Invoice]
    BY <1>1, <1>4 DEF Invoice
  <2>2. SwapTypeOK'
    BY <1>1, <1>2, <1>4, <2>1 DEF SwapTypeOK, withdrawalVars, foreignVars
  <2>3. ControlInv' /\ OnlyOwnProofs' /\ StoreInv' /\ TokenTraced'
    BY <1>1, <1>2, <1>4
    DEF ControlInv, Converting, OnlyOwnProofs, StoreInv, TokenTraced, Stored,
        withdrawalVars, foreignVars
  <2>4. InvoiceInv'
    <3>1. Worth(inputs)' = Worth(inputs)
      BY <1>2 DEF Worth, foreignVars
    <3> QED  BY <1>1, <1>2, <1>4, <2>1, <3>1 DEF InvoiceInv, withdrawalVars, foreignVars
  <2>5. LedgerInv' /\ PaidWithinLimit'
    BY <1>1, <1>2, <2>1 DEF LedgerInv, PaidWithinLimit, Paid, withdrawalVars, NoInvoice
  <2> QED  BY <2>2, <2>3, <2>4, <2>5
<1>5. ~(target + r + inputFee > Worth(inputs)) => target + r + inputFee <= Worth(inputs)
  BY <1>1
<1> QED  BY <1>3, <1>4, <1>5 DEF Quote

\* The proofs are reserved: their worth stays.
LEMMA PrepareKeeps ==
    ASSUME SwapInv, Prepare
    PROVE  SwapInv'
<1> USE DEF SwapInv
<1>1. /\ cur \in Tokens /\ inputs \in SUBSET Proofs /\ row \in [Proofs -> Row]
      /\ MeltOf(cur, "proofs_reserved", FALSE) \in Saga
  BY DEF ControlInv, SwapTypeOK, Prepare, MeltOf, Saga
<1>2. /\ row' = Marked(inputs, "RESERVED", "UNSPENT") /\ row' \in [Proofs -> Row]
      /\ \A p \in Proofs : /\ row'[p].of = row[p].of /\ row'[p].amount = row[p].amount
                           /\ p \in inputs => row'[p].local = "RESERVED"
                           /\ p \notin inputs => row'[p] = row[p]
  BY <1>1, MarkedRows DEF Prepare
<1>3. /\ pc = "melt" /\ pc' = "confirm"
      /\ sagas' = sagas \cup {MeltOf(cur, "proofs_reserved", FALSE)}
      /\ UNCHANGED <<cur, inputs, inputFee, target, reserve, tries, polls, redeemed,
                     withdrawalVars, canonicalVars, faults, restarts>>
  BY DEF Prepare, NoFault
<1>4. SwapTypeOK'
  BY <1>1, <1>2, <1>3 DEF SwapTypeOK, withdrawalVars, canonicalVars
<1>5. ControlInv' /\ OnlyOwnProofs' /\ StoreInv'
  BY <1>1, <1>2, <1>3 DEF ControlInv, Converting, OnlyOwnProofs, StoreInv, withdrawalVars
<1>6. InvoiceInv'
  <2>1. Worth(inputs)' = Worth(inputs)
    BY <1>1, <1>2, <1>3, SameWorth DEF Worth
  <2> QED  BY <1>3, <2>1 DEF InvoiceInv, withdrawalVars, canonicalVars
<1>7. LedgerInv' /\ PaidWithinLimit'
  BY <1>3 DEF LedgerInv, PaidWithinLimit, Paid, withdrawalVars, canonicalVars
<1>8. TokenTraced'
  BY <1>2, <1>3, TraceKept DEF Stored
<1> QED  BY <1>4, <1>5, <1>6, <1>7, <1>8

\* The melt is paid: an invoice within the limit, by proofs of the token, and
\* the change is the token's as well.
LEMMA ConfirmPaidKeeps ==
    ASSUME SwapInv, NEW l \in 0..reserve, ConfirmPaid(l)
    PROVE  SwapInv'
<1> DEFINE change == Worth(inputs) - target - inputFee - l
<1> USE DEF SwapInv
<1>1. /\ cur \in Tokens /\ inputs \in SUBSET Proofs /\ row \in [Proofs -> Row]
      /\ invoice \in [Tokens -> Invoice]
      /\ invoice[cur] = [amount |-> target, state |-> "UNPAID"]
      /\ LossAllowed(face[cur], target) /\ consumed[cur] = 0 /\ cur \in redeemed
      /\ target + reserve + inputFee <= Worth(inputs)
  BY DEF ControlInv, Converting, InvoiceInv, SwapTypeOK, ConfirmPaid
<1>2. change \in Nat
  <2>1. Worth(inputs) \in Nat
    BY <1>1, WorthIsAmount DEF Worth
  <2> QED  BY <1>1, <2>1 DEF SwapTypeOK
<1>3. /\ change > 0 => Stored # Proofs
      /\ row' = Melted(inputs, cur, change)
      /\ sagas' = sagas \ {MeltOf(cur, "proofs_reserved", FALSE)}
      /\ invoice' = [invoice EXCEPT ![cur].state = "PAID"]
      /\ pc = "confirm" /\ pc' = "mint"
      /\ UNCHANGED <<cur, inputs, inputFee, target, reserve, tries, polls, redeemed,
                     credited, withdrawalVars, faults, restarts>>
  BY DEF ConfirmPaid, NoFault
<1> HIDE DEF change
<1>4. /\ row' \in [Proofs -> Row]
      /\ change > 0 => Unused \in Proofs \ Stored /\ row'[Unused] = Fresh(cur, change)
      /\ \A p \in Proofs : ~(change > 0 /\ p = Unused) =>
            /\ row'[p].of = row[p].of
            /\ p \in inputs => row'[p].local = "SPENT" /\ row'[p].mint = "SPENT"
            /\ p \notin inputs => row'[p] = row[p]
  <2>1. cur \in Tokens \cup {NoToken} /\ (change > 0 => Stored # Proofs)
    BY <1>1, <1>3
  <2>2. row' = Melted(inputs, cur, change)
    BY <1>3
  <2> QED  BY <1>1, <1>2, <2>1, <2>2, MeltedRows
<1>5. /\ invoice'[cur] = [amount |-> target, state |-> "PAID"]
      /\ \A t \in Tokens \ {cur} : invoice'[t] = invoice[t]
      /\ invoice' \in [Tokens -> Invoice]
  BY <1>1, <1>3 DEF Invoice
<1>6. SwapTypeOK'
  BY <1>3, <1>4, <1>5 DEF SwapTypeOK, withdrawalVars
<1>7. ControlInv' /\ OnlyOwnProofs' /\ StoreInv'
  <2>1. ControlInv'
    BY <1>1, <1>3 DEF ControlInv, Converting, withdrawalVars
  <2>2. OnlyOwnProofs'
    BY <1>1, <1>3, <1>4 DEF OnlyOwnProofs, Fresh
  <2>3. StoreInv'
    BY <1>1, <1>4 DEF StoreInv, Fresh
  <2> QED  BY <2>1, <2>2, <2>3
<1>8. InvoiceInv' /\ LedgerInv' /\ PaidWithinLimit'
  BY <1>1, <1>3, <1>5 DEF InvoiceInv, LedgerInv, PaidWithinLimit, Paid, withdrawalVars
<1>9. TokenTraced'
  <2>1. \A p \in Stored : row'[p].local # "none" /\ row'[p].of = row[p].of
    BY <1>4 DEF Stored
  <2>2. \A s \in sagas : s.kind = "swap" => s \in sagas'
    BY <1>3 DEF MeltOf
  <2> QED  BY <1>3, <2>1, <2>2, TraceKept
<1> QED  BY <1>6, <1>7, <1>8, <1>9

\* The mint refuses, or its answer is lost after it has paid or before.
LEMMA ConfirmUnpaidKeeps ==
    ASSUME SwapInv, ConfirmRefused \/ (\E done \in BOOLEAN : ConfirmLost(done))
    PROVE  SwapInv'
<1> USE DEF SwapInv
<1>1. /\ cur \in Tokens /\ inputs \in SUBSET Proofs /\ row \in [Proofs -> Row]
      /\ invoice \in [Tokens -> Invoice]
      /\ invoice[cur] = [amount |-> target, state |-> "UNPAID"]
      /\ LossAllowed(face[cur], target) /\ consumed[cur] = 0 /\ cur \in redeemed
  BY DEF ControlInv, Converting, InvoiceInv, SwapTypeOK, ConfirmRefused, ConfirmLost
<1>2. /\ ToIdle /\ UNCHANGED <<redeemed, credited, withdrawalVars, restarts>>
      /\ faults' \in 0..MaxFaults
  BY FaultBound DEF ConfirmRefused, ConfirmLost, Give, canonicalVars
<1>3. PICK local \in {"UNSPENT", "PENDING_SPENT"}, mint \in {"UNSPENT", "SPENT"} :
        row' = Marked(inputs, local, mint)
  BY DEF ConfirmRefused, ConfirmLost
<1>4. /\ row' \in [Proofs -> Row]
      /\ \A p \in Proofs : /\ row'[p].of = row[p].of
                           /\ p \in inputs => row'[p].local = local
                           /\ p \notin inputs => row'[p] = row[p]
  BY <1>1, <1>3, MarkedRows
<1>5. /\ sagas' \subseteq Saga
      /\ \A s \in sagas : s.kind = "swap" => s \in sagas'
  BY <1>1 DEF ConfirmRefused, ConfirmLost, MeltOf, Saga, SwapTypeOK
<1>6. /\ invoice'[cur].amount = target /\ invoice'[cur].state \in {"UNPAID", "PAID"}
      /\ \A t \in Tokens \ {cur} : invoice'[t] = invoice[t]
      /\ invoice' \in [Tokens -> Invoice]
  <2>1. CASE ConfirmRefused
    BY <1>1, <2>1 DEF ConfirmRefused, Give, canonicalVars
  <2>2. CASE \E done \in BOOLEAN : ConfirmLost(done)
    <3>1. PICK done \in BOOLEAN :
            invoice' = [invoice EXCEPT ![cur].state = IF done THEN "PAID" ELSE @]
      BY <2>2 DEF ConfirmLost
    <3> QED  BY <1>1, <3>1 DEF Invoice
  <2> QED  BY <2>1, <2>2
<1>7. SwapTypeOK'
  BY <1>2, <1>4, <1>5, <1>6, ConversionAssumption DEF SwapTypeOK, withdrawalVars, ToIdle
<1>8. ControlInv' /\ OnlyOwnProofs' /\ StoreInv'
  BY <1>1, <1>2, <1>3, <1>4
  DEF ControlInv, Idle, ToIdle, Converting, OnlyOwnProofs, StoreInv
<1>9. InvoiceInv' /\ LedgerInv' /\ PaidWithinLimit'
  BY <1>1, <1>2, <1>6
  DEF InvoiceInv, LedgerInv, PaidWithinLimit, Paid, withdrawalVars, ToIdle
<1>10. TokenTraced'
  BY <1>2, <1>3, <1>4, <1>5, TraceKept DEF Stored
<1> QED  BY <1>7, <1>8, <1>9, <1>10

\* Polling, and minting the canonical ecash of a paid quote.
LEMMA MintKeeps ==
    ASSUME SwapInv, PollAgain \/ MintCanonical \/ MintLost
    PROVE  SwapInv'
<1> USE DEF SwapInv, withdrawalVars, foreignVars
<1>1. /\ pc = "mint" /\ cur \in Tokens /\ cur \in redeemed /\ consumed[cur] = 0
      /\ invoice[cur] = [amount |-> target, state |-> "PAID"]
      /\ invoice \in [Tokens -> Invoice] /\ credited[cur] = 0 /\ target \in Nat
  BY DEF ControlInv, Converting, InvoiceInv, LedgerInv, SwapTypeOK, PollAgain,
         MintCanonical, MintLost
<1>2. StoreInv' /\ TokenTraced'
  BY DEF PollAgain, MintCanonical, MintLost, StoreInv, TokenTraced, Stored
<1>3. CASE PollAgain
  <2>1. SwapTypeOK'
    BY <1>3, ConversionAssumption DEF PollAgain, SwapTypeOK, NoFault, canonicalVars
  <2>2. ControlInv' /\ OnlyOwnProofs'
    BY <1>1, <1>3 DEF PollAgain, ControlInv, Converting, OnlyOwnProofs
  <2>3. InvoiceInv' /\ LedgerInv' /\ PaidWithinLimit'
    BY <1>1, <1>3 DEF PollAgain, InvoiceInv, LedgerInv, PaidWithinLimit, Paid, canonicalVars
  <2> QED  BY <1>2, <2>1, <2>2, <2>3
<1>4. CASE MintCanonical
  <2>1. /\ invoice'[cur] = [amount |-> target, state |-> "ISSUED"]
        /\ \A t \in Tokens \ {cur} : invoice'[t] = invoice[t] /\ credited'[t] = credited[t]
        /\ invoice' \in [Tokens -> Invoice] /\ credited'[cur] = target
        /\ credited' \in [Tokens -> Nat]
    BY <1>1, <1>4 DEF MintCanonical, Invoice, SwapTypeOK
  <2>2. SwapTypeOK'
    BY <1>4, <2>1 DEF MintCanonical, SwapTypeOK, NoFault
  <2>3. ControlInv' /\ OnlyOwnProofs'
    BY <1>1, <1>4 DEF MintCanonical, ControlInv, Converting, OnlyOwnProofs
  <2>4. InvoiceInv' /\ PaidWithinLimit'
    BY <1>1, <1>4, <2>1 DEF MintCanonical, InvoiceInv, PaidWithinLimit, Paid
  <2>5. LedgerInv'
    BY <1>1, <1>4, <2>1 DEF MintCanonical, LedgerInv
  <2> QED  BY <1>2, <2>2, <2>3, <2>4, <2>5
<1>5. CASE MintLost
  <2>1. /\ invoice'[cur] = [amount |-> target, state |-> "ISSUING"]
        /\ \A t \in Tokens \ {cur} : invoice'[t] = invoice[t]
        /\ invoice' \in [Tokens -> Invoice]
    BY <1>1, <1>5 DEF MintLost, Invoice, SwapTypeOK
  <2>2. SwapTypeOK'
    BY <1>5, <2>1, ConversionAssumption, FaultBound DEF MintLost, SwapTypeOK, ToIdle
  <2>3. ControlInv' /\ OnlyOwnProofs'
    BY <1>1, <1>5 DEF MintLost, ControlInv, Converting, OnlyOwnProofs, ToIdle, Idle
  <2>4. InvoiceInv' /\ LedgerInv' /\ PaidWithinLimit'
    BY <1>1, <1>5, <2>1 DEF MintLost, InvoiceInv, LedgerInv, PaidWithinLimit, Paid, ToIdle
  <2> QED  BY <1>2, <2>2, <2>3, <2>4
<1> QED  BY <1>3, <1>4, <1>5

\* Recording what came out: the whole difference is the fee.
LEMMA RecordKeeps ==
    ASSUME SwapInv, Record
    PROVE  SwapInv'
<1> USE DEF SwapInv, Record, foreignVars, canonicalVars
<1>1. /\ cur \in Tokens /\ consumed[cur] = 0 /\ target \in Nat /\ target # 0
      /\ invoice[cur] = [amount |-> target, state |-> "ISSUED"]
      /\ face[cur] \in Nat /\ paidOut[cur] = 0
  <2>1. cur \in Tokens /\ consumed[cur] = 0
    BY DEF ControlInv, Converting
  <2>2. target \in Nat /\ target # 0
    BY DEF SwapTypeOK, RedemptionValid
  <2>3. face[cur] \in Nat /\ paidOut[cur] = 0
    <3>1. face[cur] \in Faces /\ paidOut[cur] \in Nat
      BY <2>1 DEF SwapTypeOK
    <3>2. paidOut[cur] > 0 => consumed[cur] # 0
      BY <2>1 DEF LedgerInv
    <3>3. face[cur] \in Nat
      BY <3>1, ConversionAssumption
    <3> QED  BY <2>1, <3>1, <3>2, <3>3
  <2> QED  BY <2>1, <2>2, <2>3 DEF InvoiceInv
<1>2. LossAllowed(face[cur], target)
  BY <1>1 DEF PaidWithinLimit, Paid
<1>3. /\ consumed'[cur] = target /\ fee'[cur] = face[cur] - target
      /\ \A t \in Tokens \ {cur} : consumed'[t] = consumed[t] /\ fee'[t] = fee[t]
      /\ consumed' \in [Tokens -> Nat] /\ fee' \in [Tokens -> Nat]
  BY <1>1, <1>2 DEF SwapTypeOK, LossAllowed
<1>4. SwapTypeOK'
  BY <1>3 DEF SwapTypeOK, NoFault
<1>5. ControlInv' /\ OnlyOwnProofs' /\ StoreInv' /\ TokenTraced'
  BY <1>1, <1>3 DEF ControlInv, Converting, OnlyOwnProofs, StoreInv, TokenTraced, Stored
<1>6. InvoiceInv' /\ PaidWithinLimit'
  BY <1>1 DEF InvoiceInv, PaidWithinLimit, Paid
<1>7. LedgerInv'
  BY <1>1, <1>3 DEF LedgerInv
<1> QED  BY <1>4, <1>5, <1>6, <1>7

\* The payout.
LEMMA PayKeeps ==
    ASSUME SwapInv, Pay
    PROVE  SwapInv'
<1> USE DEF SwapInv, Pay, foreignVars, canonicalVars, ToIdle
<1>1. /\ cur \in Tokens /\ consumed[cur] # 0
  BY DEF ControlInv
<1>2. /\ paidOut'[cur] = Least(consumed[cur], asked[cur])
      /\ \A t \in Tokens \ {cur} : paidOut'[t] = paidOut[t]
      /\ paidOut' \in [Tokens -> Nat]
  BY <1>1 DEF SwapTypeOK, Least
<1>3. SwapTypeOK'
  BY <1>2, ConversionAssumption DEF SwapTypeOK, NoFault
<1>4. ControlInv' /\ OnlyOwnProofs' /\ StoreInv' /\ TokenTraced'
  BY DEF ControlInv, Idle, Converting, OnlyOwnProofs, StoreInv, TokenTraced, Stored
<1>5. InvoiceInv' /\ PaidWithinLimit'
  BY DEF InvoiceInv, PaidWithinLimit, Paid
<1>6. LedgerInv'
  BY <1>1, <1>2 DEF LedgerInv
<1> QED  BY <1>3, <1>4, <1>5, <1>6

\* Opening the canonical wallet credits what it has still to issue, once.
LEMMA ReopenKeeps ==
    ASSUME SwapInv, Reopen, pc' = "idle" /\ Idle', UNCHANGED <<withdrawalVars, foreignVars>>,
           faults' \in 0..MaxFaults, restarts' \in 0..MaxRestarts
    PROVE  SwapInv'
<1> USE DEF SwapInv, withdrawalVars, foreignVars, Idle
<1>1. /\ invoice' \in [Tokens -> Invoice]
      /\ \A t \in Tokens :
            /\ invoice[t].state # "ISSUING" => invoice'[t] = invoice[t]
            /\ invoice[t].state = "ISSUING" =>
                    /\ invoice'[t].state = "ISSUED"
                    /\ invoice'[t].amount = invoice[t].amount
  BY DEF Reopen, SwapTypeOK, Invoice
<1>2. /\ credited' \in [Tokens -> Nat]
      /\ \A t \in Tokens :
            credited'[t] = IF invoice[t].state = "ISSUING"
                           THEN credited[t] + invoice[t].amount ELSE credited[t]
  BY DEF Reopen, SwapTypeOK, Invoice
<1>3. SwapTypeOK'
  BY <1>1, <1>2, ConversionAssumption DEF SwapTypeOK
<1>4. ControlInv' /\ OnlyOwnProofs' /\ StoreInv' /\ TokenTraced'
  BY DEF ControlInv, Converting, OnlyOwnProofs, StoreInv, TokenTraced, Stored
<1>5. InvoiceInv' /\ PaidWithinLimit'
  BY <1>1 DEF InvoiceInv, PaidWithinLimit, Paid, NoInvoice
<1>6. LedgerInv'
  BY <1>1, <1>2 DEF LedgerInv, SwapTypeOK, Invoice
<1> QED  BY <1>3, <1>4, <1>5, <1>6

\* Every step of the worker keeps the invariant.
LEMMA SwapStepKeeps ==
    ASSUME SwapInv, SwapStep
    PROVE  SwapInv'
  BY GivingUpKeeps, ReceiveKeeps, ReadFeeKeeps, ReceiveLostKeeps, ConfirmUnpaidKeeps,
     QuoteKeeps, PrepareKeeps, ConfirmPaidKeeps, MintKeeps, RecordKeeps, PayKeeps
  DEF SwapStep

\* And so does a restart.
LEMMA RestartKeeps ==
    ASSUME SwapInv, Restart
    PROVE  SwapInv'
<1>1. Idle' /\ faults' \in 0..MaxFaults /\ restarts' \in 0..MaxRestarts
  BY ConversionAssumption DEF Restart, ToIdle, Idle, SwapInv, SwapTypeOK
<1> QED  BY <1>1, ReopenKeeps DEF Restart, Idle

\* A step that leaves the conversion alone.
LEMMA SwapStutter ==
    ASSUME SwapInv, UNCHANGED swapVars
    PROVE  SwapInv'
<1> USE DEF SwapInv, swapVars, withdrawalVars, foreignVars, canonicalVars, workerVars
<1>1. SwapTypeOK'
  BY DEF SwapTypeOK
<1>2. ControlInv' /\ OnlyOwnProofs' /\ StoreInv' /\ TokenTraced'
  BY DEF ControlInv, Idle, Converting, OnlyOwnProofs, StoreInv, TokenTraced, Stored
<1>3. InvoiceInv' /\ LedgerInv' /\ PaidWithinLimit'
  BY DEF InvoiceInv, LedgerInv, PaidWithinLimit, Paid, Worth
<1> QED  BY <1>1, <1>2, <1>3

\* The invariant at the start: no token has been taken yet.
LEMMA SwapInitInv == SwapInit => SwapInv
<1> SUFFICES ASSUME SwapInit PROVE SwapInv
  OBVIOUS
<1> USE DEF SwapInit, Idle
<1>1. asked \in [Tokens -> Nat \ {0}]
  <2>1. PICK s \in Surpluses : asked = [t \in Tokens |-> Greatest(1, Sub(face[t], s))]
    OBVIOUS
  <2>2. ASSUME NEW t \in Tokens PROVE Greatest(1, Sub(face[t], s)) \in Nat \ {0}
    <3>1. face[t] \in Nat /\ s \in Nat
      BY ConversionAssumption
    <3> QED  BY <3>1 DEF Greatest, Sub
  <2> QED  BY <2>1, <2>2
<1>2. SwapTypeOK
  BY <1>1, ConversionAssumption DEF SwapTypeOK, Row, NoRow, Invoice, NoInvoice
<1>3. ControlInv /\ OnlyOwnProofs /\ StoreInv /\ TokenTraced
  BY DEF ControlInv, Converting, OnlyOwnProofs, StoreInv, TokenTraced, NoRow
<1>4. InvoiceInv /\ LedgerInv /\ PaidWithinLimit
  BY DEF InvoiceInv, LedgerInv, PaidWithinLimit, Paid, NoInvoice
<1> QED  BY <1>2, <1>3, <1>4 DEF SwapInv

\* What is paid out is covered: it follows from the invariant in every state.
LEMMA LedgerFundsPayouts ==
    ASSUME SwapInv
    PROVE  PayoutFunded
<1> SUFFICES ASSUME NEW t \in Tokens, paidOut[t] > 0
             PROVE  /\ paidOut[t] <= credited[t]
                    /\ paidOut[t] < asked[t] => asked[t] - paidOut[t] = face[t] - credited[t]
  BY DEF PayoutFunded
<1>1. /\ credited[t] = consumed[t] /\ fee[t] = face[t] - consumed[t]
      /\ RedemptionValid(asked[t], consumed[t], fee[t])
      /\ paidOut[t] = Least(consumed[t], asked[t])
  BY DEF SwapInv, LedgerInv
<1>2. asked[t] \in Nat /\ consumed[t] \in Nat /\ face[t] \in Nat
  BY ConversionAssumption DEF SwapInv, SwapTypeOK
<1> QED  BY <1>1, <1>2 DEF RedemptionValid, Least

\* The invariant holds of the conversion by itself, whatever was cut off
\* before.
THEOREM SwapInvariance == SwapSpec => []SwapInv
<1>1. SwapInv /\ [SwapNext]_swapVars => SwapInv'
  BY SwapStepKeeps, TakeKeeps, RestartKeeps, SwapStutter DEF SwapNext
<1> QED  BY <1>1, SwapInitInv, PTL DEF SwapSpec

--------------------------------------------------------------------------------
(***************************************************************************)
(* The conversions implement TokenExchange.                                *)
(***************************************************************************)

ExchangeNext == Exchange!Next \/ UNCHANGED Exchange!account

\* The account of an invariant state: what is held was bought.
LEMMA Accounts ==
    ASSUME SwapInv, NEW t \in Tokens
    PROVE  /\ face[t] \in Nat \ {0} /\ asked[t] \in Nat \ {0}
           /\ Bought[t] = (IF Paid(t) THEN invoice[t].amount ELSE 0)
           /\ Bought[t] \in Nat /\ (Paid(t) => Bought[t] > 0)
           /\ credited[t] = (IF invoice[t].state = "ISSUED" THEN Bought[t] ELSE 0)
<1> USE DEF SwapInv, SwapTypeOK, Invoice
<1>1. face[t] \in Nat \ {0} /\ asked[t] \in Nat \ {0}
  BY ConversionAssumption
<1>2. Bought[t] = (IF Paid(t) THEN invoice[t].amount ELSE 0) /\ Bought[t] \in Nat
  BY DEF Bought
<1>3. Paid(t) => Bought[t] > 0
  BY <1>2 DEF PaidWithinLimit, LossAllowed
<1> QED  BY <1>1, <1>2, <1>3 DEF LedgerInv, Paid

\* Bought is a function of the tokens.
LEMMA BoughtAt ==
    /\ DOMAIN Bought = Tokens /\ DOMAIN (Bought') = Tokens
    /\ Bought = [t \in Tokens |-> Bought[t]] /\ Bought' = [t \in Tokens |-> Bought'[t]]
    /\ \A t \in Tokens : Bought'[t] = IF Paid(t)' THEN invoice'[t].amount ELSE 0
  BY DEF Bought, Paid

\* A step that buys nothing and moves no money.
LEMMA ExchangeRests ==
    ASSUME SwapInv, UNCHANGED <<face, asked, redeemed, credited, paidOut>>,
           \A t \in Tokens :
                \/ invoice'[t] = invoice[t]
                \/ ~Paid(t) /\ ~Paid(t)'
                \/ Paid(t) /\ Paid(t)' /\ invoice'[t].amount = invoice[t].amount
    PROVE  ExchangeNext
<1>1. Bought' = Bought
  BY DEF Bought, Paid
<1> QED  BY <1>1 DEF ExchangeNext, Exchange!account

\* The foreign mint spends the token, whether or not its answer arrives.
LEMMA ExchangeGives ==
    ASSUME SwapInv, \/ \E c \in InputFees : Receive(c)
                    \/ \E done \in BOOLEAN : ReceiveLost(done)
    PROVE  ExchangeNext
<1> USE DEF withdrawalVars, canonicalVars, Give
<1>1. /\ cur \in Tokens /\ cur \notin redeemed
      /\ redeemed' \in {redeemed, redeemed \cup {cur}}
      /\ UNCHANGED <<face, asked, invoice, credited, paidOut>>
  BY DEF SwapInv, ControlInv, Receive, ReceiveLost
<1>2. Bought' = Bought
  BY <1>1 DEF Bought, Paid
<1>3. CASE redeemed' = redeemed
  BY <1>1, <1>2, <1>3 DEF ExchangeNext, Exchange!account
<1>4. CASE redeemed' = redeemed \cup {cur}
  <2>1. Exchange!Give(cur)
    BY <1>1, <1>2, <1>4 DEF Exchange!Give
  <2> QED  BY <1>1, <2>1 DEF ExchangeNext, Exchange!Next
<1> QED  BY <1>1, <1>3, <1>4

\* The invoice is paid, and this is the only step that buys something.
LEMMA ExchangeBuys ==
    ASSUME SwapInv, \/ \E l \in 0..reserve : ConfirmPaid(l)
                    \/ ConfirmRefused
                    \/ \E done \in BOOLEAN : ConfirmLost(done)
    PROVE  ExchangeNext
<1> USE DEF withdrawalVars, canonicalVars
<1>1. /\ cur \in Tokens /\ cur \in redeemed /\ target \in Nat
      /\ invoice[cur] = [amount |-> target, state |-> "UNPAID"]
      /\ invoice \in [Tokens -> Invoice]
      /\ LossAllowed(face[cur], target)
      /\ UNCHANGED <<face, asked, redeemed, credited, paidOut>>
  BY DEF SwapInv, SwapTypeOK, ControlInv, Converting, InvoiceInv, ConfirmPaid,
         ConfirmRefused, ConfirmLost, Give
<1>2. \/ invoice' = invoice
      \/ invoice' = [invoice EXCEPT ![cur].state = "PAID"]
  <2>1. ASSUME NEW done \in BOOLEAN, ConfirmLost(done)
        PROVE  invoice' = invoice \/ invoice' = [invoice EXCEPT ![cur].state = "PAID"]
    <3>1. invoice' = [invoice EXCEPT ![cur].state = IF done THEN "PAID" ELSE @]
      BY <2>1 DEF ConfirmLost
    <3> QED  BY <1>1, <3>1 DEF Invoice
  <2> QED  BY <2>1 DEF ConfirmPaid, ConfirmRefused, Give
<1>3. CASE invoice' = invoice
  BY <1>1, <1>3, ExchangeRests
<1>4. CASE invoice' = [invoice EXCEPT ![cur].state = "PAID"]
  <2>1. /\ invoice'[cur] = [amount |-> target, state |-> "PAID"]
        /\ \A t \in Tokens \ {cur} : invoice'[t] = invoice[t]
    BY <1>1, <1>4 DEF Invoice
  <2>2. Bought[cur] = 0 /\ Bought' = [Bought EXCEPT ![cur] = target]
    <3>1. Bought[cur] = 0 /\ Bought'[cur] = target
      BY <1>1, <2>1, BoughtAt DEF Bought, Paid
    <3>2. \A t \in Tokens \ {cur} : Bought'[t] = Bought[t]
      BY <2>1 DEF Bought, Paid
    <3> QED  BY <1>1, <3>1, <3>2, BoughtAt
  <2>3. face[cur] \in Nat /\ target \in 1..face[cur]
    BY <1>1, Accounts DEF LossAllowed
  <2>4. Exchange!Buy(cur, target)
    BY <1>1, <2>2 DEF Exchange!Buy, LossAllowed
  <2> QED  BY <1>1, <2>3, <2>4 DEF ExchangeNext, Exchange!Next
<1> QED  BY <1>2, <1>3, <1>4

\* The ecash of one paid invoice arrives, or its arrival is put off.
LEMMA ExchangeMints ==
    ASSUME SwapInv, MintCanonical \/ MintLost
    PROVE  ExchangeNext
<1> USE DEF withdrawalVars, foreignVars
<1>1. /\ cur \in Tokens /\ target \in Nat
      /\ invoice[cur] = [amount |-> target, state |-> "PAID"]
      /\ invoice \in [Tokens -> Invoice] /\ credited \in [Tokens -> Nat]
      /\ credited[cur] = 0 /\ Bought[cur] = target /\ target > 0
      /\ UNCHANGED <<face, asked, redeemed, paidOut>>
  BY Accounts DEF SwapInv, SwapTypeOK, ControlInv, InvoiceInv, MintCanonical, MintLost, Paid
<1>2. CASE MintLost
  <2>1. /\ invoice'[cur] = [amount |-> target, state |-> "ISSUING"]
        /\ \A t \in Tokens \ {cur} : invoice'[t] = invoice[t]
        /\ UNCHANGED credited
    BY <1>1, <1>2 DEF MintLost, Invoice
  <2> QED  BY <1>1, <2>1, ExchangeRests DEF Paid
<1>3. CASE MintCanonical
  <2>1. /\ invoice'[cur] = [amount |-> target, state |-> "ISSUED"]
        /\ \A t \in Tokens \ {cur} : invoice'[t] = invoice[t]
        /\ credited' = [credited EXCEPT ![cur] = target]
    <3>1. credited' = [credited EXCEPT ![cur] = @ + invoice[cur].amount]
      BY <1>3 DEF MintCanonical
    <3>2. invoice' = [invoice EXCEPT ![cur].state = "ISSUED"]
      BY <1>3 DEF MintCanonical
    <3>3. credited[cur] + invoice[cur].amount = target
      BY <1>1
    <3>4. credited' = [credited EXCEPT ![cur] = target]
      BY <3>1, <3>3, Zenon
    <3>5. /\ invoice'[cur] = [amount |-> target, state |-> "ISSUED"]
          /\ \A t \in Tokens \ {cur} : invoice'[t] = invoice[t]
      BY <1>1, <3>2 DEF Invoice
    <3> QED  BY <3>4, <3>5
  <2>2. Bought' = Bought
    BY <1>1, <2>1 DEF Bought, Paid
  <2>3. credited' = [t \in Tokens |-> IF t \in {cur} THEN Bought[t] ELSE credited[t]]
    BY <1>1, <2>1
  <2>4. Exchange!Arrive({cur})
    BY <1>1, <2>2, <2>3 DEF Exchange!Arrive
  <2> QED  BY <1>1, <2>4 DEF ExchangeNext, Exchange!Next
<1> QED  BY <1>2, <1>3

\* At a start, all the ecash whose arrival was put off arrives together.
LEMMA ExchangeReopens ==
    ASSUME SwapInv, Reopen, UNCHANGED <<face, asked, redeemed, paidOut>>
    PROVE  ExchangeNext
<1> DEFINE waiting == {t \in Tokens : invoice[t].state = "ISSUING"}
<1>1. \A t \in waiting : Bought[t] > 0 /\ credited[t] = 0 /\ Bought[t] = invoice[t].amount
  BY Accounts DEF Paid
<1>2. Bought' = Bought
  BY DEF Reopen, Bought, Paid, SwapInv, SwapTypeOK, Invoice
<1>3. credited' = [t \in Tokens |-> IF t \in waiting THEN Bought[t] ELSE credited[t]]
  BY <1>1, Accounts DEF Reopen
<1>4. Exchange!Arrive(waiting)
  BY <1>1, <1>2, <1>3 DEF Exchange!Arrive
<1> QED  BY <1>4 DEF ExchangeNext, Exchange!Next

\* The payout is made once: a payout that is made again changes nothing.
LEMMA ExchangePays ==
    ASSUME SwapInv, Pay
    PROVE  ExchangeNext
<1> USE DEF foreignVars, canonicalVars
<1>1. /\ cur \in Tokens /\ consumed[cur] # 0 /\ consumed[cur] \in Nat
      /\ paidOut \in [Tokens -> Nat]
      /\ UNCHANGED <<face, asked, redeemed, credited, invoice>>
      /\ paidOut' = [paidOut EXCEPT ![cur] = Least(consumed[cur], asked[cur])]
  BY DEF SwapInv, SwapTypeOK, ControlInv, Pay
<1>2. /\ credited[cur] = consumed[cur]
      /\ RedemptionValid(asked[cur], consumed[cur], face[cur] - consumed[cur])
      /\ paidOut[cur] > 0 => paidOut[cur] = Least(consumed[cur], asked[cur])
  BY <1>1 DEF SwapInv, LedgerInv
<1>3. Bought' = Bought
  BY <1>1 DEF Bought, Paid
<1>4. face[cur] \in Nat /\ asked[cur] \in Nat
  BY <1>1, Accounts
<1>5. CASE paidOut[cur] > 0
  BY <1>1, <1>2, <1>3, <1>5 DEF ExchangeNext, Exchange!account
<1>6. CASE paidOut[cur] = 0
  <2>1. credited[cur] < asked[cur] => asked[cur] = face[cur]
    BY <1>1, <1>2, <1>4 DEF RedemptionValid
  <2>2. Least(consumed[cur], asked[cur])
            = IF credited[cur] < asked[cur] THEN credited[cur] ELSE asked[cur]
    BY <1>1, <1>2, <1>4 DEF Least
  <2>3. Exchange!PayOut(cur)
    BY <1>1, <1>2, <1>3, <1>6, <2>1, <2>2 DEF Exchange!PayOut
  <2> QED  BY <1>1, <2>3 DEF ExchangeNext, Exchange!Next
<1> QED  BY <1>1, <1>5, <1>6

\* The quotes, the attempts that end and everything else leave the money alone.
LEMMA ExchangeWaits ==
    ASSUME SwapInv, \/ CallFails \/ ReceiveRefused \/ PollAgain \/ PollGivesUp
                    \/ Prepare \/ Record \/ RecordRefused
                    \/ \E c \in InputFees : ReadFee(c)
                    \/ \E r \in Reserves : Quote(r) \/ QuoteGivesUp(r)
                    \/ \E t \in Tokens : Take(t)
    PROVE  ExchangeNext
<1> USE DEF withdrawalVars, foreignVars, canonicalVars, Give
<1>1. ASSUME NEW r \in Reserves, Quote(r) PROVE ExchangeNext
  <2>1. /\ cur \in Tokens /\ ~Paid(cur)
        /\ UNCHANGED <<face, asked, redeemed, credited, paidOut>>
        /\ \/ UNCHANGED invoice
           \/ invoice' = [invoice EXCEPT ![cur] = [amount |-> target, state |-> "UNPAID"]]
    BY <1>1 DEF SwapInv, ControlInv, InvoiceInv, NoInvoice, Paid, Quote
  <2>2. \A t \in Tokens :
            \/ invoice'[t] = invoice[t]
            \/ ~Paid(t) /\ ~Paid(t)'
    BY <2>1 DEF Paid, SwapInv, SwapTypeOK
  <2> QED  BY <2>1, <2>2, ExchangeRests
<1>2. ASSUME \/ CallFails \/ ReceiveRefused \/ PollAgain \/ PollGivesUp
             \/ Prepare \/ Record \/ RecordRefused
             \/ \E c \in InputFees : ReadFee(c)
             \/ \E r \in Reserves : QuoteGivesUp(r)
             \/ \E t \in Tokens : Take(t)
      PROVE  ExchangeNext
  <2>1. UNCHANGED <<face, asked, redeemed, credited, paidOut, invoice>>
    BY <1>2 DEF CallFails, ReceiveRefused, PollAgain, PollGivesUp, Prepare, Record,
                RecordRefused, ReadFee, QuoteGivesUp, Take
  <2> QED  BY <2>1, ExchangeRests
<1> QED  BY <1>1, <1>2

\* Every step of the conversions is one of the exchange or leaves it alone.
LEMMA ExchangeStep ==
    ASSUME SwapInv, [SwapNext]_swapVars
    PROVE  ExchangeNext
<1>1. CASE SwapStep
  BY <1>1, ExchangeGives, ExchangeBuys, ExchangeMints, ExchangePays, ExchangeWaits
  DEF SwapStep
<1>2. CASE \E t \in Tokens : Take(t)
  BY <1>2, ExchangeWaits
<1>3. CASE Restart
  BY <1>3, ExchangeReopens DEF Restart, withdrawalVars, foreignVars
<1>4. CASE UNCHANGED swapVars
  BY <1>4, ExchangeRests DEF swapVars, withdrawalVars, foreignVars, canonicalVars
<1> QED  BY <1>1, <1>2, <1>3, <1>4 DEF SwapNext

\* And so is the start.
LEMMA ExchangeInit == SwapInit => Exchange!Init
<1> SUFFICES ASSUME SwapInit PROVE Exchange!Init
  OBVIOUS
<1>1. face \in [Tokens -> Nat \ {0}] /\ asked \in [Tokens -> Nat \ {0}]
  BY SwapInitInv, ConversionAssumption DEF SwapInv, SwapTypeOK
<1>2. Bought = [t \in Tokens |-> 0]
  BY DEF Bought, Paid, SwapInit, NoInvoice
<1> QED  BY <1>1, <1>2 DEF SwapInit, Exchange!Init

\* The conversions implement the exchange: a token buys once, within the
\* limit, and what it bought arrives and is paid out once, whatever fails,
\* is lost or is tried again (swap_to_canonical, redeem).
THEOREM ConversionsImplemented == SwapSpec => ImplementsExchange
<1>1. SwapInv /\ [SwapNext]_swapVars => [Exchange!Next]_(Exchange!account)
  BY ExchangeStep DEF ExchangeNext
<1> QED
  BY <1>1, ExchangeInit, SwapInvariance, PTL DEF SwapSpec, ImplementsExchange, Exchange!Spec
================================================================================
