---------------------------- MODULE WithdrawalsInv -----------------------------
(***************************************************************************)
(* The inductive invariant behind the safety properties of Withdrawals,    *)
(* in parts: where control is, what stale data still says of the row, how  *)
(* many payments are left, what backs a payout, who may announce it.       *)
(***************************************************************************)
EXTENDS Withdrawals

\* The payout the worker has broadcast for w and not recorded yet.
InFlight(w) == wcur = w /\ PayoutInFlight

\* The worker read w in its list of queued rows and has not finished with it.
Listed(w) ==
    \/ /\ wpc \in {"queued", "redeem", "consume", "send", "record", "notify", "count"}
       /\ w \in todo
    \/ /\ wpc \in {"redeem", "consume", "send", "record"}
       /\ wcur = w

\* The worker knows the row it works on, has taken it off its list, and what
\* it read in a list still holds: a row once queued never waits for funding.
WorkerControl ==
    /\ wpc \in {"fund", "redeem", "consume", "send", "record", "notify", "count"}
         => wcur \in Ids \ todo /\ row[wcur].state # "absent"
    /\ wpc = "record" => wout # "none"
    /\ wpc = "list" => todo = {}
    /\ wpc = "send" => Executor = "payout"
    /\ wpc \in {"funding", "fund"} => \A w \in todo : row[w].state # "absent"
    /\ wpc = "fund" => row[wcur].kind = "lightning" /\ quote[wcur] = "issued"
    /\ \A w \in Ids : Listed(w) => row[w].state \notin {"absent", "funding"}

\* So does what the watcher read.
WatcherControl ==
    /\ spc \in {"notify", "count"} => scur \in Ids /\ row[scur].state # "absent"
    /\ \A w \in stodo : row[w].state \notin {"absent", "funding"}

\* Requests in flight are about rows that exist, of the kind they expect.
RequestControl ==
    /\ \A c \in Callbacks : cb[c] # NoCallback =>
         /\ cb[c].id \in Ids /\ cb[c].token \in Tokens
         /\ row[cb[c].id].kind = "request" /\ row[cb[c].id].state # "absent"
    /\ \A o \in Operators : op[o] # NoAction =>
         /\ op[o].act \in Actions /\ op[o].id \in Ids
         /\ row[op[o].id].state # "absent"

ControlInv == WorkerControl /\ WatcherControl /\ RequestControl

\* A row the worker may still pick up as queued without another request.
Early == {"absent", "funding", "queued"}

\* Attempts read with the list are no fewer than the row's, so an error that
\* requeues leaves an attempt.
AttemptsInv ==
    \A w \in Ids :
        /\ row[w].state \in Early => row[w].attempts < MaxAttempts
        /\ Listed(w) => /\ row[w].attempts <= snap[w].attempts
                        /\ snap[w].attempts < MaxAttempts

\* The row may still lead to a payment.
Payable(w) ==
    /\ row[w].state \in Early \/ Listed(w)
    /\ ~InFlight(w)

\* What may still be paid has a payment left; nothing is overpaid.
AccountInv ==
    \A w \in Ids :
        /\ payouts[w] <= 1 + unrecorded[w] + requeues[w]
        /\ Payable(w) => payouts[w] <= unrecorded[w] + requeues[w]

\* The customer's money for w is ours.
Backed(w) ==
    /\ row[w].kind = "lightning" => quote[w] = "issued"
    /\ row[w].kind # "lightning" =>
         row[w].token # NoToken /\ redeemedBy[row[w].token] = w

RowBacking(w) ==
    /\ row[w].state = "absent" => quote[w] = "none"
    /\ row[w].state \in {"absent", "funding"} => row[w].token = NoToken
    /\ row[w].kind = "lightning" => row[w].token = NoToken
    /\ row[w].consumed => Backed(w) /\ row[w].state \notin {"absent", "funding"}

\* What the worker read of the row's funds is still true.
DeskBacking(w) ==
    Listed(w) => /\ snap[w].token = row[w].token
                 /\ snap[w].consumed => row[w].consumed

\* What the steps of an execution know of the funds.
ExecutionBacking ==
    /\ wpc \in {"redeem", "consume"} => snap[wcur].token # NoToken
    /\ wpc = "consume" => redeemedBy[snap[wcur].token] = wcur
    /\ wpc = "send" => row[wcur].consumed

BackingInv ==
    /\ \A w \in Ids : /\ RowBacking(w) /\ DeskBacking(w)
                      /\ payouts[w] > 0 => row[w].consumed
    /\ ExecutionBacking

\* One of the row's announcement, the worker's and the watcher's at most.
AnnounceInv ==
    \A w \in Ids :
        LET worker  == wpc = "count" /\ wcur = w
            watcher == spc = "count" /\ scur = w
        IN  /\ announced[w] <= 1
            /\ row[w].counted => row[w].state # "absent"
            /\ announced[w] = 1 => row[w].counted /\ ~worker /\ ~watcher
            /\ worker  => row[w].counted /\ ~watcher
            /\ watcher => row[w].counted

\* The inductive invariant.
IndInv ==
    TypeOK /\ ControlInv /\ AttemptsInv /\ AccountInv /\ BackingInv /\ AnnounceInv
================================================================================
