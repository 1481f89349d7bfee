------------------------------- MODULE FrontDoor -------------------------------
(***************************************************************************)
(* The requests that let a customer in (http.rs): start_session,           *)
(* resume_session, create_deposit, request_withdrawal and                  *)
(* submit_support_message, with what decides whether they may: the         *)
(* operation mode, the session, the limits on open deposits and support    *)
(* messages, the cap on the on-chain float, and the pool that gives a      *)
(* deposit its address.                                                    *)
(*                                                                         *)
(* A request is a row of awaits.  It checks something at one of them and   *)
(* relies on it at a later one, with no transaction around both, while     *)
(* other requests, payouts, the watcher, the sweep, operators and switches *)
(* of the mode go on.  Every action is one statement or one use of a       *)
(* wallet.                                                                 *)
(***************************************************************************)
EXTENDS AddressPool, OperationMode, Functions

CONSTANTS
    Sessions,
    Withdrawals,
    FirstDeposit,   \* the deposit that is there at the beginning
    MaxPerSession,  \* MAX_PENDING_DEPOSITS_PER_SESSION
    MaxGlobal,      \* MAX_GLOBAL_PENDING_DEPOSITS, 24
    MaxMessages,    \* SUPPORT_MESSAGE_THRESHOLD_PER_SESSION, 5
    Amounts,        \* amounts of withdrawals, at least WITHDRAWAL_MIN_SATS
    Fees,           \* miner fees of a payment
    Float,          \* bound: the on-chain balance at the beginning
    MaxUnseen,      \* bound: sats put back in the queue without a cap check
    CapParts,       \* SINGLE_REQUEST_CAP_RATIO is 1 in CapParts
    Casts,          \* bound: who takes part in a behaviour
    MaxRestarts,    \* bound
    NoSession       \* absent value

Kinds == {"start", "resume", "deposit", "withdrawal", "support"}
\* What goes on beside the requests.
World == {"sessions", "deposits", "watcher", "payouts", "interventions", "refill",
          "failures", "events", "restart"}

ASSUME FrontDoorAssumption ==
    /\ IsFiniteSet(Users) /\ Users # {}
    /\ NoSession \notin Sessions /\ FirstDeposit \in Ids
    /\ MaxPerSession \in Nat \ {0} /\ MaxGlobal \in Nat \ {0}
    /\ MaxMessages \in Nat \ {0}
    /\ Amounts \subseteq Nat \ {0} /\ Fees \subseteq Nat
    /\ Float \in Nat /\ MaxUnseen \in Nat /\ CapParts \in Nat \ {0}
    /\ IsFiniteSet(Withdrawals) /\ MaxRestarts \in Nat
    /\ \A c \in Casts : /\ c.kinds \in [Users -> SUBSET Kinds]
                        /\ c.setters \subseteq Setters
                        /\ c.amounts \subseteq Amounts
                        /\ c.world \subseteq World

VARIABLES
    cast,       \* the part of the system at work in this behaviour
    sess,       \* rows of sessions: alive, past expires_at, deleted
    dep,        \* rows of deposits: open states and the rest
    depSession, \* their session_id
    listed,     \* deposits the watcher's pass has yet to write
    revived,    \* history: deposits it brought back after they were closed
    wd,         \* rows of withdrawals; "sent" is paid, recorded or not
    wdAmount,   \* what they reserve
    due,        \* withdrawals the worker's tick has yet to pay
    onchain,    \* what the wallet owns
    synced,     \* what it thinks it owns, since its last sync
    recent,     \* support messages of a session in the window
    case,       \* its support case
    hpc,        \* where each request is
    kind,       \* what it asks for
    who,        \* the session it resolved
    asks,       \* amount of a withdrawal
    seen,       \* the balance it read, then the cap it computed
    behind,     \* history: what was paid or reserved behind its back
    unseen,     \* history: the same, of the last accepted request, and since
    restarts

depositVars    == <<dep, depSession, listed, revived>>
withdrawalVars == <<wd, wdAmount, due, onchain, synced, unseen>>
supportVars    == <<recent, case>>
requestVars    == <<hpc, kind, who, asks, seen, behind>>
doorVars == <<cast, sess, depositVars, withdrawalVars, supportVars, requestVars, restarts>>
vars == <<poolVars, modeVars, doorVars>>

\* Mutated form of CountedStates: a deposit leaves the limits with its first
\* payment.
UnpaidStates == {"pending"}

\* What the limits count: PENDING, PARTIAL_PAYMENT_RECEIVED and CONFIRMING.
CountedStates == {"pending", "partial", "confirming"}
Counted(ds) == Cardinality({d \in ds : dep[d] \in CountedStates})
\* list_open_deposits.
Open == {d \in Ids : dep[d] \in {"pending", "partial", "confirming"}}
OfSession(s) == {d \in Ids : depSession[d] = s}

SumOf(ws) == SumFunctionOnSet(wdAmount, ws)
Sub(a, b) == IF a > b THEN a - b ELSE 0

Init ==
    /\ cast \in Casts
    /\ \E used \in 1..Target :    \* any pool, where somebody takes from it
        /\ PoolInitFrom(used, FirstDeposit)
        /\ used > 1 => \E h \in Users : "deposit" \in cast.kinds[h]
    /\ ModeInit
    /\ sess \in [Sessions -> {"none", "live"}]
    /\ "sessions" \notin cast.world => sess = [s \in Sessions |-> "none"]
    /\ dep = [d \in Ids |-> IF d = FirstDeposit THEN "confirming" ELSE "none"]
    /\ depSession = [d \in Ids |-> NoSession] /\ listed = {} /\ revived = {}
    /\ wd = [w \in Withdrawals |-> "none"] /\ wdAmount = [w \in Withdrawals |-> 0]
    /\ due = {} /\ onchain = Float /\ synced = Float /\ unseen = 0
    /\ recent = [s \in Sessions |-> 0] /\ case = [s \in Sessions |-> "none"]
    /\ hpc = [h \in Users |-> "idle"] /\ kind = [h \in Users |-> "none"]
    /\ who = [h \in Users |-> NoSession] /\ asks = [h \in Users |-> 0]
    /\ seen = [h \in Users |-> 0] /\ behind = [h \in Users |-> 0]
    /\ restarts = 0

\* The request goes on to its next await.
Goes(h, label) ==
    /\ hpc' = [hpc EXCEPT ![h] = label]
    /\ UNCHANGED <<kind, who, asks, seen, behind>>

\* The response is sent, whatever it says.
Answer(h) ==
    /\ hpc' = [hpc EXCEPT ![h] = "idle"] /\ kind' = [kind EXCEPT ![h] = "none"]
    /\ who' = [who EXCEPT ![h] = NoSession] /\ asks' = [asks EXCEPT ![h] = 0]
    /\ seen' = [seen EXCEPT ![h] = 0] /\ behind' = [behind EXCEPT ![h] = 0]

--------------------------------------------------------------------------------
(***************************************************************************)
(* A request comes in.  create_deposit and request_withdrawal look at the  *)
(* mode before anything else.                                              *)
(***************************************************************************)

Comes(h, k, s, amount, label) ==
    /\ hpc[h] = "idle" /\ k \in cast.kinds[h]
    /\ s # NoSession => "sessions" \in cast.world
    /\ hpc' = [hpc EXCEPT ![h] = label] /\ kind' = [kind EXCEPT ![h] = k]
    /\ who' = [who EXCEPT ![h] = s] /\ asks' = [asks EXCEPT ![h] = amount]
    /\ UNCHANGED <<poolVars, modeVars, cast, sess, depositVars, withdrawalVars,
                   supportVars, seen, behind, restarts>>

Asking(k) == {h \in Users : kind[h] = k}
UnusedIds == {d \in Ids : /\ dep[d] = "none" /\ given[d] = NoIndex
                          /\ \A i \in Indexes : owner[i] # d
                          /\ \A u \in Users : asking[u] # d}
UnusedWithdrawals == {w \in Withdrawals : wd[w] = "none"}

\* Mutated form of EnterDeposit: the mode is not looked at.
EnterUngated(h, s) ==
    /\ Cardinality(UnusedIds) > Cardinality(Asking("deposit"))
    /\ Comes(h, "deposit", s, 0, "sweep")

\* The number of ids bounds how many come in.
EnterDeposit(h, s) ==
    /\ mode = "normal"
    /\ Cardinality(UnusedIds) > Cardinality(Asking("deposit"))
    /\ Comes(h, "deposit", s, 0, "sweep")

EnterWithdrawal(h, s, amount) ==
    /\ mode = "normal"
    /\ Cardinality(UnusedWithdrawals) > Cardinality(Asking("withdrawal"))
    /\ Comes(h, "withdrawal", s, amount, "resolve")

EnterSupport(h, s) == s # NoSession /\ Comes(h, "support", s, 0, "resolve")
EnterStart(h) ==
    /\ Cardinality({s \in Sessions : sess[s] = "none"}) > Cardinality(Asking("start"))
    /\ Comes(h, "start", NoSession, 0, "purge")
EnterResume(h, s) == s # NoSession /\ Comes(h, "resume", s, 0, "purge")

\* emit_security_alert spawns a task of its own.
MayAlert(about) ==
    \/ UNCHANGED modeVars
    \/ \E a \in Escalations \cap cast.setters : Alert(a, about)

\* A check of the request itself, of the ecash float, of the request rate or
\* of what the session has done turns it down, or a statement fails.  A
\* withdrawal may have raised an alert by then.
GiveUp(h) ==
    /\ hpc[h] \in {"resolve", "count", "global", "balance", "reserve", "write",
                   "rate", "message", "case", "create"}
    /\ Answer(h)
    /\ CASE hpc[h] = "balance" -> MayAlert("burst")
         [] hpc[h] = "write" -> MayAlert("ratio")
         [] OTHER -> UNCHANGED modeVars
    /\ UNCHANGED <<poolVars, cast, sess, depositVars, withdrawalVars,
                   supportVars, restarts>>

--------------------------------------------------------------------------------
(***************************************************************************)
(* Sessions.                                                               *)
(***************************************************************************)

\* The row a foreign key wants.
Exists(s) == s \in {NoSession} \cup {t \in Sessions : sess[t] \in {"live", "stale"}}

\* delete_expired_sessions, whose failure is only logged.  Deposits keep
\* their row without the session; messages and cases go with it.
Purge(h, done) ==
    /\ hpc[h] = "purge"
    /\ LET gone == IF done THEN {s \in Sessions : sess[s] = "stale"} ELSE {} IN
        /\ sess' = [s \in Sessions |-> IF s \in gone THEN "gone" ELSE sess[s]]
        /\ depSession' = [d \in Ids |->
                IF depSession[d] \in gone THEN NoSession ELSE depSession[d]]
        /\ recent' = [s \in Sessions |-> IF s \in gone THEN 0 ELSE recent[s]]
        /\ case' = [s \in Sessions |-> IF s \in gone THEN "none" ELSE case[s]]
    /\ Goes(h, IF kind[h] = "start" THEN "create" ELSE "resolve")
    /\ UNCHANGED <<poolVars, modeVars, cast, dep, listed, revived, withdrawalVars,
                   restarts>>

\* create_session, with an id and a token of its own.
CreateSession(h, s) ==
    /\ hpc[h] = "create" /\ sess[s] = "none"
    /\ sess' = [sess EXCEPT ![s] = "live"] /\ Answer(h)
    /\ UNCHANGED <<poolVars, modeVars, cast, depositVars, withdrawalVars,
                   supportVars, restarts>>

\* What follows the session in each handler.
AfterSession == [deposit |-> "count", withdrawal |-> "balance", support |-> "rate"]

\* fetch_session_by_token_hash: no header is no session; a session that is
\* not there or is past its time is an error.
Resolve(h) ==
    /\ hpc[h] = "resolve"
    /\ IF who[h] = NoSession THEN Goes(h, AfterSession[kind[h]])
       ELSE IF sess[who[h]] = "live" THEN Goes(h, "touch")
       ELSE Answer(h)
    /\ UNCHANGED <<poolVars, modeVars, cast, sess, depositVars, withdrawalVars,
                   supportVars, restarts>>

\* touch_session updates by id: it revives a row that has expired since and
\* finds none that was deleted since.  Its failure is logged and ignored,
\* except that resume_session answers with it.
Touch(h, done) ==
    /\ hpc[h] = "touch"
    /\ sess' = IF done /\ Exists(who[h]) THEN [sess EXCEPT ![who[h]] = "live"] ELSE sess
    /\ IF kind[h] = "resume" THEN Answer(h) ELSE Goes(h, AfterSession[kind[h]])
    /\ UNCHANGED <<poolVars, modeVars, cast, depositVars, withdrawalVars,
                   supportVars, restarts>>

SessionAges(s) ==
    /\ sess[s] = "live" /\ "sessions" \in cast.world
    /\ sess' = [sess EXCEPT ![s] = "stale"]
    /\ UNCHANGED <<poolVars, modeVars, cast, depositVars, withdrawalVars,
                   supportVars, requestVars, restarts>>

--------------------------------------------------------------------------------
(***************************************************************************)
(* create_deposit.                                                         *)
(***************************************************************************)

\* expire_stale_pending_deposits: those that have waited too long, any that
\* are not paid in full.
Expire(old) == dep' = [d \in Ids |-> IF d \in old THEN "closed" ELSE dep[d]]
Unpaid == {d \in Ids : dep[d] \in {"pending", "partial"}}

\* The sweep of the request itself; its failure is only logged.
Sweep(h) ==
    /\ hpc[h] = "sweep"
    /\ \E old \in SUBSET Unpaid : /\ old # {} => "deposits" \in cast.world
                                  /\ Expire(old)
    /\ Goes(h, "resolve")
    /\ UNCHANGED <<poolVars, modeVars, cast, sess, depSession, listed, revived,
                   withdrawalVars, supportVars, restarts>>

\* count_deposits_for_session_states.
CountSession(h) ==
    /\ hpc[h] = "count"
    /\ IF who[h] # NoSession /\ Counted(OfSession(who[h])) >= MaxPerSession
       THEN Answer(h) ELSE Goes(h, "global")
    /\ UNCHANGED <<poolVars, modeVars, cast, sess, depositVars, withdrawalVars,
                   supportVars, restarts>>

\* count_deposits_by_states, and the id of the deposit to be.
CountGlobal(h) ==
    /\ hpc[h] = "global"
    /\ IF Counted(Ids) >= MaxGlobal
       THEN Answer(h) /\ UNCHANGED poolVars
       ELSE /\ Goes(h, "assign")
            /\ \E d \in UnusedIds : /\ \A e \in UnusedIds : d <= e
                                    /\ BeginAssign(h, d)
    /\ UNCHANGED <<modeVars, cast, sess, depositVars, withdrawalVars,
                   supportVars, restarts>>

AssignStep(h) ==
    /\ hpc[h] = "assign" /\ PoolStep(h) /\ UNCHANGED <<modeVars, doorVars>>

AssignFails(h) ==
    /\ hpc[h] = "assign" /\ "failures" \in cast.world
    /\ PoolGivesUp(h) /\ Answer(h)
    /\ UNCHANGED <<modeVars, cast, sess, depositVars, withdrawalVars,
                   supportVars, restarts>>

\* insert_deposit.  A session deleted meanwhile makes it fail, and so may the
\* database; the address is not given back.
InsertDeposit(h, done) ==
    /\ hpc[h] = "assign" /\ Assigned(h) /\ Answer(h)
    /\ ~done => "failures" \in cast.world
    /\ IF done /\ Exists(who[h])
       THEN /\ dep' = [dep EXCEPT ![asking[h]] = "pending"]
            /\ depSession' = [depSession EXCEPT ![asking[h]] = who[h]]
            /\ UNCHANGED <<listed, revived>>
       ELSE UNCHANGED depositVars
    /\ UNCHANGED <<modeVars, cast, sess, withdrawalVars, supportVars, restarts>>

\* The loop of main that sweeps, or an operator, closes a row.
DepositCloses(d) ==
    /\ d \in Open /\ "deposits" \in cast.world
    /\ dep' = [dep EXCEPT ![d] = "closed"]
    /\ UNCHANGED <<poolVars, modeVars, cast, sess, depSession, listed, revived,
                   withdrawalVars, supportVars, requestVars, restarts>>

\* process_confirmations lists the open deposits; a pass may end early.
WatcherLists ==
    /\ mode # "halt" /\ "watcher" \in cast.world /\ listed # Open
    /\ listed' = Open
    /\ UNCHANGED <<poolVars, modeVars, cast, sess, dep, depSession, revived,
                   withdrawalVars, supportVars, requestVars, restarts>>

\* update_deposit_chain_state, by id only: what became of the row since it was
\* listed makes no difference.  "closed" stands for minting.
WatcherWrites(d, next) ==
    /\ d \in listed /\ listed' = listed \ {d}
    /\ dep' = [dep EXCEPT ![d] = next]
    /\ revived' = revived \cup (IF dep[d] = "closed" /\ next # "closed" THEN {d} ELSE {})
    /\ UNCHANGED <<poolVars, modeVars, cast, sess, depSession, withdrawalVars,
                   supportVars, requestVars, restarts>>

--------------------------------------------------------------------------------
(***************************************************************************)
(* request_withdrawal.                                                     *)
(***************************************************************************)

\* wallet.balance(), which does not sync, after an alert when the request is
\* the fourth in a short time.
ReadBalance(h) ==
    /\ hpc[h] = "balance" /\ MayAlert("burst")
    /\ hpc' = [hpc EXCEPT ![h] = "reserve"] /\ seen' = [seen EXCEPT ![h] = synced]
    /\ UNCHANGED <<poolVars, cast, sess, depositVars, withdrawalVars, supportVars,
                   kind, who, asks, behind, restarts>>

\* Mutated form of Reserved: withdrawals waiting for their funds are left out.
ReservedQueued == {w \in Withdrawals : wd[w] \in {"queued", "sent"}}

\* reserved_onchain_withdrawal_sats: the rows in funding, queued,
\* broadcasting or confirming.
Reserved == {w \in Withdrawals : wd[w] \in {"funding", "queued", "sent"}}

\* The cap, from a balance and reservations read one after the other.  What
\* the balance still had and is neither there nor reserved is behind its back.
ReadReserved(h) ==
    /\ hpc[h] = "reserve"
    /\ IF asks[h] > Sub(seen[h], SumOf(Reserved)) \div CapParts
       THEN Answer(h)
       ELSE /\ hpc' = [hpc EXCEPT ![h] = "write"]
            /\ seen' = [seen EXCEPT ![h] = 0]
            /\ behind' = [behind EXCEPT ![h] =
                Sub(seen[h] - onchain, SumOf({w \in Withdrawals : wd[w] = "sent"}))]
            /\ UNCHANGED <<kind, who, asks>>
    /\ UNCHANGED <<poolVars, modeVars, cast, sess, depositVars, withdrawalVars,
                   supportVars, restarts>>

\* insert_withdrawal, in funding or, with a token, in queued; the ratio of
\* the token may have raised an alert.
InsertWithdrawal(h, state) ==
    /\ hpc[h] = "write" /\ Exists(who[h])
    /\ IF state = "queued" THEN MayAlert("ratio") ELSE UNCHANGED modeVars
    /\ LET w == CHOOSE x \in UnusedWithdrawals : TRUE IN
        /\ wd' = [wd EXCEPT ![w] = state]
        /\ wdAmount' = [wdAmount EXCEPT ![w] = asks[h]]
    /\ unseen' = behind[h]
    /\ hpc' = [hpc EXCEPT ![h] = "idle"] /\ kind' = [kind EXCEPT ![h] = "none"]
    /\ who' = [who EXCEPT ![h] = NoSession] /\ asks' = [asks EXCEPT ![h] = 0]
    /\ behind' = [u \in Users |-> IF u = h THEN 0
                    ELSE IF hpc[u] = "write" THEN behind[u] + asks[h] ELSE behind[u]]
    /\ UNCHANGED <<poolVars, cast, sess, depositVars, due, onchain, synced,
                   supportVars, seen, restarts>>

\* The session was deleted meanwhile.
InsertWithdrawalFails(h) ==
    /\ hpc[h] = "write" /\ ~Exists(who[h]) /\ Answer(h) /\ MayAlert("ratio")
    /\ UNCHANGED <<poolVars, cast, sess, depositVars, withdrawalVars,
                   supportVars, restarts>>

\* What Withdrawals does with a row: it is funded, given up, paid out, and
\* recorded as paid out.
WithdrawalMoves(w, next) ==
    /\ "payouts" \in cast.world
    /\ wd' = [wd EXCEPT ![w] = next]
    /\ UNCHANGED <<poolVars, modeVars, cast, sess, depositVars, wdAmount, due, onchain,
                   synced, unseen, supportVars, requestVars, restarts>>
Funded(w) == wd[w] = "funding" /\ WithdrawalMoves(w, "queued")
GivenUp(w) == wd[w] \in {"funding", "queued"} /\ WithdrawalMoves(w, "done")
Settled(w) == wd[w] = "sent" /\ WithdrawalMoves(w, "done")

\* No request that has read the reservations knows of these sats.
Unseen(sats) ==
    /\ unseen' = unseen + sats
    /\ behind' = [u \in Users |-> IF hpc[u] = "write" THEN behind[u] + sats
                                  ELSE behind[u]]

\* send_to syncs the wallet, pays, and leaves the payment for the next sync.
Spend(sats) == sats <= onchain /\ onchain' = onchain - sats /\ synced' = onchain

\* tick() lists the queued rows.
ListQueued ==
    /\ mode # "halt" /\ "payouts" \in cast.world
    /\ due' = {w \in Withdrawals : wd[w] = "queued"} /\ due' # due
    /\ UNCHANGED <<poolVars, modeVars, cast, sess, depositVars, wd, wdAmount, onchain,
                   synced, unseen, supportVars, requestVars, restarts>>

\* It pays a row it listed, also one that was given up since; the miner takes
\* his fee on top.
PaysOut(w, fee) ==
    /\ w \in due /\ due' = due \ {w} /\ Spend(wdAmount[w] + fee)
    /\ IF wd[w] = "queued"
       THEN wd' = [wd EXCEPT ![w] = "sent"] /\ Unseen(fee)
       ELSE wd' = wd /\ Unseen(wdAmount[w] + fee)
    /\ UNCHANGED <<poolVars, modeVars, cast, sess, depositVars, wdAmount, supportVars,
                   hpc, kind, who, asks, seen, restarts>>

\* A row goes back to the queue and is reserved again with no look at the cap:
\* an operator requeues it, or the record of its payout is an error or lost.
Requeued(w) ==
    /\ "interventions" \in cast.world
    /\ wd[w] \in {"sent", "done"} /\ unseen + wdAmount[w] <= MaxUnseen
    /\ wd' = [wd EXCEPT ![w] = "queued"] /\ Unseen(wdAmount[w])
    /\ UNCHANGED <<poolVars, modeVars, cast, sess, depositVars, wdAmount, due, onchain,
                   synced, supportVars, hpc, kind, who, asks, seen, restarts>>

\* send_wallet_payment, by an operator.
OperatorPays(sats, fee) ==
    /\ "interventions" \in cast.world
    /\ Spend(sats + fee) /\ Unseen(sats + fee)
    /\ UNCHANGED <<poolVars, modeVars, cast, sess, depositVars, wd, wdAmount, due,
                   supportVars, hpc, kind, who, asks, seen, restarts>>

\* The settlement watcher, an operator or a start syncs the wallet.
WalletSyncs ==
    /\ "payouts" \in cast.world /\ synced # onchain /\ synced' = onchain
    /\ UNCHANGED <<poolVars, modeVars, cast, sess, depositVars, wd, wdAmount, due,
                   onchain, unseen, supportVars, requestVars, restarts>>

--------------------------------------------------------------------------------
(***************************************************************************)
(* submit_support_message.                                                 *)
(***************************************************************************)

\* count_support_messages_since.
CountMessages(h) ==
    /\ hpc[h] = "rate"
    /\ IF recent[who[h]] >= MaxMessages THEN Answer(h) ELSE Goes(h, "message")
    /\ UNCHANGED <<poolVars, modeVars, cast, sess, depositVars, withdrawalVars,
                   supportVars, restarts>>

\* create_support_message: the message, and then the case by a statement of
\* its own.  Both need the session's row.
InsertMessage(h) ==
    /\ hpc[h] = "message"
    /\ IF Exists(who[h])
       THEN Goes(h, "case") /\ recent' = [recent EXCEPT ![who[h]] = @ + 1]
       ELSE Answer(h) /\ UNCHANGED recent
    /\ UNCHANGED <<poolVars, modeVars, cast, sess, depositVars, withdrawalVars,
                   case, restarts>>

OpenCase(h) ==
    /\ hpc[h] = "case" /\ Answer(h)
    /\ case' = IF Exists(who[h]) THEN [case EXCEPT ![who[h]] = "open"] ELSE case
    /\ UNCHANGED <<poolVars, modeVars, cast, sess, depositVars, withdrawalVars,
                   recent, restarts>>

\* set_support_case_status, by an operator.
SetCaseStatus(s, status) ==
    /\ case[s] # "none" /\ case' = [case EXCEPT ![s] = status]
    /\ UNCHANGED <<poolVars, modeVars, cast, sess, depositVars, withdrawalVars,
                   recent, requestVars, restarts>>

\* The messages are older than the window.
MessagesAge(s) ==
    /\ recent[s] > 0 /\ "events" \in cast.world
    /\ recent' = [recent EXCEPT ![s] = 0]
    /\ UNCHANGED <<poolVars, modeVars, cast, sess, depositVars, withdrawalVars,
                   case, requestVars, restarts>>

--------------------------------------------------------------------------------
(***************************************************************************)
(* The tasks beside the requests, and the process.                         *)
(***************************************************************************)

RefillTask ==
    /\ "refill" \in cast.world
    /\ BeginRefill \/ PoolStep(Refill) \/ PoolGivesUp(Refill)
    /\ UNCHANGED <<modeVars, doorVars>>

ModeTask ==
    /\ ModeStep \/ (EventsAge /\ "events" \in cast.world)
    /\ \A s \in Setters \ cast.setters : spc'[s] = "off"
    /\ UNCHANGED <<poolVars, doorVars>>

Restart(loaded) ==
    /\ restarts < MaxRestarts /\ restarts' = restarts + 1
    /\ "restart" \in cast.world
    /\ PoolRestart /\ ModeRestart(loaded)
    /\ hpc' = [h \in Users |-> "idle"] /\ kind' = [h \in Users |-> "none"]
    /\ who' = [h \in Users |-> NoSession] /\ asks' = [h \in Users |-> 0]
    /\ seen' = [h \in Users |-> 0] /\ behind' = [h \in Users |-> 0]
    /\ listed' = {} /\ due' = {} /\ synced' \in {0, synced, onchain}
    /\ UNCHANGED <<cast, sess, dep, depSession, revived, wd, wdAmount, onchain, unseen,
                   supportVars>>

Enter(h) ==
    \/ \E s \in Sessions \cup {NoSession} :
        \/ EnterDeposit(h, s) \/ EnterSupport(h, s) \/ EnterResume(h, s)
        \/ \E a \in cast.amounts : EnterWithdrawal(h, s, a)
    \/ EnterStart(h)

\* The steps of a request that nothing goes wrong with.
RequestStep(h) ==
    \/ \E done \in BOOLEAN : Purge(h, done) \/ Touch(h, done) \/ InsertDeposit(h, done)
    \/ \E s \in Sessions : CreateSession(h, s)
    \/ Resolve(h) \/ Sweep(h)
    \/ CountSession(h) \/ CountGlobal(h) \/ AssignStep(h)
    \/ ReadBalance(h) \/ ReadReserved(h)
    \/ \E state \in {"funding", "queued"} : InsertWithdrawal(h, state)
    \/ InsertWithdrawalFails(h)
    \/ CountMessages(h) \/ InsertMessage(h) \/ OpenCase(h)

Outside ==
    \/ \E s \in Sessions : SessionAges(s) \/ MessagesAge(s)
    \/ \E s \in Sessions, status \in {"open", "closed"} : SetCaseStatus(s, status)
    \/ WatcherLists
    \/ \E d \in Ids : DepositCloses(d)
    \/ \E d \in Ids, next \in {"partial", "confirming", "closed"} : WatcherWrites(d, next)
    \/ \E w \in Withdrawals : Funded(w) \/ GivenUp(w) \/ Settled(w) \/ Requeued(w)
    \/ ListQueued \/ WalletSyncs
    \/ \E fee \in Fees : \/ \E w \in Withdrawals : PaysOut(w, fee)
                         \/ \E sats \in Amounts : OperatorPays(sats, fee)

Next ==
    \/ \E h \in Users : Enter(h) \/ RequestStep(h) \/ GiveUp(h) \/ AssignFails(h)
    \/ RefillTask \/ ModeTask \/ Outside
    \/ \E loaded \in BOOLEAN : Restart(loaded)

Spec == Init /\ [][Next]_vars

\* A request runs until it is answered: each of its awaits returns.
FairSpec == Spec /\ \A h \in Users : WF_vars(RequestStep(h))

--------------------------------------------------------------------------------
(***************************************************************************)
(* Properties.                                                             *)
(***************************************************************************)

FdTypeOK ==
    /\ PoolTypeOK /\ ModeTypeOK
    /\ cast \in Casts
    /\ sess \in [Sessions -> {"none", "live", "stale", "gone"}]
    /\ dep \in [Ids -> {"none", "pending", "partial", "confirming", "closed"}]
    /\ depSession \in [Ids -> Sessions \cup {NoSession}]
    /\ listed \subseteq Ids /\ revived \subseteq Ids
    /\ wd \in [Withdrawals -> {"none", "funding", "queued", "sent", "done"}]
    /\ wdAmount \in [Withdrawals -> Amounts \cup {0}]
    /\ due \subseteq Withdrawals
    /\ onchain \in 0..Float /\ synced \in 0..Float /\ unseen \in Nat
    /\ recent \in [Sessions -> Nat] /\ case \in [Sessions -> {"none", "open", "closed"}]
    /\ hpc \in [Users -> {"idle", "sweep", "resolve", "touch", "count", "global",
                          "assign", "balance", "reserve", "write", "rate",
                          "message", "case", "purge", "create"}]
    /\ kind \in [Users -> Kinds \cup {"none"}]
    /\ who \in [Users -> Sessions \cup {NoSession}]
    /\ asks \in [Users -> Amounts \cup {0}]
    /\ seen \in [Users -> 0..Float] /\ behind \in [Users -> Nat]
    /\ restarts \in 0..MaxRestarts

\* Callers that refill at the same time overshoot the target by their own
\* share at most, counting what they have yet to insert (ensure_capacity).
RefillBounded ==
    Cardinality(Free)
        + SumFunctionOnSet([u \in Fillers |-> Target - available[u]],
                           {u \in Fillers : ppc[u] \in {"max", "insert"}})
    <= Target * Cardinality(Fillers)

\* The count and the insert are apart, so requests that run side by side pass
\* a limit together, but never by more than their number: open deposits of a
\* session and of all, and support messages in a window (create_deposit,
\* submit_support_message).  A deposit that was closed and that the watcher
\* brought back by a late write comes on top: its place was given away.
LimitsHold ==
    LET spare == Cardinality(Users) - 1
        admitted == Open \ revived
    IN  /\ \A s \in Sessions :
                /\ Cardinality(admitted \cap OfSession(s)) <= MaxPerSession + spare
                /\ recent[s] <= MaxMessages + spare
        /\ Cardinality(admitted) <= MaxGlobal + spare

\* The withdrawals still to be paid are covered by the on-chain balance, short
\* only of what the last accepted request could not see and of what came after
\* it: payments since the wallet's last sync that are reserved no more, other
\* requests since its reads, miner fees, payouts of rows that were given up,
\* rows put back in the queue, and payments by hand (request_withdrawal).
FloatCovered ==
    SumOf({w \in Withdrawals : wd[w] \in {"funding", "queued"}}) <= onchain + unseen

\* Once the mode stays away from Normal, the requests that had passed it are
\* answered and no other comes in (create_deposit, request_withdrawal).
DoorShuts ==
    <>[](mode # "normal")
        => <>[](\A h \in Users : kind[h] \notin {"deposit", "withdrawal"})

\* Every request is answered: an assignment that loses its address to another
\* request, or finds none, comes to an end (assign_address, ensure_capacity).
RequestsAnswered == \A h \in Users : hpc[h] # "idle" ~> hpc[h] = "idle"
================================================================================
