-------------------------- MODULE WithdrawalsProofs --------------------------
(***************************************************************************)
(* Proofs, for all values of the constants, that IndInv is an inductive    *)
(* invariant of Withdrawals, that the safety properties follow from it and *)
(* that Withdrawals implements PayoutLedger.  The first lemmas say what    *)
(* the single steps do: they keep the types, let rows only advance, leave  *)
(* what is not theirs alone, and keep the control part of IndInv.          *)
(***************************************************************************)
EXTENDS WithdrawalsInv, TLAPS

USE AttemptsAssumption, BoundsAssumption, NullAssumption
USE DEF vars, dbVars, worldVars, workerVars, watchVars, httpVars, procVars,
        bookVars, Fault, NoFault

(***************************************************************************)
(* Rows: what the updates of the code keep.                                *)
(***************************************************************************)

\* Changing state, txid and attempts of a row leaves a row.
LEMMA RowFields ==
    ASSUME NEW r \in Row, NEW st \in States, NEW tx \in TxIds, NEW n \in Nat
    PROVE  [r EXCEPT !.state = st, !.txid = tx, !.attempts = n] \in Row
<1>1. ASSUME NEW q \in Row PROVE [q EXCEPT !.state = st] \in Row
  BY DEF Row
<1>2. ASSUME NEW q \in Row PROVE [q EXCEPT !.txid = tx] \in Row
  BY DEF Row
<1>3. ASSUME NEW q \in Row PROVE [q EXCEPT !.attempts = n] \in Row
  BY DEF Row
<1> QED  BY <1>1, <1>2, <1>3

\* record_withdrawal_attempt leaves a row.
LEMMA AttemptedIsRow ==
    ASSUME NEW r \in Row, NEW seen \in Nat,
           NEW result \in {"settled", "broadcasting", "error"}
    PROVE  Attempted(r, result, seen) \in Row
<1>1. PICK st \in States, tx \in TxIds, n \in Nat :
        /\ st = IF result # "error" THEN result
                ELSE IF seen + 1 < MaxAttempts THEN "queued" ELSE "failed"
        /\ tx = IF result # "settled" THEN r.txid
                ELSE IF Executor = "payout" THEN "own" ELSE "other"
        /\ n = r.attempts + 1
  BY DEF States, TxIds, Row
<1>2. Attempted(r, result, seen) = [r EXCEPT !.state = st, !.txid = tx, !.attempts = n]
  BY <1>1 DEF Attempted
<1>3. [r EXCEPT !.state = st, !.txid = tx, !.attempts = n] \in Row
  BY RowFields
<1> QED  BY <1>2, <1>3

\* manual_update_withdrawal_state leaves a row.
LEMMA ManualUpdateIsRow ==
    ASSUME NEW r \in Row, NEW act \in Actions, NEW txid \in TxIds
    PROVE  ManualUpdate(r, act, txid) \in Row
BY DEF ManualUpdate, Row, States, Actions

\* Setting a flag of a row leaves a table of rows.
LEMMA FlaggedIsRow ==
    ASSUME NEW f \in [Ids -> Row], NEW w \in Ids
    PROVE  /\ [f EXCEPT ![w].consumed = TRUE] \in [Ids -> Row]
           /\ [f EXCEPT ![w].counted = TRUE] \in [Ids -> Row]
<1>1. [f[w] EXCEPT !.consumed = TRUE] \in Row /\ [f[w] EXCEPT !.counted = TRUE] \in Row
  BY DEF Row
<1> QED  BY <1>1

(***************************************************************************)
(* Type correctness.                                                       *)
(***************************************************************************)

\* A fresh database and a fresh process have their types.
LEMMA InitType == Init => TypeOK
<1> SUFFICES ASSUME Init PROVE TypeOK
  OBVIOUS
<1>1. NoRow \in Row /\ NoSnap \in Snap /\ NoSettleSnap \in SettleSnap
  BY DEF NoRow, Row, NoSnap, Snap, NoSettleSnap, SettleSnap, States, TxIds
<1>2. /\ cb \in [Callbacks ->
               [id : Ids \cup {NoId}, token : Tokens \cup {NoToken}]]
      /\ op \in [Operators -> [act : Actions \cup {"none"}, id : Ids \cup {NoId},
                             txid : TxIds]]
  BY DEF Init, NoCallback, NoAction, TxIds
<1> QED  BY <1>1, <1>2 DEF Init, TypeOK

\* The worker's control variables keep their types whatever step it takes.
LEMMA WorkerMoves ==
    ASSUME TypeOK
    PROVE  /\ AbortTick => /\ wpc' = "idle" /\ wcur' \in Ids \cup {NoId}
                           /\ todo' \subseteq Ids /\ snap' \in [Ids -> Snap]
                           /\ wout' = "none"
           /\ \A pc : NextItem(pc) =>
                /\ wpc' = pc /\ wcur' \in Ids \cup {NoId}
                /\ todo' \subseteq Ids /\ snap' \in [Ids -> Snap] /\ wout' = "none"
           /\ \A pc : Goto(pc) =>
                /\ wpc' = pc /\ wcur' \in Ids \cup {NoId}
                /\ todo' \subseteq Ids /\ snap' \in [Ids -> Snap] /\ wout' = wout
           /\ \A res : Outcome(res) =>
                /\ wpc' = "record" /\ wcur' \in Ids \cup {NoId}
                /\ todo' \subseteq Ids /\ snap' \in [Ids -> Snap] /\ wout' = res
<1> USE DEF TypeOK
<1>1. NoSnap \in Snap
  BY DEF NoSnap, Snap
<1> QED  BY <1>1 DEF AbortTick, NextItem, Goto, Outcome

\* The watcher's do too.
LEMMA WatcherMoves ==
    ASSUME TypeOK, WatchNext \/ WatchStop
    PROVE  /\ spc' \in {"idle", "scan"} /\ scur' \in Ids \cup {NoId}
           /\ stodo' \subseteq Ids /\ ssnap' \in [Ids -> SettleSnap]
BY DEF TypeOK, WatchNext, WatchStop, NoSettleSnap, SettleSnap, States, TxIds

\* The row a worker or watcher step is about exists.
LEMMA CurrentRow ==
    ASSUME TypeOK, ControlInv
    PROVE  /\ wpc \in {"fund", "redeem", "consume", "send", "record", "notify", "count"}
                => wcur \in Ids
           /\ wpc = "record" => wout \in {"settled", "broadcasting", "error"}
           /\ spc \in {"notify", "count"} => scur \in Ids
BY DEF TypeOK, ControlInv, WorkerControl, WatcherControl

\* Every step keeps the types.
LEMMA NextType == TypeOK /\ ControlInv /\ [Next]_vars => TypeOK'
<1> SUFFICES ASSUME TypeOK, ControlInv, [Next]_vars PROVE TypeOK'
  OBVIOUS
<1>cur. /\ wpc \in {"fund", "redeem", "consume", "send", "record", "notify", "count"}
                => wcur \in Ids
        /\ wpc = "record" => wout \in {"settled", "broadcasting", "error"}
        /\ spc \in {"notify", "count"} => scur \in Ids
  BY CurrentRow
<1>row. row \in [Ids -> Row] /\ snap \in [Ids -> Snap] /\ unrecorded \in [Ids -> Nat]
  BY DEF TypeOK
<1> USE WorkerMoves, WatcherMoves
<1>1. ASSUME NEW w \in Ids, NEW kind \in Kinds, NEW t \in Tokens \cup {NoToken},
             RequestWithdrawal(w, kind, t)
      PROVE  TypeOK'
  <2>1. row' \in [Ids -> Row] /\ quote' \in [Ids -> {"none", "unpaid", "paid", "issued"}]
    BY <1>1, KindsAssumption
      DEF RequestWithdrawal, TypeOK, Row, NoRow, States, TxIds
  <2> QED
    BY <1>1, <2>1, <1>cur DEF RequestWithdrawal, TypeOK
<1>2. ASSUME NEW w \in Ids, PayInvoice(w) PROVE TypeOK'
  BY <1>2, <1>cur DEF PayInvoice, TypeOK
<1>3. ASSUME NEW c \in Callbacks, NEW w \in Ids, NEW t \in Tokens,
             SubmitPayment(c, w, t)
      PROVE  TypeOK'
  BY <1>3, <1>cur DEF SubmitPayment, TypeOK, NoCallback
<1>4. ASSUME NEW w \in Ids, Expire(w) PROVE TypeOK'
  BY <1>4, <1>cur DEF Expire, TypeOK
<1>5. ASSUME NEW w \in Ids, Mine(w) PROVE TypeOK'
  BY <1>5, <1>cur DEF Mine, TypeOK
<1>6. ASSUME NEW c \in Callbacks, RecordPayment(c) PROVE TypeOK'
  <2>1. /\ row' \in [Ids -> Row]
        /\ cb' \in [Callbacks ->
                     [id : Ids \cup {NoId}, token : Tokens \cup {NoToken}]]
    BY <1>6
      DEF RecordPayment, TypeOK, ControlInv, RequestControl, Row, States,
          NoCallback
  <2> QED
    BY <1>6, <2>1, <1>cur DEF RecordPayment, TypeOK, NoCallback
<1>7. ASSUME NEW o \in Operators, NEW w \in Ids, NEW act \in Actions,
             NEW txid \in TxIds, OperateFetch(o, w, act, txid)
      PROVE  TypeOK'
  BY <1>7, <1>cur DEF OperateFetch, TypeOK, NoAction, Actions
<1>8. ASSUME NEW o \in Operators, OperateWrite(o) PROVE TypeOK'
  <2>1. row' \in [Ids -> Row] /\ requeues' \in [Ids -> Nat]
    BY <1>8, ManualUpdateIsRow
      DEF OperateWrite, TypeOK, ControlInv, RequestControl
  <2> QED
    BY <1>8, <2>1, <1>cur DEF OperateWrite, TypeOK, NoAction, TxIds
<1>9. ASSUME SetHalt PROVE TypeOK'
  BY <1>9, <1>cur DEF SetHalt, TypeOK
<1>10. ASSUME StartTick PROVE TypeOK'
  BY <1>10, <1>cur DEF StartTick, TypeOK, InState
<1>11. ASSUME FundingRecord PROVE TypeOK'
  <2>1. row' \in [Ids -> Row]
    BY <1>11, <1>row DEF FundingRecord, Row, States
  <2> QED
    BY <1>11, <2>1, <1>cur DEF FundingRecord, TypeOK
<1>12. ASSUME FundingDone PROVE TypeOK'
  BY <1>12, <1>cur DEF FundingDone, TypeOK
<1>13. ASSUME ListQueued PROVE TypeOK'
  <2>1. snap' \in [Ids -> Snap]
    BY <1>13 DEF ListQueued, TypeOK, Snap, NoSnap, Row
  <2> QED
    BY <1>13, <2>1, <1>cur DEF ListQueued, TypeOK, InState
<1>14. ASSUME QueuedDone PROVE TypeOK'
  BY <1>14, <1>cur DEF QueuedDone, TypeOK
<1>15. ASSUME Redeem PROVE TypeOK'
  <2>1. redeemedBy' \in [Tokens -> Ids \cup {NoId}]
    BY <1>15, <1>cur DEF Redeem, TypeOK
  <2> QED
    BY <1>15, <2>1, <1>cur DEF Redeem, TypeOK
<1>16. ASSUME RecordConsumed PROVE TypeOK'
  <2>1. row' = [row EXCEPT ![wcur].consumed = TRUE] \/ row' = row
    BY <1>16 DEF RecordConsumed, MarkCounted
  <2>2. [row EXCEPT ![wcur].consumed = TRUE] \in [Ids -> Row]
    BY <1>16, <1>row, <1>cur, FlaggedIsRow DEF RecordConsumed
  <2>3. row' \in [Ids -> Row]
    BY <1>16, <1>row, <2>1, <2>2
  <2> QED
    BY <1>16, <2>3, <1>cur DEF RecordConsumed, TypeOK
<1>17. ASSUME Send PROVE TypeOK'
  <2>1. payouts' \in [Ids -> Nat] /\ unrecorded' \in [Ids -> Nat]
    BY <1>17, <1>cur DEF Send, TypeOK
  <2> QED
    BY <1>17, <2>1, <1>cur DEF Send, TypeOK
<1>18. ASSUME RecordAttempt PROVE TypeOK'
  <2>1. row' = [row EXCEPT ![wcur] = Attempted(row[wcur], wout, snap[wcur].attempts)]
        \/ row' = row
    BY <1>18 DEF RecordAttempt
  <2>2. wcur \in Ids => Attempted(row[wcur], wout, snap[wcur].attempts) \in Row
    BY <1>18, <1>row, <1>cur, AttemptedIsRow DEF RecordAttempt, Snap
  <2>3. unrecorded' \in [Ids -> Nat] /\ wcur \in Ids
    BY <1>18, <1>row, <1>cur DEF RecordAttempt
  <2>4. row' \in [Ids -> Row] /\ unrecorded' \in [Ids -> Nat]
    BY <1>18, <1>row, <2>1, <2>2, <2>3
  <2> QED
    BY <1>18, <2>4, <1>cur DEF RecordAttempt, TypeOK
<1>19. ASSUME WorkerNotify PROVE TypeOK'
  <2>1. row' = [row EXCEPT ![wcur].counted = TRUE] \/ row' = row
    BY <1>19 DEF WorkerNotify, MarkCounted
  <2>2. [row EXCEPT ![wcur].counted = TRUE] \in [Ids -> Row]
    BY <1>19, <1>row, <1>cur, FlaggedIsRow DEF WorkerNotify
  <2>3. row' \in [Ids -> Row]
    BY <1>19, <1>row, <2>1, <2>2
  <2> QED
    BY <1>19, <2>3, <1>cur DEF WorkerNotify, TypeOK
<1>20. ASSUME WorkerCount PROVE TypeOK'
  BY <1>20, <1>cur DEF WorkerCount, TypeOK, Announce
<1>21. ASSUME NEW w \in Ids, FundingSkip(w) PROVE TypeOK'
  BY <1>21, <1>cur DEF FundingSkip, TypeOK
<1>22. ASSUME NEW w \in Ids, FundingExpired(w) PROVE TypeOK'
  <2>1. row' \in [Ids -> Row]
    BY <1>22, <1>row DEF FundingExpired, Row, States
  <2> QED
    BY <1>22, <2>1, <1>cur DEF FundingExpired, TypeOK
<1>23. ASSUME NEW w \in Ids, FundingPaid(w) PROVE TypeOK'
  BY <1>23, <1>cur DEF FundingPaid, TypeOK
<1>24. ASSUME NEW w \in Ids, FundingError(w) PROVE TypeOK'
  BY <1>24, <1>cur DEF FundingError, TypeOK
<1>25. ASSUME NEW w \in Ids, Execute(w) PROVE TypeOK'
  BY <1>25, <1>cur DEF Execute, TypeOK
<1>26. ASSUME WatchList PROVE TypeOK'
  <2>1. ssnap' \in [Ids -> SettleSnap]
    BY <1>26 DEF WatchList, TypeOK, SettleSnap, NoSettleSnap, Row, States, TxIds
  <2> QED
    BY <1>26, <2>1, <1>cur DEF WatchList, TypeOK, InState
<1>27. ASSUME WatchNotify PROVE TypeOK'
  <2>1. row' = [row EXCEPT ![scur].counted = TRUE] \/ row' = row
    BY <1>27 DEF WatchNotify, MarkCounted
  <2>2. [row EXCEPT ![scur].counted = TRUE] \in [Ids -> Row]
    BY <1>27, <1>row, <1>cur, FlaggedIsRow DEF WatchNotify
  <2>3. row' \in [Ids -> Row]
    BY <1>27, <1>row, <2>1, <2>2
  <2> QED
    BY <1>27, <2>3, <1>cur DEF WatchNotify, TypeOK
<1>28. ASSUME WatchCount PROVE TypeOK'
  BY <1>28, <1>cur DEF WatchCount, TypeOK, Announce
<1>29. ASSUME WatchEnd PROVE TypeOK'
  BY <1>29, <1>cur DEF WatchEnd, TypeOK
<1>30. ASSUME NEW w \in Ids, WatchSkip(w) PROVE TypeOK'
  BY <1>30, <1>cur DEF WatchSkip, TypeOK
<1>31. ASSUME NEW w \in Ids, WatchPending(w) PROVE TypeOK'
  <2>1. row' \in [Ids -> Row]
    BY <1>31, <1>row DEF WatchPending, Row, States
  <2> QED
    BY <1>31, <2>1, <1>cur DEF WatchPending, TypeOK
<1>32. ASSUME NEW w \in Ids, WatchConfirmed(w) PROVE TypeOK'
  <2>1. row' \in [Ids -> Row]
    BY <1>32, <1>row DEF WatchConfirmed, Row, States
  <2> QED
    BY <1>32, <2>1, <1>cur DEF WatchConfirmed, TypeOK
<1>33. ASSUME Restart PROVE TypeOK'
  <2>1. PayoutInFlight => wcur \in Ids
    BY <1>33, <1>cur DEF PayoutInFlight
  <2>2. unrecorded' \in [Ids -> Nat]
    BY <1>33, <1>row, <2>1 DEF Restart
  <2> QED
    BY <1>33, <2>2, <1>cur DEF Restart, TypeOK, NoCallback, NoAction, TxIds
<1>34. CASE UNCHANGED vars
  BY <1>34 DEF TypeOK
<1> QED
  BY <1>1, <1>2, <1>3, <1>4, <1>5, <1>6, <1>7, <1>8, <1>9, <1>10, <1>11, <1>12,
     <1>13, <1>14, <1>15, <1>16, <1>17, <1>18, <1>19, <1>20, <1>21, <1>22,
     <1>23, <1>24, <1>25, <1>26, <1>27, <1>28, <1>29, <1>30, <1>31, <1>32,
     <1>33, <1>34
    DEF Next, Customer, Environment, Handlers, Operate, Worker, Watcher


(***************************************************************************)
(* Rows only advance.                                                      *)
(***************************************************************************)

\* What record_withdrawal_attempt does to a row.
LEMMA AttemptedFields ==
    ASSUME NEW r \in Row, NEW seen \in Nat,
           NEW result \in {"settled", "broadcasting", "error"}
    PROVE  LET q == Attempted(r, result, seen) IN
           /\ q.state = IF result # "error" THEN result
                        ELSE IF seen + 1 < MaxAttempts THEN "queued" ELSE "failed"
           /\ q.kind = r.kind /\ q.token = r.token /\ q.consumed = r.consumed
           /\ q.counted = r.counted /\ q.attempts = r.attempts + 1
<1>1. PICK st, tx, n :
        /\ st = IF result # "error" THEN result
                ELSE IF seen + 1 < MaxAttempts THEN "queued" ELSE "failed"
        /\ tx = IF result # "settled" THEN r.txid
                ELSE IF Executor = "payout" THEN "own" ELSE "other"
        /\ n = r.attempts + 1
  OBVIOUS
<1>2. Attempted(r, result, seen) = [r EXCEPT !.state = st, !.txid = tx, !.attempts = n]
  BY <1>1 DEF Attempted
<1> QED  BY <1>1, <1>2 DEF Row

\* What no step undoes in a row: it stays, its kind stays, and once it has been
\* queued its token and its flags stay and it never waits for funding again.
Advances(w) ==
    /\ row[w].state # "absent" => /\ row'[w].state # "absent"
                                  /\ row'[w].kind = row[w].kind
                                  /\ row[w].consumed => row'[w].consumed
                                  /\ row[w].counted => row'[w].counted
    /\ row[w].state \notin {"absent", "funding"} =>
         /\ row'[w].state \notin {"absent", "funding"}
         /\ row'[w].token = row[w].token

\* No step takes a row back: every step lets every row advance.
LEMMA RowsAdvance ==
    ASSUME TypeOK, ControlInv, [Next]_vars, NEW w \in Ids
    PROVE  Advances(w)
<1> USE DEF Advances
<1>row. row \in [Ids -> Row] /\ snap \in [Ids -> Snap]
  BY DEF TypeOK
<1>1. ASSUME NEW v \in Ids, NEW kind \in Kinds, NEW t \in Tokens \cup {NoToken},
             RequestWithdrawal(v, kind, t)
      PROVE  Advances(w)
  BY <1>1, <1>row DEF RequestWithdrawal, Row
<1>6. ASSUME NEW c \in Callbacks, RecordPayment(c)
      PROVE  Advances(w)
  BY <1>6, <1>row DEF RecordPayment, Row, ControlInv, RequestControl
<1>8. ASSUME NEW o \in Operators, OperateWrite(o)
      PROVE  Advances(w)
  BY <1>8, <1>row DEF OperateWrite, Row, ControlInv, RequestControl, ManualUpdate, Actions
<1>11. ASSUME FundingRecord
      PROVE  Advances(w)
  BY <1>11, <1>row DEF FundingRecord, Row
<1>16. ASSUME RecordConsumed
      PROVE  Advances(w)
  BY <1>16, <1>row DEF RecordConsumed, Row
<1>18. ASSUME RecordAttempt
      PROVE  Advances(w)
  <2>1. wcur \in Ids /\ wout \in {"settled", "broadcasting", "error"}
    BY <1>18, CurrentRow DEF RecordAttempt
  <2>2. \/ row' = row
        \/ row' = [row EXCEPT ![wcur] = Attempted(row[wcur], wout, snap[wcur].attempts)]
    BY <1>18 DEF RecordAttempt
  <2>3. row[wcur] \in Row /\ snap[wcur].attempts \in Nat
    BY <1>row, <2>1 DEF Snap
  <2>4. LET q == Attempted(row[wcur], wout, snap[wcur].attempts) IN
        /\ q.state \notin {"absent", "funding"}
        /\ q.kind = row[wcur].kind /\ q.token = row[wcur].token
        /\ q.consumed = row[wcur].consumed /\ q.counted = row[wcur].counted
    BY <2>1, <2>3, AttemptedFields
  <2> HIDE DEF Advances
  <2>5. CASE row' = row
    BY <2>5 DEF Advances
  <2>6. CASE row' = [row EXCEPT ![wcur] = Attempted(row[wcur], wout, snap[wcur].attempts)]
    BY <1>row, <2>1, <2>4, <2>6 DEF Advances
  <2> QED  BY <2>2, <2>5, <2>6
<1>19. ASSUME WorkerNotify
      PROVE  Advances(w)
  BY <1>19, <1>row DEF WorkerNotify, Row, MarkCounted
<1>22. ASSUME NEW v \in Ids, FundingExpired(v)
      PROVE  Advances(w)
  BY <1>22, <1>row DEF FundingExpired, Row
<1>27. ASSUME WatchNotify
      PROVE  Advances(w)
  BY <1>27, <1>row DEF WatchNotify, Row, MarkCounted
<1>31. ASSUME NEW v \in Ids, WatchPending(v)
      PROVE  Advances(w)
  <2>1. row' = row \/ row' = [row EXCEPT ![v].state = "confirming"]
    BY <1>31 DEF WatchPending
  <2> QED  BY <1>row, <2>1 DEF Row
<1>32. ASSUME NEW v \in Ids, WatchConfirmed(v)
      PROVE  Advances(w)
  BY <1>32, <1>row DEF WatchConfirmed, Row
<1> QED  BY <1>1, <1>6, <1>8, <1>11, <1>16, <1>18, <1>19, <1>22, <1>27, <1>31, <1>32
    DEF Next, Customer, Environment, Handlers, Operate, Worker, Watcher,
        PayInvoice, SubmitPayment, Expire, Mine, OperateFetch, SetHalt,
        StartTick, FundingDone, ListQueued, QueuedDone, Redeem, Send,
        WorkerCount, FundingSkip, FundingPaid, FundingError, Execute, WatchList,
        WatchCount, WatchEnd, WatchSkip, Restart

(*****************************************************************************)
(* Control: requests, the watcher, the worker.                               *)
(*****************************************************************************)

\* Requests in flight stay about rows that exist.
LEMMA NextRequestControl ==
    ASSUME TypeOK, ControlInv, [Next]_vars
    PROVE  RequestControl'
<1>adv. \A w \in Ids : row[w].state # "absent" =>
          row'[w].state # "absent" /\ row'[w].kind = row[w].kind
  BY RowsAdvance DEF Advances
<1>old. /\ RequestControl
        /\ cb \in [Callbacks ->
                    [id : Ids \cup {NoId}, token : Tokens \cup {NoToken}]]
        /\ op \in [Operators -> [act : Actions \cup {"none"},
                                 id : Ids \cup {NoId}, txid : TxIds]]
  BY DEF TypeOK, ControlInv
<1>1. ASSUME NEW c \in Callbacks, NEW w \in Ids, NEW t \in Tokens,
             SubmitPayment(c, w, t)
      PROVE  RequestControl'
  BY <1>1, <1>old, <1>adv DEF SubmitPayment, RequestControl
<1>2. ASSUME NEW c \in Callbacks, RecordPayment(c)
      PROVE  RequestControl'
  BY <1>2, <1>old, <1>adv DEF RecordPayment, RequestControl
<1>3. ASSUME NEW o \in Operators, NEW w \in Ids, NEW act \in Actions,
             NEW txid \in TxIds, OperateFetch(o, w, act, txid)
      PROVE  RequestControl'
  BY <1>3, <1>old, <1>adv DEF OperateFetch, RequestControl
<1>4. ASSUME NEW o \in Operators, OperateWrite(o)
      PROVE  RequestControl'
  BY <1>4, <1>old, <1>adv DEF OperateWrite, RequestControl
<1>5. CASE Restart
  BY <1>5 DEF Restart, RequestControl
<1>6. CASE UNCHANGED httpVars
  BY <1>6, <1>old, <1>adv DEF RequestControl, NoCallback, NoAction
<1> QED
  BY <1>1, <1>2, <1>3, <1>4, <1>5, <1>6
    DEF Next, Customer, Environment, Handlers, Operate, Worker, Watcher,
        RequestWithdrawal, PayInvoice, Expire, Mine, SetHalt, StartTick,
        FundingSkip, FundingExpired, FundingPaid, FundingError, FundingRecord,
        FundingDone, ListQueued, QueuedDone, Execute, Redeem, RecordConsumed,
        Send, RecordAttempt, WorkerNotify, WorkerCount, WatchList, WatchSkip,
        WatchPending, WatchConfirmed, WatchNotify, WatchCount, WatchEnd

\* What the watcher read stays true enough.
LEMMA NextWatcherControl ==
    ASSUME TypeOK, ControlInv, [Next]_vars
    PROVE  WatcherControl'
<1>adv. \A w \in Ids :
          /\ row[w].state # "absent" => row'[w].state # "absent"
          /\ row[w].state \notin {"absent", "funding"} =>
               row'[w].state \notin {"absent", "funding"}
  BY RowsAdvance DEF Advances
<1>old. WatcherControl /\ stodo \subseteq Ids
  BY DEF TypeOK, ControlInv
<1>1. CASE WatchList
  BY <1>1 DEF WatchList, WatcherControl, InState
<1>2. ASSUME NEW w \in Ids, WatchSkip(w) \/ WatchPending(w) \/ WatchConfirmed(w)
      PROVE  WatcherControl'
  BY <1>2, <1>old, <1>adv DEF WatchSkip, WatchPending, WatchConfirmed, WatcherControl
<1>3. CASE WatchNotify
  BY <1>3, <1>old, <1>adv DEF WatchNotify, WatchNext, WatcherControl
<1>4. CASE WatchCount
  BY <1>4, <1>old, <1>adv DEF WatchCount, WatchNext, WatcherControl
<1>5. CASE WatchEnd \/ Restart
  BY <1>5 DEF WatchEnd, Restart, WatchStop, WatcherControl
<1>6. CASE UNCHANGED watchVars
  BY <1>6, <1>old, <1>adv DEF WatcherControl
<1> QED
  BY <1>1, <1>2, <1>3, <1>4, <1>5, <1>6
    DEF Next, Customer, Environment, Handlers, Operate, Worker, Watcher,
        RequestWithdrawal, PayInvoice, SubmitPayment, Expire, Mine,
        RecordPayment, OperateFetch, OperateWrite, SetHalt, StartTick,
        FundingSkip, FundingExpired, FundingPaid, FundingError, FundingRecord,
        FundingDone, ListQueued, QueuedDone, Execute, Redeem, RecordConsumed,
        Send, RecordAttempt, WorkerNotify, WorkerCount

\* Who writes what: only the worker moves the worker, and so on.
LEMMA OwnVariables ==
    /\ Customer \/ Environment \/ Handlers \/ Operate \/ Watcher
         => UNCHANGED workerVars
    /\ Environment \/ Handlers \/ Operate \/ Watcher => UNCHANGED quote
    /\ Customer \/ Environment \/ Handlers \/ Operate \/ Worker
         => UNCHANGED watchVars
    /\ Environment \/ Worker \/ Watcher => UNCHANGED httpVars
    /\ Customer \/ Environment \/ Handlers \/ Operate \/ Worker \/ Watcher
         => UNCHANGED boot
<1>1. Customer => UNCHANGED <<boot, workerVars, watchVars>>
  BY DEF Customer, RequestWithdrawal, PayInvoice, SubmitPayment
<1>2. Environment => UNCHANGED <<boot, workerVars, watchVars, httpVars, quote>>
  BY DEF Environment, Expire, Mine
<1>3. Handlers => UNCHANGED <<boot, workerVars, watchVars, quote>>
  BY DEF Handlers, RecordPayment
<1>4. Operate => UNCHANGED <<boot, workerVars, watchVars, quote>>
  BY DEF Operate, OperateFetch, OperateWrite, SetHalt
<1>5. Worker => UNCHANGED <<boot, watchVars, httpVars>>
  BY DEF Worker, StartTick, FundingSkip, FundingExpired, FundingPaid,
         FundingError, FundingRecord, FundingDone, ListQueued, QueuedDone,
         Execute, Redeem, RecordConsumed, Send, RecordAttempt, WorkerNotify,
         WorkerCount
<1>6. Watcher => UNCHANGED <<boot, workerVars, httpVars, quote>>
  BY DEF Watcher, WatchList, WatchSkip, WatchPending, WatchConfirmed,
         WatchNotify, WatchCount, WatchEnd
<1> QED
  BY <1>1, <1>2, <1>3, <1>4, <1>5, <1>6

\* The worker's place in the tick matches the rows it read.
LEMMA NextWorkerControl ==
    ASSUME TypeOK, ControlInv, [Next]_vars
    PROVE  WorkerControl'
<1>adv. \A w \in Ids :
          /\ row[w].state # "absent" =>
               row'[w].state # "absent" /\ row'[w].kind = row[w].kind
          /\ row[w].state \notin {"absent", "funding"} =>
               row'[w].state \notin {"absent", "funding"}
  BY RowsAdvance DEF Advances
<1>old. /\ WorkerControl /\ todo \subseteq Ids
        /\ quote \in [Ids -> {"none", "unpaid", "paid", "issued"}]
  BY DEF TypeOK, ControlInv
<1> USE DEF WorkerControl, Listed, Executor
<1>1. ASSUME StartTick PROVE WorkerControl'
  BY <1>1, <1>old, <1>adv DEF StartTick, InState
<1>2. ASSUME NEW w \in Ids, FundingSkip(w) PROVE WorkerControl'
  BY <1>2, <1>old, <1>adv DEF FundingSkip
<1>3. ASSUME NEW w \in Ids, FundingExpired(w) PROVE WorkerControl'
  BY <1>3, <1>old, <1>adv DEF FundingExpired
<1>4. ASSUME NEW w \in Ids, FundingPaid(w) PROVE WorkerControl'
  BY <1>4, <1>old, <1>adv DEF FundingPaid
<1>5. ASSUME NEW w \in Ids, FundingError(w) PROVE WorkerControl'
  BY <1>5, <1>old, <1>adv DEF FundingError, AbortTick
<1>6. ASSUME FundingRecord PROVE WorkerControl'
  BY <1>6, <1>old, <1>adv DEF FundingRecord, AbortTick, NextItem
<1>7. ASSUME FundingDone PROVE WorkerControl'
  BY <1>7, <1>old, <1>adv DEF FundingDone, Goto
<1>8. ASSUME ListQueued PROVE WorkerControl'
  BY <1>8, <1>old, <1>adv DEF ListQueued, InState
<1>9. ASSUME QueuedDone PROVE WorkerControl'
  BY <1>9, <1>old, <1>adv DEF QueuedDone, Goto
<1>10. ASSUME NEW w \in Ids, Execute(w) PROVE WorkerControl'
  BY <1>10, <1>old, <1>adv DEF Execute
<1>11. ASSUME Redeem PROVE WorkerControl'
  BY <1>11, <1>old, <1>adv DEF Redeem, Goto, Outcome
<1>12. ASSUME RecordConsumed PROVE WorkerControl'
  BY <1>12, <1>old, <1>adv DEF RecordConsumed, Goto, Outcome
<1>13. ASSUME Send PROVE WorkerControl'
  BY <1>13, <1>old, <1>adv DEF Send, Outcome
<1>14. ASSUME RecordAttempt PROVE WorkerControl'
  BY <1>14, <1>old, <1>adv DEF RecordAttempt, AbortTick, NextItem, Goto
<1>15. ASSUME WorkerNotify PROVE WorkerControl'
  BY <1>15, <1>old, <1>adv DEF WorkerNotify, NextItem, Goto
<1>16. ASSUME WorkerCount PROVE WorkerControl'
  BY <1>16, <1>old, <1>adv DEF WorkerCount, NextItem
<1>17. ASSUME Restart PROVE WorkerControl'
  BY <1>17, <1>old, <1>adv DEF Restart, AbortTick
<1>18. CASE /\ UNCHANGED <<workerVars, boot>>
            /\ (wpc = "fund" => quote'[wcur] = quote[wcur])
  BY <1>18, <1>old, <1>adv
<1>19. CASE Customer
  <2>1. wpc = "fund" => quote'[wcur] = quote[wcur]
    BY <1>19, <1>old DEF Customer, RequestWithdrawal, PayInvoice, SubmitPayment
  <2> QED
    BY <1>18, <1>19, <2>1, OwnVariables
<1> HIDE DEF WorkerControl, Listed, Executor
<1> QED
  BY <1>1, <1>2, <1>3, <1>4, <1>5, <1>6, <1>7, <1>8, <1>9, <1>10, <1>11, <1>12,
     <1>13, <1>14, <1>15, <1>16, <1>17, <1>18, <1>19, OwnVariables
    DEF Next, Worker

(*****************************************************************************)
(* Attempts.                                                                 *)
(*****************************************************************************)

\* Only a requeue and an attempt recorded as an error bring a row back to the
\* queue, and the requeue starts the attempts afresh.
Requeued(w) == row'[w].attempts = 0 /\ requeues'[w] = requeues[w] + 1
Kept(w) ==
    /\ row'[w].attempts \in {row[w].attempts, 0}
    /\ row'[w].state \in Early => row[w].state \in Early

\* Every step keeps a row's attempts, requeues it, or records an attempt.
LEMMA AttemptsMove ==
    ASSUME TypeOK, ControlInv, [Next]_vars, NEW w \in Ids
    PROVE  Kept(w) \/ Requeued(w) \/ (RecordAttempt /\ wcur = w)
<1>row. row \in [Ids -> Row] /\ ControlInv
  BY DEF TypeOK
<1> USE DEF Kept, Requeued, Early
<1>1. ASSUME NEW v \in Ids, NEW kind \in Kinds, NEW t \in Tokens \cup {NoToken},
             RequestWithdrawal(v, kind, t)
      PROVE  Kept(w) \/ Requeued(w)
  BY <1>1, <1>row DEF RequestWithdrawal, Row, NoRow
<1>2. ASSUME NEW c \in Callbacks, RecordPayment(c) PROVE Kept(w) \/ Requeued(w)
  BY <1>2, <1>row DEF RecordPayment, Row, ControlInv, RequestControl
<1>3. ASSUME NEW o \in Operators, OperateWrite(o) PROVE Kept(w) \/ Requeued(w)
  BY <1>3, <1>row
    DEF OperateWrite, Row, ManualUpdate, ControlInv, RequestControl, Actions,
        TypeOK
<1>4. ASSUME FundingRecord PROVE Kept(w) \/ Requeued(w)
  BY <1>4, <1>row DEF FundingRecord, Row
<1>5. ASSUME RecordConsumed PROVE Kept(w) \/ Requeued(w)
  BY <1>5, <1>row DEF RecordConsumed, Row
<1>6. ASSUME RecordAttempt PROVE Kept(w) \/ wcur = w
  BY <1>6, <1>row DEF RecordAttempt, Row
<1>7. ASSUME WorkerNotify PROVE Kept(w) \/ Requeued(w)
  BY <1>7, <1>row DEF WorkerNotify, Row, MarkCounted
<1>8. ASSUME NEW v \in Ids, FundingExpired(v) PROVE Kept(w) \/ Requeued(w)
  BY <1>8, <1>row DEF FundingExpired, Row
<1>9. ASSUME WatchNotify PROVE Kept(w) \/ Requeued(w)
  BY <1>9, <1>row DEF WatchNotify, Row, MarkCounted
<1>10. ASSUME NEW v \in Ids, WatchPending(v) PROVE Kept(w) \/ Requeued(w)
  BY <1>10, <1>row DEF WatchPending, Row
<1>11. ASSUME NEW v \in Ids, WatchConfirmed(v) PROVE Kept(w) \/ Requeued(w)
  BY <1>11, <1>row DEF WatchConfirmed, Row
<1>12. CASE UNCHANGED row
  BY <1>12
<1> HIDE DEF Kept, Requeued, Early
<1> QED
  BY <1>1, <1>2, <1>3, <1>4, <1>5, <1>6, <1>7, <1>8, <1>9, <1>10, <1>11, <1>12
    DEF Next, Customer, Environment, Handlers, Operate, Worker, Watcher,
        PayInvoice, SubmitPayment, Expire, Mine, OperateFetch, SetHalt,
        StartTick, FundingDone, ListQueued, QueuedDone, Redeem, Send,
        WorkerCount, FundingSkip, FundingPaid, FundingError, Execute, WatchList,
        WatchCount, WatchEnd, WatchSkip, Restart

\* A row is on the worker's desk because it was just listed, or because it was
\* there already, as it was read.
StillListed(w) == Listed(w) /\ snap'[w] = snap[w]

\* Nothing gets on the worker's desk except through ListQueued.
LEMMA ListedMoves ==
    ASSUME TypeOK, ControlInv, [Next]_vars, NEW w \in Ids, Listed(w)'
    PROVE  \/ ListQueued /\ row[w].state = "queued"
           \/ StillListed(w) /\ ~(RecordAttempt /\ wcur = w)
<1>old. WorkerControl /\ snap \in [Ids -> Snap] /\ todo \subseteq Ids
  BY DEF TypeOK, ControlInv
<1>1. CASE UNCHANGED workerVars
  BY <1>1 DEF Listed, StillListed, RecordAttempt, AbortTick, Goto, NextItem
<1> USE DEF Listed, StillListed, WorkerControl, Goto, NextItem, Outcome, AbortTick
<1>2. ASSUME StartTick PROVE StillListed(w) /\ ~(RecordAttempt /\ wcur = w)
  BY <1>2, <1>old DEF StartTick, RecordAttempt, InState
<1>3. ASSUME NEW v \in Ids, FundingSkip(v)
      PROVE  StillListed(w) /\ ~(RecordAttempt /\ wcur = w)
  BY <1>3, <1>old DEF FundingSkip, RecordAttempt
<1>4. ASSUME NEW v \in Ids, FundingExpired(v)
      PROVE  StillListed(w) /\ ~(RecordAttempt /\ wcur = w)
  BY <1>4, <1>old DEF FundingExpired, RecordAttempt
<1>5. ASSUME NEW v \in Ids, FundingPaid(v)
      PROVE  StillListed(w) /\ ~(RecordAttempt /\ wcur = w)
  BY <1>5, <1>old DEF FundingPaid, RecordAttempt
<1>6. ASSUME NEW v \in Ids, FundingError(v)
      PROVE  StillListed(w) /\ ~(RecordAttempt /\ wcur = w)
  BY <1>6, <1>old DEF FundingError, RecordAttempt
<1>7. ASSUME FundingRecord PROVE StillListed(w) /\ ~(RecordAttempt /\ wcur = w)
  BY <1>7, <1>old DEF FundingRecord, RecordAttempt
<1>8. ASSUME FundingDone PROVE StillListed(w) /\ ~(RecordAttempt /\ wcur = w)
  BY <1>8, <1>old DEF FundingDone, RecordAttempt
<1>9. ASSUME ListQueued PROVE row[w].state = "queued"
  BY <1>9, <1>old DEF ListQueued, RecordAttempt, InState
<1>10. ASSUME QueuedDone PROVE StillListed(w) /\ ~(RecordAttempt /\ wcur = w)
  BY <1>10, <1>old DEF QueuedDone, RecordAttempt
<1>11. ASSUME NEW v \in Ids, Execute(v)
      PROVE  StillListed(w) /\ ~(RecordAttempt /\ wcur = w)
  BY <1>11, <1>old DEF Execute, RecordAttempt
<1>12. ASSUME Redeem PROVE StillListed(w) /\ ~(RecordAttempt /\ wcur = w)
  BY <1>12, <1>old DEF Redeem, RecordAttempt
<1>13. ASSUME RecordConsumed
      PROVE  StillListed(w) /\ ~(RecordAttempt /\ wcur = w)
  BY <1>13, <1>old DEF RecordConsumed, RecordAttempt
<1>14. ASSUME Send PROVE StillListed(w) /\ ~(RecordAttempt /\ wcur = w)
  BY <1>14, <1>old DEF Send, RecordAttempt
<1>15. ASSUME RecordAttempt PROVE StillListed(w) /\ ~(RecordAttempt /\ wcur = w)
  BY <1>15, <1>old DEF RecordAttempt
<1>16. ASSUME WorkerNotify PROVE StillListed(w) /\ ~(RecordAttempt /\ wcur = w)
  BY <1>16, <1>old DEF WorkerNotify, RecordAttempt
<1>17. ASSUME WorkerCount PROVE StillListed(w) /\ ~(RecordAttempt /\ wcur = w)
  BY <1>17, <1>old DEF WorkerCount, RecordAttempt
<1>18. ASSUME Restart PROVE StillListed(w) /\ ~(RecordAttempt /\ wcur = w)
  BY <1>18, <1>old DEF Restart, RecordAttempt
<1> HIDE DEF Listed, StillListed, WorkerControl, Goto, NextItem, Outcome, AbortTick
<1> QED
  BY <1>1, <1>2, <1>3, <1>4, <1>5, <1>6, <1>7, <1>8, <1>9, <1>10, <1>11, <1>12,
     <1>13, <1>14, <1>15, <1>16, <1>17, <1>18, OwnVariables DEF Next, Worker

\* Queued rows, and rows the worker read as queued, keep an attempt.
LEMMA NextAttempts ==
    ASSUME TypeOK, ControlInv, AttemptsInv, [Next]_vars
    PROVE  AttemptsInv'
<1> SUFFICES ASSUME NEW w \in Ids
             PROVE  /\ row'[w].state \in Early
                         => row'[w].attempts < MaxAttempts
                    /\ Listed(w)' => /\ row'[w].attempts <= snap'[w].attempts
                                     /\ snap'[w].attempts < MaxAttempts
  BY DEF AttemptsInv
<1>row. /\ row[w] \in Row /\ snap[w] \in Snap /\ row \in [Ids -> Row]
        /\ row[w].attempts \in Nat /\ snap[w].attempts \in Nat
        /\ row[w].state \in Early
             => row[w].attempts < MaxAttempts
        /\ Listed(w) => /\ row[w].attempts <= snap[w].attempts
                        /\ snap[w].attempts < MaxAttempts
  BY DEF TypeOK, AttemptsInv, Row, Snap
<1>1. Kept(w) \/ Requeued(w) \/ (RecordAttempt /\ wcur = w)
  BY AttemptsMove
<1>2. CASE RecordAttempt /\ wcur = w
  <2>1. ~Listed(w)'
    BY <1>2, ListedMoves DEF ListQueued, RecordAttempt
  <2>2. wout \in {"settled", "broadcasting", "error"} /\ Listed(w)
    BY <1>2, CurrentRow DEF RecordAttempt, Listed
  <2>3. \/ row' = row
        \/ row' = [row EXCEPT ![w] = Attempted(row[w], wout, snap[w].attempts)]
    BY <1>2 DEF RecordAttempt
  <2>4. LET q == Attempted(row[w], wout, snap[w].attempts) IN
          q.state \in Early => q.attempts < MaxAttempts
    <3>1. LET q == Attempted(row[w], wout, snap[w].attempts) IN
          /\ q.state = IF wout # "error" THEN wout
                       ELSE IF snap[w].attempts + 1 < MaxAttempts
                            THEN "queued" ELSE "failed"
          /\ q.attempts = row[w].attempts + 1
      BY <1>row, <2>2, AttemptedFields
    <3> QED
      BY <1>row, <2>2, <3>1 DEF Early
  <2> QED
    BY <1>row, <2>1, <2>3, <2>4
<1>3. CASE Kept(w) \/ Requeued(w)
  <2>1. row'[w].attempts <= row[w].attempts /\ row'[w].attempts \in Nat
    BY <1>row, <1>3 DEF Kept, Requeued
  <2>2. row'[w].state \in Early
          => row'[w].attempts < MaxAttempts
    BY <1>row, <1>3 DEF Kept, Requeued
  <2>3. CASE Listed(w)' /\ ListQueued
    <3>1. row[w].state = "queued" /\ row' = row /\ snap'[w].attempts = row[w].attempts
      BY <2>3, ListedMoves DEF ListQueued, StillListed, Listed, InState
    <3> QED
      BY <1>row, <2>1, <2>2, <3>1 DEF Early
  <2>4. CASE Listed(w)' /\ StillListed(w)
    BY <1>row, <2>1, <2>2, <2>4 DEF StillListed
  <2> QED
    BY <2>2, <2>3, <2>4, ListedMoves
<1> QED
  BY <1>1, <1>2, <1>3

(*****************************************************************************)
(* Money: what is paid and what may be paid.                                 *)
(*****************************************************************************)

\* Nothing but the broadcast, the recorded attempt, an operator's update and a
\* restart touches what has been paid and what may be paid.
LEMMA MoneyMoves ==
    ASSUME TypeOK, ControlInv, [Next]_vars
    PROVE  \/ Send \/ RecordAttempt \/ Restart
           \/ \E o \in Operators : OperateWrite(o)
           \/ /\ UNCHANGED <<payouts, unrecorded, requeues>>
              /\ PayoutInFlight <=> PayoutInFlight'
              /\ PayoutInFlight => UNCHANGED wcur
<1>1. UNCHANGED <<wpc, wout, boot, wcur>>
        => (PayoutInFlight <=> PayoutInFlight')
  BY DEF PayoutInFlight, Executor
<1>2. Customer => UNCHANGED <<payouts, unrecorded, requeues>>
  BY DEF Customer, RequestWithdrawal, PayInvoice, SubmitPayment
<1>3. Environment => UNCHANGED <<payouts, unrecorded, requeues>>
  BY DEF Environment, Expire, Mine
<1>4. Handlers => UNCHANGED <<payouts, unrecorded, requeues>>
  BY DEF Handlers, RecordPayment
<1>5. Operate => \/ \E o \in Operators : OperateWrite(o)
                 \/ UNCHANGED <<payouts, unrecorded, requeues>>
  BY DEF Operate, OperateFetch, SetHalt
<1>6. Watcher => UNCHANGED <<payouts, unrecorded, requeues>>
  BY DEF Watcher, WatchList, WatchSkip, WatchPending, WatchConfirmed,
         WatchNotify, WatchCount, WatchEnd
<1>7. Worker => \/ Send \/ RecordAttempt
                \/ /\ UNCHANGED <<payouts, unrecorded, requeues>>
                   /\ ~PayoutInFlight
  BY DEF Worker, StartTick, FundingSkip, FundingExpired, FundingPaid,
         FundingError, FundingRecord, FundingDone, ListQueued, QueuedDone,
         Execute, Redeem, RecordConsumed, WorkerNotify, WorkerCount,
         PayoutInFlight
<1>8. Worker => \/ Send \/ RecordAttempt
                \/ ~PayoutInFlight'
  <2>1. WorkerControl
    BY DEF ControlInv
  <2> QED
    BY <2>1
    DEF Worker, StartTick, FundingSkip, FundingExpired, FundingPaid,
         FundingError, FundingRecord, FundingDone, ListQueued, QueuedDone,
         Execute, Redeem, RecordConsumed, WorkerNotify, WorkerCount,
         PayoutInFlight, Executor, Goto, NextItem, Outcome, AbortTick, WorkerControl
<1> QED
  BY <1>1, <1>2, <1>3, <1>4, <1>5, <1>6, <1>7, <1>8, OwnVariables DEF Next

\* A withdrawal that may be paid has a payment left: the broadcast uses it up,
\* and only a requeue or a lost record gives it another.
LEMMA NextAccount ==
    ASSUME TypeOK, ControlInv, AccountInv, [Next]_vars
    PROVE  AccountInv'
<1> SUFFICES ASSUME NEW w \in Ids
             PROVE  /\ payouts'[w] <= 1 + unrecorded'[w] + requeues'[w]
                    /\ Payable(w)' => payouts'[w] <= unrecorded'[w] + requeues'[w]
  BY DEF AccountInv
<1>old. /\ payouts[w] \in Nat /\ unrecorded[w] \in Nat /\ requeues[w] \in Nat
        /\ payouts \in [Ids -> Nat] /\ unrecorded \in [Ids -> Nat]
        /\ requeues \in [Ids -> Nat] /\ WorkerControl
        /\ payouts[w] <= 1 + unrecorded[w] + requeues[w]
        /\ Payable(w) => payouts[w] <= unrecorded[w] + requeues[w]
  BY DEF TypeOK, AccountInv, ControlInv
<1>early. row'[w].state \in Early =>
            row[w].state \in Early \/ Requeued(w) \/ (RecordAttempt /\ wcur = w)
  BY AttemptsMove DEF Kept
<1>listed. Listed(w)' => /\ row[w].state \in Early \/ Listed(w)
                         /\ ~(RecordAttempt /\ wcur = w)
  BY ListedMoves DEF StillListed, Early, ListQueued, RecordAttempt
<1>1. CASE Send
  <2>1. /\ UNCHANGED <<row, requeues, boot>>
        /\ wpc = "send" /\ wcur' = wcur /\ wpc' = "record"
    BY <1>1 DEF Send, Outcome
  <2>2. CASE wcur # w
    <3>1. UNCHANGED <<payouts[w], unrecorded[w]>>
      BY <1>1, <1>old, <2>2 DEF Send
    <3>2. Payable(w)' => Payable(w)
      BY <1>listed, <2>1, <2>2 DEF Payable, InFlight, PayoutInFlight
    <3> QED
      BY <1>old, <2>1, <3>1, <3>2
  <2>3. CASE wcur = w
    <3>1. Payable(w)
      BY <2>1, <2>3 DEF Payable, Listed, InFlight, PayoutInFlight
    <3>2. CASE payouts'[w] = payouts[w] + 1 /\ unrecorded'[w] = unrecorded[w] + 1
      BY <1>old, <2>1, <3>1, <3>2
    <3>3. CASE UNCHANGED <<payouts, unrecorded>>
      BY <1>old, <2>1, <3>1, <3>3
    <3>4. CASE /\ payouts'[w] = payouts[w] + 1 /\ unrecorded' = unrecorded
               /\ wout' = "settled"
      <4>1. InFlight(w)'
        BY <1>old, <2>1, <2>3, <3>4
          DEF InFlight, PayoutInFlight, Executor, WorkerControl
      <4> QED
        BY <1>old, <2>1, <3>1, <3>4, <4>1 DEF Payable
    <3> QED
      BY <1>1, <1>old, <2>3, <3>2, <3>3, <3>4 DEF Send, Outcome
  <2> QED
    BY <2>2, <2>3
<1>2. CASE RecordAttempt \/ Restart
  <2>1. UNCHANGED <<payouts, requeues>>
    BY <1>2 DEF RecordAttempt, Restart
  <2>2. PayoutInFlight => wcur \in Ids
    BY CurrentRow DEF PayoutInFlight
  <2>3. /\ \/ unrecorded' = unrecorded
           \/ InFlight(w) /\ unrecorded'[w] = unrecorded[w] + 1
           \/ wcur # w /\ unrecorded'[w] = unrecorded[w]
    BY <1>2, <1>old, <2>2 DEF RecordAttempt, Restart, InFlight
  <2>4. CASE ~InFlight(w)
    <3>1. Payable(w)' => Payable(w)
      BY <1>2, <1>old, <1>early, <1>listed, <2>1, <2>4
        DEF Payable, Listed, Requeued, RecordAttempt, Restart
    <3> QED
      BY <1>old, <2>1, <2>3, <3>1
  <2>5. CASE InFlight(w) /\ unrecorded'[w] = unrecorded[w] + 1
    BY <1>old, <2>1, <2>5
  <2>6. CASE InFlight(w) /\ unrecorded' = unrecorded
    <3>1. ~Payable(w)'
      <4>1. /\ RecordAttempt /\ wcur = w /\ wout = "settled"
            /\ row' = [row EXCEPT ![w] = Attempted(row[w], wout, snap[w].attempts)]
        BY <1>2, <1>old, <2>2, <2>6 DEF RecordAttempt, Restart, InFlight, PayoutInFlight
      <4>2. row'[w].state = "settled"
        BY <4>1, AttemptedFields DEF TypeOK, Snap
      <4> QED
        BY <1>listed, <4>1, <4>2 DEF Payable, Early
    <3> QED
      BY <1>old, <2>1, <2>6, <3>1
  <2> QED
    BY <2>3, <2>4, <2>5, <2>6 DEF InFlight
<1>3. ASSUME NEW o \in Operators, OperateWrite(o)
      PROVE  /\ payouts'[w] <= 1 + unrecorded'[w] + requeues'[w]
             /\ Payable(w)' => payouts'[w] <= unrecorded'[w] + requeues'[w]
  <2>1. UNCHANGED <<payouts, unrecorded, workerVars, boot>>
        /\ (requeues'[w] = requeues[w] \/ requeues'[w] = requeues[w] + 1)
    BY <1>3, <1>old DEF OperateWrite
  <2>2. CASE requeues'[w] = requeues[w] + 1
    BY <1>old, <2>1, <2>2
  <2>3. CASE requeues'[w] = requeues[w]
    <3>1. ~Requeued(w) /\ ~RecordAttempt
      BY <1>3, <1>old, <2>3 
        DEF Requeued, OperateWrite, RecordAttempt, AbortTick, Goto, NextItem
    <3>2. Payable(w)' => Payable(w)
      BY <1>early, <2>1, <3>1 DEF Payable, Listed, InFlight, PayoutInFlight, Executor
    <3> QED
      BY <1>old, <2>1, <2>3, <3>2
  <2> QED
    BY <2>1, <2>2, <2>3
<1>4. CASE /\ UNCHANGED <<payouts, unrecorded, requeues>>
           /\ PayoutInFlight <=> PayoutInFlight'
           /\ PayoutInFlight => UNCHANGED wcur
           /\ ~RecordAttempt
  <2>1. ~Requeued(w)
    BY <1>4, <1>old DEF Requeued
  <2>2. InFlight(w) => InFlight(w)'
    BY <1>4 DEF InFlight
  <2>3. Payable(w)' => Payable(w)
    BY <1>4, <1>early, <1>listed, <2>1, <2>2 DEF Payable
  <2> QED
    BY <1>4, <1>old, <2>3
<1> QED
  BY <1>1, <1>2, <1>3, <1>4, MoneyMoves

(*****************************************************************************)
(* Funds: what backs a payout.                                               *)
(*****************************************************************************)

\* What a row says of its funds, and when that changes: at the request, at the
\* callback, when the worker records an invoice or a spent token.
SameFunds(w) ==
    /\ row'[w].token = row[w].token /\ row'[w].kind = row[w].kind
    /\ row'[w].consumed = row[w].consumed
    /\ row'[w].state \in {"absent", "funding"} => row'[w].state = row[w].state
Requested(w) ==
    /\ row[w].state = "absent" /\ ~row'[w].consumed
    /\ row'[w].state # "absent"
    /\ row'[w].state = "funding" => row'[w].token = NoToken
    /\ row'[w].kind = "lightning" => row'[w].token = NoToken
PaidByCallback(w) ==
    /\ row[w].state = "funding" /\ row'[w].state = "queued"
    /\ row'[w].kind = "request" /\ row[w].kind = "request"
    /\ row'[w].consumed = row[w].consumed
    /\ UNCHANGED <<quote, payouts, redeemedBy, wpc, wcur, todo, snap>>
SameToken(w) ==
    /\ row'[w].token = row[w].token /\ row'[w].kind = row[w].kind
    /\ row'[w].state \notin {"absent", "funding"}

\* These are all the ways the funds of a row change.
LEMMA FundsMove ==
    ASSUME TypeOK, ControlInv, [Next]_vars, NEW w \in Ids
    PROVE  \/ SameFunds(w) \/ Requested(w) \/ PaidByCallback(w)
           \/ FundingRecord /\ wcur = w /\ row[w].state = "funding" /\ SameToken(w)
           \/ RecordConsumed /\ wcur = w /\ SameToken(w)
<1>row. row \in [Ids -> Row]
  BY DEF TypeOK
<1>1. ASSUME NEW v \in Ids, NEW kind \in Kinds, NEW t \in Tokens \cup {NoToken},
             RequestWithdrawal(v, kind, t)
      PROVE  SameFunds(w) \/ Requested(w)
  BY <1>1, <1>row DEF RequestWithdrawal, NoRow, SameFunds, Requested, Row
<1>2. ASSUME NEW c \in Callbacks, RecordPayment(c)
      PROVE  SameFunds(w) \/ PaidByCallback(w)
  BY <1>2, <1>row DEF RecordPayment, SameFunds, PaidByCallback, Row, ControlInv,
     RequestControl
<1>3. ASSUME NEW o \in Operators, OperateWrite(o)
      PROVE  SameFunds(w)
  BY <1>3, <1>row DEF OperateWrite, ManualUpdate, SameFunds, Row, ControlInv,
     RequestControl, Actions
<1>4. CASE FundingRecord
  BY <1>4, <1>row DEF FundingRecord, SameFunds, SameToken, Row
<1>5. CASE RecordConsumed
  <2>1. Listed(wcur)
    BY <1>5 DEF RecordConsumed, Listed
  <2>2. row[w].state \notin {"absent", "funding"} \/ wcur # w
    BY <2>1 DEF ControlInv, WorkerControl
  <2>3. row' = row \/ row' = [row EXCEPT ![wcur].consumed = TRUE]
    BY <1>5 DEF RecordConsumed
  <2>4. SameFunds(w) \/ (wcur = w /\ SameToken(w))
    <3>1. CASE row' = row \/ wcur # w
      BY <1>row, <2>3, <3>1 DEF SameFunds
    <3>2. CASE wcur = w
      BY <1>row, <2>2, <2>3, <3>1, <3>2 DEF SameToken, Row
    <3> QED
      BY <3>1, <3>2
  <2> QED
    BY <1>5, <2>4
<1>6. CASE RecordAttempt
  <2>1. wcur \in Ids /\ wout \in {"settled", "broadcasting", "error"}
    BY <1>6, CurrentRow DEF RecordAttempt
  <2>2. \/ row' = row
        \/ row' = [row EXCEPT ![wcur] = Attempted(row[wcur], wout, snap[wcur].attempts)]
    BY <1>6 DEF RecordAttempt
  <2>0. row[wcur] \in Row /\ snap[wcur].attempts \in Nat
    BY <1>row, <2>1 DEF TypeOK, Snap
  <2>3. LET q == Attempted(row[wcur], wout, snap[wcur].attempts) IN
        /\ q.state \notin {"absent", "funding"}
        /\ q.kind = row[wcur].kind /\ q.token = row[wcur].token
        /\ q.consumed = row[wcur].consumed
    BY <2>0, <2>1, AttemptedFields
  <2> QED
    BY <1>row, <2>1, <2>2, <2>3 DEF SameFunds
<1>7. CASE WorkerNotify \/ WatchNotify
  BY <1>7, <1>row DEF WorkerNotify, WatchNotify, MarkCounted, SameFunds, Row
<1>8. ASSUME NEW v \in Ids, FundingExpired(v) \/ WatchPending(v) \/ WatchConfirmed(v)
      PROVE  SameFunds(w)
  BY <1>8, <1>row DEF FundingExpired, WatchPending, WatchConfirmed, SameFunds, Row
<1>9. CASE UNCHANGED row
  BY <1>9 DEF SameFunds
<1> QED
  BY <1>1, <1>2, <1>3, <1>4, <1>5, <1>6, <1>7, <1>8, <1>9
    DEF Next, Customer, Environment, Handlers, Operate, Worker, Watcher,
        PayInvoice, SubmitPayment, Expire, Mine, OperateFetch, SetHalt,
        StartTick, FundingSkip, FundingPaid, FundingError, FundingDone,
        ListQueued, QueuedDone, Execute, Redeem, Send, WorkerCount, WatchList,
        WatchSkip, WatchCount, WatchEnd, Restart

\* The mint never takes a token or an invoice back.
LEMMA MintKeeps ==
    ASSUME TypeOK, ControlInv, [Next]_vars
    PROVE  /\ \A t \in Tokens : redeemedBy[t] # NoId => redeemedBy'[t] = redeemedBy[t]
           /\ \A w \in Ids : row[w].state # "absent" /\ quote[w] = "issued"
                               => quote'[w] = "issued"
           /\ \A w \in Ids : quote[w] = "none" /\ row'[w].state = "absent"
                               => quote'[w] = "none"
<1>typ. /\ redeemedBy \in [Tokens -> Ids \cup {NoId}]
        /\ quote \in [Ids -> {"none", "unpaid", "paid", "issued"}]
        /\ row \in [Ids -> Row] /\ snap \in [Ids -> Snap]
  BY DEF TypeOK
<1>1. UNCHANGED redeemedBy \/ Redeem
  BY DEF Next, Customer, Environment, Handlers, Operate, Worker, Watcher,
        RequestWithdrawal, PayInvoice, SubmitPayment, Expire, Mine,
        RecordPayment, OperateFetch, OperateWrite, SetHalt, StartTick,
        FundingSkip, FundingExpired, FundingPaid, FundingError, FundingRecord,
        FundingDone, ListQueued, QueuedDone, Execute, RecordConsumed, Send,
        RecordAttempt, WorkerNotify, WorkerCount, WatchList, WatchSkip,
        WatchPending, WatchConfirmed, WatchNotify, WatchCount, WatchEnd, Restart
<1>2. \A t \in Tokens : redeemedBy[t] # NoId => redeemedBy'[t] = redeemedBy[t]
  BY <1>1, <1>typ DEF Redeem
<1>3. ASSUME NEW w \in Ids
      PROVE  /\ row[w].state # "absent" /\ quote[w] = "issued" => quote'[w] = "issued"
             /\ quote[w] = "none" /\ row'[w].state = "absent" => quote'[w] = "none"
  <2>1. ASSUME NEW v \in Ids, NEW kind \in Kinds,
               NEW t \in Tokens \cup {NoToken}, RequestWithdrawal(v, kind, t)
        PROVE  UNCHANGED quote[w] \/ (row[w].state = "absent" /\ row'[w].state # "absent")
    BY <2>1, <1>typ DEF RequestWithdrawal, NoRow, Row
  <2>2. ASSUME NEW v \in Ids, PayInvoice(v) \/ FundingPaid(v) \/ FundingError(v)
        PROVE  UNCHANGED quote[w] \/ (quote[w] # "none" /\ quote'[w] = "issued")
               \/ quote[w] = "unpaid"
    BY <2>2, <1>typ DEF PayInvoice, FundingPaid, FundingError
  <2> QED
    BY <2>1, <2>2 DEF Next, Customer, Environment, Handlers, Operate, Worker,
        Watcher, SubmitPayment, Expire, Mine, RecordPayment, OperateFetch,
        OperateWrite, SetHalt, StartTick, FundingSkip, FundingExpired,
        FundingRecord, FundingDone, ListQueued, QueuedDone, Execute, Redeem,
        RecordConsumed, Send, RecordAttempt, WorkerNotify, WorkerCount,
        WatchList, WatchSkip, WatchPending, WatchConfirmed, WatchNotify,
        WatchCount, WatchEnd, Restart
<1> QED
  BY <1>2, <1>3

\* What was paid out stays backed by the customer's money.

\* A row's consumed flag keeps meaning that its money is in.
LEMMA NextRowBacking ==
    ASSUME TypeOK, ControlInv, BackingInv, [Next]_vars, NEW w \in Ids
    PROVE  RowBacking(w)'
<1>old. /\ RowBacking(w) /\ WorkerControl /\ row \in [Ids -> Row]
        /\ redeemedBy \in [Tokens -> Ids \cup {NoId}]
        /\ row[w].token \in Tokens \cup {NoToken}
  BY DEF BackingInv, RowBacking, ControlInv, TypeOK, Row
<1>adv. /\ row[w].state # "absent" => row'[w].state # "absent"
        /\ row[w].state \notin {"absent", "funding"} =>
             row'[w].state \notin {"absent", "funding"}
  BY RowsAdvance DEF Advances
<1>absent. row'[w].state = "absent" => quote'[w] = "none"
  BY <1>old, <1>adv, MintKeeps DEF RowBacking
<1>backed. ASSUME row[w].consumed, row'[w].token = row[w].token,
                  row'[w].kind = row[w].kind
           PROVE  Backed(w)'
  BY <1>old, <1>backed, MintKeeps DEF RowBacking, Backed
<1>1. CASE SameFunds(w)
  BY <1>1, <1>old, <1>adv, <1>absent, <1>backed DEF SameFunds, RowBacking
<1>2. CASE Requested(w)
  BY <1>2, <1>absent DEF Requested, RowBacking
<1>3. CASE PaidByCallback(w)
  BY <1>3, <1>old, <1>absent DEF PaidByCallback, RowBacking
<1>4. CASE FundingRecord /\ wcur = w /\ row[w].state = "funding" /\ SameToken(w)
  <2>1. row[w].kind = "lightning" /\ quote'[w] = "issued"
    BY <1>4, <1>old DEF FundingRecord, WorkerControl
  <2> QED
    BY <1>4, <1>old, <1>absent, <2>1 DEF SameToken, RowBacking, Backed
<1>5. CASE RecordConsumed /\ wcur = w /\ SameToken(w)
  <2>1. /\ snap[w].token # NoToken /\ redeemedBy'[snap[w].token] = w
        /\ snap[w].token = row[w].token
    BY <1>5 DEF RecordConsumed, BackingInv, DeskBacking, ExecutionBacking, Listed
  <2> QED
    BY <1>5, <1>old, <1>absent, <2>1 DEF SameToken, RowBacking, Backed
<1> QED
  BY <1>1, <1>2, <1>3, <1>4, <1>5, FundsMove

\* What the worker read of a row's funds stays true while it works on it.
LEMMA NextDeskBacking ==
    ASSUME TypeOK, ControlInv, BackingInv, [Next]_vars, NEW w \in Ids
    PROVE  DeskBacking(w)'
<1>old. DeskBacking(w) /\ WorkerControl
  BY DEF BackingInv, DeskBacking, ControlInv
<1>adv. /\ row[w].state # "absent" /\ row[w].consumed => row'[w].consumed
        /\ row[w].state \notin {"absent", "funding"} => row'[w].token = row[w].token
  BY RowsAdvance DEF Advances
<1>1. CASE Listed(w)' /\ ListQueued /\ row[w].state = "queued"
  BY <1>1 DEF ListQueued, DeskBacking, InState
<1>2. CASE Listed(w)' /\ StillListed(w)
  BY <1>2, <1>old, <1>adv DEF StillListed, DeskBacking, WorkerControl
<1>3. CASE ~Listed(w)'
  BY <1>3 DEF DeskBacking
<1> QED
  BY <1>1, <1>2, <1>3, ListedMoves

\* What an execution knows of the token stays true.
LEMMA NextExecutionBacking ==
    ASSUME TypeOK, ControlInv, BackingInv, [Next]_vars
    PROVE  ExecutionBacking'
<1>old. /\ ExecutionBacking /\ WorkerControl
        /\ row \in [Ids -> Row] /\ snap \in [Ids -> Snap]
        /\ redeemedBy \in [Tokens -> Ids \cup {NoId}]
        /\ \A w \in Ids : Listed(w) => snap[w].token = row[w].token
                                       /\ (snap[w].consumed => row[w].consumed)
  BY DEF BackingInv, DeskBacking, ExecutionBacking, ControlInv, TypeOK
<1>adv. \A w \in Ids : row[w].state # "absent" /\ row[w].consumed => row'[w].consumed
  BY RowsAdvance DEF Advances
<1> USE DEF ExecutionBacking
<1>1. CASE UNCHANGED workerVars
  <2>1. wpc \in {"redeem", "consume", "send"} =>
          /\ wcur \in Ids /\ snap[wcur].token \in Tokens \cup {NoToken}
          /\ row[wcur].state # "absent"
    BY <1>old DEF WorkerControl, Listed, Snap
  <2> QED
    BY <1>1, <1>old, <1>adv, <2>1, MintKeeps
<1>2. CASE /\ Worker \/ Restart
           /\ wpc' \notin {"redeem", "consume", "send"}
  BY <1>2
<1>3. ASSUME NEW w \in Ids, Execute(w)
      PROVE  ExecutionBacking'
  <2>1. Listed(w) /\ row' = row /\ snap' = snap
    BY <1>3 DEF Execute, Listed
  <2>2. snap[w].consumed => row[w].consumed
    BY <1>old, <2>1
  <2> QED
    BY <1>3, <2>1, <2>2 DEF Execute
<1>4. CASE Redeem
  <2>1. wcur \in Ids /\ snap[wcur].token \in Tokens
    BY <1>4, <1>old DEF Redeem, WorkerControl, Snap
  <2> QED
    BY <1>4, <1>old, <2>1 DEF Redeem, Goto, Outcome
<1>5. CASE RecordConsumed
  <2>1. wcur \in Ids
    BY <1>5, <1>old DEF RecordConsumed, WorkerControl
  <2>2. wpc' = "send" => wcur' = wcur /\ row' = [row EXCEPT ![wcur].consumed = TRUE]
    BY <1>5 DEF RecordConsumed, Goto, Outcome
  <2>3. wpc' \in {"send", "record"}
    BY <1>5 DEF RecordConsumed, Goto, Outcome
  <2> QED
    BY <1>old, <2>1, <2>2, <2>3 DEF Row
<1> HIDE DEF ExecutionBacking
<1>6. Worker => \/ Redeem \/ RecordConsumed \/ \E w \in Ids : Execute(w)
                \/ wpc' \notin {"redeem", "consume", "send"}
  BY DEF Worker, StartTick, FundingSkip, FundingExpired, FundingPaid,
         FundingError, FundingRecord, FundingDone, ListQueued, QueuedDone,
         Send, RecordAttempt, WorkerNotify, WorkerCount, Goto, NextItem,
         Outcome, AbortTick
<1>7. Restart => wpc' \notin {"redeem", "consume", "send"}
  BY DEF Restart, AbortTick
<1> QED
  BY <1>1, <1>2, <1>3, <1>4, <1>5, <1>6, <1>7, OwnVariables DEF Next

\* A payout was made of a consumed row.
LEMMA NextPaidBacking ==
    ASSUME TypeOK, ControlInv, BackingInv, [Next]_vars, NEW w \in Ids
    PROVE  payouts'[w] > 0 => row'[w].consumed
<1>old. /\ payouts[w] > 0 => row[w].consumed
        /\ row[w].consumed => row[w].state # "absent"
        /\ wpc = "send" => row[wcur].consumed
        /\ payouts \in [Ids -> Nat] /\ row \in [Ids -> Row]
  BY DEF BackingInv, RowBacking, ExecutionBacking, TypeOK
<1>adv. row[w].state # "absent" /\ row[w].consumed => row'[w].consumed
  BY RowsAdvance DEF Advances
<1>1. CASE Send
  <2>1. wcur # w => payouts'[w] = payouts[w]
    BY <1>1, <1>old DEF Send
  <2>2. wcur = w => row[w].consumed
    BY <1>1, <1>old DEF Send
  <2> QED
    BY <1>old, <1>adv, <2>1, <2>2
<1>2. CASE UNCHANGED payouts
  BY <1>2, <1>old, <1>adv
<1> QED
  BY <1>1, <1>2, MoneyMoves DEF RecordAttempt, Restart, OperateWrite

\* Together: payouts stay backed.
LEMMA NextBacking ==
    ASSUME TypeOK, ControlInv, BackingInv, [Next]_vars
    PROVE  BackingInv'
<1>1. \A w \in Ids : RowBacking(w)' /\ DeskBacking(w)'
                     /\ (payouts'[w] > 0 => row'[w].consumed)
  BY NextRowBacking, NextDeskBacking, NextPaidBacking
<1>2. ExecutionBacking'
  BY NextExecutionBacking
<1> QED
  BY <1>1, <1>2 DEF BackingInv

(*****************************************************************************)
(* Announcements.                                                            *)
(*****************************************************************************)

\* Only the notifier marks a row, and only the worker and the watcher use it.
LEMMA CountedMoves ==
    ASSUME TypeOK, ControlInv, [Next]_vars, ~WorkerNotify, ~WatchNotify,
           NEW w \in Ids, row[w].counted => row[w].state # "absent"
    PROVE  row'[w].counted = row[w].counted
<1>row. row \in [Ids -> Row]
  BY DEF TypeOK
<1>1. ASSUME NEW v \in Ids, NEW kind \in Kinds, NEW t \in Tokens \cup {NoToken},
             RequestWithdrawal(v, kind, t)
      PROVE  row'[w].counted = row[w].counted
  <2>1. v = w => row'[w].counted = FALSE /\ row[w].counted = FALSE
    BY <1>1, <1>row DEF RequestWithdrawal, NoRow, Row
  <2> QED
    BY <1>1, <1>row, <2>1 DEF RequestWithdrawal
<1>2. ASSUME NEW c \in Callbacks, RecordPayment(c)
      PROVE  row'[w].counted = row[w].counted
  BY <1>2, <1>row DEF RecordPayment, Row, ControlInv, RequestControl
<1>3. ASSUME NEW o \in Operators, OperateWrite(o)
      PROVE  row'[w].counted = row[w].counted
  BY <1>3, <1>row DEF OperateWrite, ManualUpdate, Row, ControlInv, RequestControl
<1>4. CASE FundingRecord \/ RecordConsumed
  BY <1>4, <1>row DEF FundingRecord, RecordConsumed, Row
<1>5. CASE RecordAttempt
  <2>1. wcur \in Ids /\ wout \in {"settled", "broadcasting", "error"}
    BY <1>5, CurrentRow DEF RecordAttempt
  <2>2. \/ row' = row
        \/ row' = [row EXCEPT ![wcur] = Attempted(row[wcur], wout, snap[wcur].attempts)]
    BY <1>5 DEF RecordAttempt
  <2>3. row[wcur] \in Row /\ snap[wcur].attempts \in Nat
    BY <1>row, <2>1 DEF TypeOK, Snap
  <2>4. Attempted(row[wcur], wout, snap[wcur].attempts).counted = row[wcur].counted
    BY <2>1, <2>3, AttemptedFields
  <2> QED
    BY <1>row, <2>1, <2>2, <2>4
<1>6. ASSUME NEW v \in Ids, FundingExpired(v) \/ WatchPending(v) \/ WatchConfirmed(v)
      PROVE  row'[w].counted = row[w].counted
  BY <1>6, <1>row DEF FundingExpired, WatchPending, WatchConfirmed, Row
<1>7. CASE UNCHANGED row
  BY <1>7
<1> QED
  BY <1>1, <1>2, <1>3, <1>4, <1>5, <1>6, <1>7
    DEF Next, Customer, Environment, Handlers, Operate, Worker, Watcher,
        PayInvoice, SubmitPayment, Expire, Mine, OperateFetch, SetHalt,
        StartTick, FundingSkip, FundingPaid, FundingError, FundingDone,
        ListQueued, QueuedDone, Execute, Redeem, Send, WorkerCount, WatchList,
        WatchSkip, WatchCount, WatchEnd, Restart

\* Who may be about to announce, and who announces.
LEMMA CountMoves ==
    ASSUME [Next]_vars, ~WorkerNotify, ~WatchNotify
    PROVE  /\ WorkerCount \/ WatchCount \/ UNCHANGED announced
           /\ wpc' = "count" => UNCHANGED <<wpc, wcur>>
           /\ spc' = "count" => UNCHANGED <<spc, scur>>
<1>1. Customer \/ Environment \/ Handlers \/ Operate
        => UNCHANGED <<announced, workerVars, watchVars>>
  <2>1. Customer => UNCHANGED announced
    BY DEF Customer, RequestWithdrawal, PayInvoice, SubmitPayment
  <2>2. Environment => UNCHANGED announced
    BY DEF Environment, Expire, Mine
  <2>3. Handlers => UNCHANGED announced
    BY DEF Handlers, RecordPayment
  <2>4. Operate => UNCHANGED announced
    BY DEF Operate, OperateFetch, OperateWrite, SetHalt
  <2> QED
    BY <2>1, <2>2, <2>3, <2>4, OwnVariables
<1>2. Worker => /\ WorkerCount \/ UNCHANGED announced
                /\ wpc' # "count" /\ UNCHANGED watchVars
  BY OwnVariables
  DEF Worker, StartTick, FundingSkip, FundingExpired, FundingPaid,
         FundingError, FundingRecord, FundingDone, ListQueued, QueuedDone,
         Execute, Redeem, RecordConsumed, Send, RecordAttempt, WorkerCount,
         Goto, NextItem, Outcome, AbortTick
<1>3. Watcher => /\ WatchCount \/ UNCHANGED announced
                 /\ spc' # "count" /\ UNCHANGED workerVars
  BY OwnVariables
  DEF Watcher, WatchList, WatchSkip, WatchPending, WatchConfirmed, WatchCount,
         WatchEnd, WatchNext, WatchStop
<1>4. Restart => UNCHANGED announced /\ wpc' # "count" /\ spc' # "count"
  BY DEF Restart, AbortTick, WatchStop
<1> QED
  BY <1>1, <1>2, <1>3, <1>4 DEF Next

\* Only the one who marked the row counted announces it, and once.
LEMMA NextAnnounce ==
    ASSUME TypeOK, ControlInv, AnnounceInv, [Next]_vars
    PROVE  AnnounceInv'
<1> SUFFICES ASSUME NEW w \in Ids
             PROVE  (LET worker  == wpc = "count" /\ wcur = w
                         watcher == spc = "count" /\ scur = w
                     IN  /\ announced[w] <= 1
                         /\ row[w].counted => row[w].state # "absent"
                         /\ announced[w] = 1 => row[w].counted /\ ~worker /\ ~watcher
                         /\ worker  => row[w].counted /\ ~watcher
                         /\ watcher => row[w].counted)'
  BY DEF AnnounceInv
<1> DEFINE worker  == wpc = "count" /\ wcur = w
           watcher == spc = "count" /\ scur = w
<1>old. /\ announced[w] \in Nat /\ announced[w] <= 1
        /\ row[w].counted => row[w].state # "absent"
        /\ announced[w] = 1 => row[w].counted /\ ~worker /\ ~watcher
        /\ worker  => row[w].counted /\ ~watcher
        /\ watcher => row[w].counted
        /\ announced \in [Ids -> Nat] /\ row \in [Ids -> Row]
        /\ row[w].counted \in BOOLEAN
  BY DEF AnnounceInv, TypeOK, Row
<1>adv. /\ row[w].state # "absent" => row'[w].state # "absent"
        /\ row[w].counted => row'[w].counted
  BY <1>old, RowsAdvance DEF Advances
<1>1. CASE WorkerNotify
  <2>1. wcur \in Ids /\ row[wcur].state # "absent"
    BY <1>1 DEF WorkerNotify, ControlInv, WorkerControl
  <2>2. \/ wpc' = "queued" /\ (row' = row \/ row' = [row EXCEPT ![wcur].counted = TRUE])
        \/ /\ wpc' = "count" /\ wcur' = wcur /\ ~row[wcur].counted
           /\ row' = [row EXCEPT ![wcur].counted = TRUE]
    BY <1>1 DEF WorkerNotify, MarkCounted, NextItem, Goto
  <2>3. UNCHANGED <<announced, watchVars>> /\ wpc = "notify"
    BY <1>1 DEF WorkerNotify
  <2>4. row'[w].counted => row[w].counted \/ wcur = w
    BY <1>old, <2>1, <2>2 DEF Row
  <2>5. wpc' = "count" => row'[wcur].counted /\ wcur' = wcur /\ ~row[wcur].counted
    BY <1>old, <2>1, <2>2 DEF Row
  <2> QED
    BY <1>old, <1>adv, <2>1, <2>3, <2>4, <2>5
<1>2. CASE WatchNotify
  <2>1. scur \in Ids /\ row[scur].state # "absent"
    BY <1>2 DEF WatchNotify, ControlInv, WatcherControl
  <2>2. \/ spc' = "scan" /\ (row' = row \/ row' = [row EXCEPT ![scur].counted = TRUE])
        \/ /\ spc' = "count" /\ scur' = scur /\ ~row[scur].counted
           /\ row' = [row EXCEPT ![scur].counted = TRUE]
    BY <1>2 DEF WatchNotify, MarkCounted, WatchNext
  <2>3. UNCHANGED <<announced, workerVars>> /\ spc = "notify"
    BY <1>2 DEF WatchNotify
  <2>4. row'[w].counted => row[w].counted \/ scur = w
    BY <1>old, <2>1, <2>2 DEF Row
  <2>5. spc' = "count" => row'[scur].counted /\ scur' = scur /\ ~row[scur].counted
    BY <1>old, <2>1, <2>2 DEF Row
  <2> QED
    BY <1>old, <1>adv, <2>1, <2>3, <2>4, <2>5
<1>3. CASE WorkerCount
  BY <1>3, <1>old DEF WorkerCount, NextItem, Announce
<1>4. CASE WatchCount
  BY <1>4, <1>old DEF WatchCount, WatchNext, Announce
<1>5. CASE /\ UNCHANGED announced
           /\ wpc' = "count" => UNCHANGED <<wpc, wcur>>
           /\ spc' = "count" => UNCHANGED <<spc, scur>>
           /\ row'[w].counted = row[w].counted
  BY <1>5, <1>old, <1>adv
<1>6. ~WorkerNotify /\ ~WatchNotify => row'[w].counted = row[w].counted
  BY <1>old, CountedMoves
<1> QED
  BY <1>1, <1>2, <1>3, <1>4, <1>5, <1>6, CountMoves

(*****************************************************************************)
(* The theorems.                                                             *)
(*****************************************************************************)

\* The invariant holds in a fresh database.
LEMMA InitInd == Init => IndInv
<1> SUFFICES ASSUME Init PROVE IndInv
  OBVIOUS
<1>1. TypeOK
  BY InitType
<1>2. ControlInv
  BY DEF Init, ControlInv, WorkerControl, WatcherControl, RequestControl, Listed,
         NoCallback, NoAction
<1>3. AttemptsInv /\ AccountInv
  BY DEF Init, AttemptsInv, AccountInv, Payable, Listed, NoRow
<1>4. BackingInv
  BY DEF Init, BackingInv, RowBacking, DeskBacking, ExecutionBacking, Listed, NoRow
<1>5. AnnounceInv
  <2>1. \A w \in Ids : announced[w] = 0 /\ ~row[w].counted
    BY DEF Init, NoRow
  <2>2. wpc = "idle" /\ spc = "idle"
    BY DEF Init
  <2> QED
    BY <2>1, <2>2, 0 <= 1, 0 # 1, "idle" # "count" DEF AnnounceInv
<1> QED
  BY <1>1, <1>2, <1>3, <1>4, <1>5 DEF IndInv

\* Every step keeps it.
LEMMA NextInd == IndInv /\ [Next]_vars => IndInv'
<1> SUFFICES ASSUME IndInv, [Next]_vars PROVE IndInv'
  OBVIOUS
<1>1. TypeOK /\ ControlInv /\ AttemptsInv /\ AccountInv /\ BackingInv /\ AnnounceInv
  BY DEF IndInv
<1>2. TypeOK'
  BY <1>1, NextType
<1>3. ControlInv'
  BY <1>1, NextWorkerControl, NextWatcherControl, NextRequestControl DEF ControlInv
<1>4. AttemptsInv' /\ AccountInv' /\ BackingInv' /\ AnnounceInv'
  BY <1>1, NextAttempts, NextAccount, NextBacking, NextAnnounce
<1> QED
  BY <1>2, <1>3, <1>4 DEF IndInv

\* IndInv holds in every reachable state, whatever the numbers of withdrawals,
\* tokens, operators, callbacks, attempts, faults, crashes and requeues.
THEOREM Invariance == Spec => []IndInv
<1>1. Init => IndInv
  BY InitInd
<1>2. IndInv /\ [Next]_vars => IndInv'
  BY NextInd
<1> QED
  BY <1>1, <1>2, PTL DEF Spec

\* Every variable keeps its type.
THEOREM TypeCorrect == Spec => []TypeOK
<1>1. IndInv => TypeOK
  BY DEF IndInv
<1> QED
  BY <1>1, Invariance, PTL

\* A withdrawal is paid once, plus once for each requeue and each payout the
\* database never learnt of (send_to_address, operate_withdrawal).
THEOREM PayoutsAreAccounted == Spec => []PayoutsAccounted
<1>1. IndInv => PayoutsAccounted
  BY DEF IndInv, AccountInv, PayoutsAccounted
<1> QED
  BY <1>1, Invariance, PTL

\* Nothing is paid out before the customer's money is in (execute()).
THEOREM PayoutsAreBacked == Spec => []PayoutBacked
<1>1. IndInv => PayoutBacked
  BY DEF IndInv, BackingInv, RowBacking, Backed, PayoutBacked
<1> QED
  BY <1>1, Invariance, PTL

\* One token never pays two withdrawals (redeem(), execute()).
THEOREM OneTokenPaysOnce == Spec => []OneTokenOnePayout
<1>1. IndInv => OneTokenOnePayout
  BY DEF IndInv, BackingInv, RowBacking, Backed, OneTokenOnePayout
<1> QED
  BY <1>1, Invariance, PTL

\* A queued row has an attempt left (record_withdrawal_attempt).
THEOREM QueuedCanBeTried == Spec => []QueuedHasAttemptLeft
<1>1. IndInv => QueuedHasAttemptLeft
  BY DEF IndInv, AttemptsInv, Early, QueuedHasAttemptLeft
<1> QED
  BY <1>1, Invariance, PTL

\* A withdrawal is counted and announced at most once (TransactionNotifier).
THEOREM AnnouncedAtMostOnce == Spec => []AnnouncedOnce
<1>1. IndInv => AnnouncedOnce
  BY DEF IndInv, AnnounceInv, AnnouncedOnce
<1> QED
  BY <1>1, Invariance, PTL

\* A token once stored is never replaced (record_payment_request_token_locked).
THEOREM TokensAreKept == Spec => TokenIsKept
<1>1. IndInv /\ [Next]_vars
        => [\A w \in Ids : row[w].token # NoToken => row'[w].token = row[w].token]_vars
  <2> SUFFICES ASSUME IndInv, [Next]_vars, NEW w \in Ids, row[w].token # NoToken
               PROVE  row'[w].token = row[w].token
    OBVIOUS
  <2>1. row[w].state \notin {"absent", "funding"}
    BY DEF IndInv, BackingInv, RowBacking
  <2> QED
    BY <2>1, RowsAdvance DEF IndInv, Advances
<1> QED
  BY <1>1, Invariance, PTL DEF Spec, TokenIsKept

(*****************************************************************************)
(* The refinement of PayoutLedger.                                           *)
(*****************************************************************************)

\* The ledger's view of the state.
Charged == {w \in Ids : row[w].consumed}
Allowed == [w \in Ids |-> 1 + unrecorded[w] + requeues[w]]

\* Consumed flags are raised one at a time, by the worker.
LEMMA ChargesMove ==
    ASSUME IndInv, [Next]_vars
    PROVE  \/ Charged' = Charged
           \/ /\ FundingRecord \/ RecordConsumed
              /\ wcur \in Ids \ Charged /\ Charged' = Charged \cup {wcur}
<1>1. TypeOK /\ ControlInv /\ BackingInv
  BY DEF IndInv
<1>2. ASSUME NEW w \in Ids, ~row'[w].consumed PROVE ~row[w].consumed
  BY <1>1, <1>2, RowsAdvance DEF BackingInv, RowBacking, Advances
<1>3. ASSUME NEW w \in Ids, row'[w].consumed, ~row[w].consumed
      PROVE  (FundingRecord \/ RecordConsumed) /\ wcur = w
  BY <1>1, <1>3, FundsMove DEF SameFunds, Requested, PaidByCallback
<1> QED
  BY <1>2, <1>3 DEF Charged

\* Every step of the withdrawal side is a step of the ledger or none at all.
LEMMA LedgerStep ==
    ASSUME IndInv, [Next]_vars
    PROVE  \/ Ledger!Next
           \/ Charged' = Charged /\ payouts' = payouts /\ Allowed' = Allowed
<1>typ. /\ payouts \in [Ids -> Nat] /\ unrecorded \in [Ids -> Nat]
        /\ requeues \in [Ids -> Nat] /\ Allowed \in [Ids -> Nat]
        /\ TypeOK /\ ControlInv /\ AccountInv
  BY DEF IndInv, TypeOK, Allowed
<1>charge. ASSUME NEW w \in Ids \ Charged, Charged' = Charged \cup {w},
                  payouts' = payouts, Allowed' = Allowed
           PROVE  Ledger!Next
  BY <1>charge DEF Ledger!Next, Ledger!Charge, Charged, Allowed
<1>pay. ASSUME NEW w \in Charged, payouts[w] < Allowed[w], Charged' = Charged,
               payouts' = [payouts EXCEPT ![w] = @ + 1], Allowed' = Allowed
        PROVE  Ledger!Next
  <2>1. w \in Ids
    BY DEF Charged
  <2>2. Ledger!Pay(w)
    BY <1>pay, <2>1 DEF Ledger!Pay, Charged, Allowed
  <2> QED
    BY <2>1, <2>2 DEF Ledger!Next
<1>lose. ASSUME NEW w \in Charged, payouts[w] < Allowed[w], Charged' = Charged,
                payouts' = [payouts EXCEPT ![w] = @ + 1],
                Allowed' = [Allowed EXCEPT ![w] = @ + 1]
         PROVE  Ledger!Next
  <2>1. w \in Ids
    BY DEF Charged
  <2>2. Ledger!PayUnrecorded(w)
    BY <1>lose, <2>1 DEF Ledger!PayUnrecorded, Charged, Allowed
  <2> QED
    BY <2>1, <2>2 DEF Ledger!Next
<1>allow. ASSUME NEW w \in Ids, Charged' = Charged, payouts' = payouts,
                 Allowed' = [Allowed EXCEPT ![w] = @ + 1]
          PROVE  Ledger!Next
  BY <1>allow DEF Ledger!Next, Ledger!Allow, Charged, Allowed
<1>same. UNCHANGED <<unrecorded, requeues>> => Allowed' = Allowed
  BY DEF Allowed
<1>more. ASSUME NEW w \in Ids,
                \/ unrecorded' = [unrecorded EXCEPT ![w] = @ + 1] /\ requeues' = requeues
                \/ requeues' = [requeues EXCEPT ![w] = @ + 1] /\ unrecorded' = unrecorded
         PROVE  Allowed' = [Allowed EXCEPT ![w] = @ + 1]
  <2>1. ASSUME NEW v \in Ids
        PROVE  Allowed'[v] = IF v = w THEN Allowed[v] + 1 ELSE Allowed[v]
    BY <1>more, <1>typ DEF Allowed
  <2>2. Allowed' = [v \in Ids |-> Allowed'[v]]
    BY DEF Allowed
  <2> QED
    BY <1>typ, <2>1, <2>2
<1>1. CASE Send
  <2>1. wcur \in Ids /\ wcur \in Charged
    BY <1>1 DEF Send, Charged, IndInv, ControlInv, WorkerControl, BackingInv,
       ExecutionBacking
  <2>2. Payable(wcur)
    BY <1>1 DEF Send, Payable, Listed, InFlight, PayoutInFlight
  <2>3. payouts[wcur] < Allowed[wcur]
    BY <1>typ, <2>1, <2>2 DEF AccountInv, Allowed
  <2>4. Charged' = Charged /\ requeues' = requeues
    BY <1>1 DEF Send, Charged
  <2>5. CASE payouts' = [payouts EXCEPT ![wcur] = @ + 1] /\ unrecorded' = unrecorded
    BY <1>pay, <1>same, <2>1, <2>3, <2>4, <2>5
  <2>6. CASE /\ payouts' = [payouts EXCEPT ![wcur] = @ + 1]
             /\ unrecorded' = [unrecorded EXCEPT ![wcur] = @ + 1]
    BY <1>lose, <1>more, <2>1, <2>3, <2>4, <2>6
  <2>7. CASE UNCHANGED <<payouts, unrecorded>>
    BY <1>same, <2>4, <2>7
  <2> QED
    BY <1>1, <2>5, <2>6, <2>7 DEF Send
<1>2. CASE RecordAttempt \/ Restart
  <2>1. Charged' = Charged /\ payouts' = payouts /\ requeues' = requeues
    <3>1. RecordAttempt => ~FundingRecord /\ ~RecordConsumed
      BY DEF RecordAttempt, FundingRecord, RecordConsumed
    <3>2. Restart => row' = row
      BY DEF Restart
    <3>3. row' = row => Charged' = Charged
      BY DEF Charged
    <3> QED
      BY <1>2, <3>1, <3>2, <3>3, ChargesMove DEF RecordAttempt, Restart
  <2>2. \/ unrecorded' = unrecorded
        \/ wcur \in Ids /\ unrecorded' = [unrecorded EXCEPT ![wcur] = @ + 1]
    BY <1>2, <1>typ, CurrentRow DEF RecordAttempt, Restart, PayoutInFlight
  <2> QED
    BY <1>allow, <1>same, <1>more, <2>1, <2>2
<1>3. ASSUME NEW o \in Operators, OperateWrite(o)
      PROVE  \/ Ledger!Next
             \/ Charged' = Charged /\ payouts' = payouts /\ Allowed' = Allowed
  <2>1. op[o].id \in Ids
    BY <1>3 DEF OperateWrite, IndInv, ControlInv, RequestControl
  <2>2. payouts' = payouts /\ unrecorded' = unrecorded
    BY <1>3 DEF OperateWrite
  <2>3. Charged' = Charged
    BY <1>3, ChargesMove DEF OperateWrite, FundingRecord, RecordConsumed, AbortTick,
       NextItem, Goto, Outcome
  <2>4. \/ requeues' = requeues
        \/ requeues' = [requeues EXCEPT ![op[o].id] = @ + 1]
    BY <1>3, <1>typ DEF OperateWrite
  <2> QED
    BY <1>allow, <1>same, <1>more, <2>1, <2>2, <2>3, <2>4
<1>4. CASE UNCHANGED <<payouts, unrecorded, requeues>>
  <2>1. Allowed' = Allowed /\ payouts' = payouts
    BY <1>4, <1>same
  <2>2. CASE Charged' = Charged
    BY <2>1, <2>2
  <2>3. CASE wcur \in Ids \ Charged /\ Charged' = Charged \cup {wcur}
    BY <1>charge, <2>1, <2>3
  <2> QED
    BY <2>2, <2>3, ChargesMove
<1> QED
  BY <1>typ, <1>1, <1>2, <1>3, <1>4, MoneyMoves

\* The withdrawal side implements the payout ledger.
THEOREM LedgerImplemented == Spec => ImplementsLedger
<1>1. Init => Ledger!Init
  BY DEF Init, NoRow, Ledger!Init
<1>2. IndInv /\ [Next]_vars => [Ledger!Next]_(Ledger!ledger)
  <2> SUFFICES ASSUME IndInv, [Next]_vars
               PROVE  Ledger!Next \/ UNCHANGED Ledger!ledger
    OBVIOUS
  <2>1. Charged' = Charged /\ payouts' = payouts /\ Allowed' = Allowed
          => UNCHANGED Ledger!ledger
    BY DEF Ledger!ledger, Charged, Allowed
  <2> QED
    BY <2>1, LedgerStep
<1> QED
  BY <1>1, <1>2, Invariance, PTL DEF Spec, ImplementsLedger, Ledger!Spec
================================================================================
