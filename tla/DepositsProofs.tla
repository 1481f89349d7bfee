----------------------------- MODULE DepositsProofs ----------------------------
(***************************************************************************)
(* The safety properties of Deposits, proved for every value of the        *)
(* constants from the inductive invariant of DepositsInv.                  *)
(***************************************************************************)
EXTENDS DepositsInv, TLAPS

USE AmountsAssumption, AttemptsAssumption, BoundsAssumption, NullAssumption
USE DEF vars, dbVars, chainVars, ecashVars, workerVars, watchVars, httpVars,
        Fault, NoFault

(***************************************************************************)
(* Type correctness.                                                       *)
(***************************************************************************)

\* A fresh database and a fresh process have their types.
LEMMA InitType == Init => TypeOK
<1> SUFFICES ASSUME Init PROVE TypeOK
  OBVIOUS
<1>1. NoDep \in Dep /\ NotSeen \in Seen /\ NoObs \in [total : Nat, covering : Nat]
  BY DEF NoDep, Dep, States, NotSeen, Seen, NoObs
<1>2. /\ pk \in [Pickups -> [pc : {"none", "notify", "count", "reply"},
                             id : Ids \cup {NoId}]]
      /\ op \in [Operators -> [act : Actions \cup {"none"}, id : Ids \cup {NoId}]]
  BY DEF Init, NoPickup, NoAction
<1> QED
  BY <1>1, <1>2 DEF Init, TypeOK

\* What the updates make of a row is a row.
LEMMA UpdatesAreRows ==
    ASSUME NEW r \in Dep
    PROVE  /\ Claimed(r) \in Dep
           /\ [r EXCEPT !.counted = TRUE] \in Dep
           /\ [r EXCEPT !.state = "failed"] \in Dep
           /\ \A act \in Actions : ManualUpdate(r, act) \in Dep
           /\ \A o \in [total : Nat, covering : Nat] : ChainUpdated(r, o) \in Dep
           /\ \A s \in Seen : \A res : MintRecorded(r, res, s) \in Dep
           /\ \A s \in Seen : Delivered(r, s) \in Dep
<1>1. Claimed(r) \in Dep
  BY DEF Claimed, Dep, States
<1>2. [r EXCEPT !.counted = TRUE] \in Dep /\ [r EXCEPT !.state = "failed"] \in Dep
  BY DEF Dep, States
<1>3. ASSUME NEW act \in Actions PROVE ManualUpdate(r, act) \in Dep
  BY <1>3 DEF ManualUpdate, Actions, Dep, States
<1>4. ASSUME NEW o \in [total : Nat, covering : Nat] PROVE ChainUpdated(r, o) \in Dep
  BY <1>4 DEF ChainUpdated, ChainState, Dep, States
<1>5. ASSUME NEW s \in Seen, NEW res PROVE MintRecorded(r, res, s) \in Dep
  <2>1. r.mints + 1 \in Nat /\ s.amount \in Nat
    BY DEF Dep, Seen
  <2>2. \A st \in States, n \in Nat : [r EXCEPT !.state = st, !.mints = n] \in Dep
    BY DEF Dep
  <2>3. \A st \in States, n, t \in Nat :
          [r EXCEPT !.state = st, !.token = t, !.mints = n] \in Dep
    BY DEF Dep
  <2>4. {"delivering", "failed", "minting"} \subseteq States
    BY DEF States
  <2>5. CASE res = "minted"
    BY <2>1, <2>3, <2>4, <2>5 DEF MintRecorded
  <2>6. CASE res # "minted"
    BY <2>1, <2>2, <2>4, <2>6 DEF MintRecorded
  <2> QED
    BY <2>5, <2>6
<1>6. ASSUME NEW s \in Seen PROVE Delivered(r, s) \in Dep
  <2>1. r.deliveries + 1 \in Nat
    BY DEF Dep
  <2>2. \A st \in States, n \in Nat : [r EXCEPT !.state = st, !.deliveries = n] \in Dep
    BY DEF Dep
  <2>3. {"ready", "failed", "minting"} \subseteq States
    BY DEF States
  <2> QED
    BY <2>1, <2>2, <2>3 DEF Delivered
<1> QED
  BY <1>1, <1>2, <1>3, <1>4, <1>5, <1>6

\* The worker's and the watcher's control variables keep their types.
LEMMA LoopMoves ==
    ASSUME TypeOK
    PROVE  /\ WorkerStop => /\ wpc' = "idle" /\ wcur' = NoId /\ todo' = {}
                            /\ wout' = "none" /\ seen' \in [Ids -> Seen]
           /\ \A pc, states : ListFor(pc, states) =>
                /\ wpc' = pc /\ wcur' = NoId /\ todo' = InState(states)
                /\ todo' \subseteq Ids /\ wout' = "none" /\ seen' \in [Ids -> Seen]
           /\ WatchStop => /\ cpc' = "idle" /\ ccur' = NoId /\ ctodo' = {}
                           /\ obs' \in [total : Nat, covering : Nat]
                           /\ tip' \in [Ids -> Nat]
<1> USE DEF TypeOK
<1>1. NotSeen \in Seen /\ NoObs \in [total : Nat, covering : Nat]
  BY DEF NotSeen, Seen, NoObs
<1>2. \A d \in Ids : [amount |-> dep[d].amount, token |-> dep[d].token,
         mints |-> dep[d].mints, deliveries |-> dep[d].deliveries] \in Seen
  BY DEF Seen, Dep
<1>3. ASSUME NEW pc, NEW states, ListFor(pc, states)
      PROVE  /\ wpc' = pc /\ wcur' = NoId /\ todo' = InState(states)
             /\ todo' \subseteq Ids /\ wout' = "none" /\ seen' \in [Ids -> Seen]
  BY <1>1, <1>2, <1>3 DEF ListFor, InState
<1> QED
  BY <1>1, <1>3 DEF WorkerStop, WatchStop

\* What a step of the customer, the chain, a handler, an operator or the sweep
\* leaves alone: the two loops and the ecash issued.
LEMMA LoopsUnchanged ==
    ASSUME Customer \/ Environment \/ Handlers \/ Operate \/ ExpireStale
    PROVE  UNCHANGED <<workerVars, watchVars, minted, lost, restarts>>
<1>1. CASE Customer
  BY <1>1 DEF Customer, CreateDeposit, Pay, Drop, ClaimPickup, GetDeposit
<1>2. CASE Environment
  BY <1>2 DEF Environment, Age, Bury
<1>3. CASE Handlers
  BY <1>3 DEF Handlers, PickupNotify, PickupCount, PickupReply, PickupDropped
<1>4. CASE Operate
  BY <1>4 DEF Operate, OperateFetch, OperateWrite, SetHalt
<1>5. CASE ExpireStale
  BY <1>5 DEF ExpireStale
<1> QED
  BY <1>1, <1>2, <1>3, <1>4, <1>5

\* A step of the customer or the chain keeps the types.
LEMMA CustomerType == TypeOK /\ (Customer \/ Environment) => TypeOK'
<1> SUFFICES ASSUME TypeOK, Customer \/ Environment PROVE TypeOK'
  OBVIOUS
<1> USE DEF TypeOK
<1>1. ASSUME NEW d \in Ids, NEW amount \in Amounts, CreateDeposit(d, amount)
      PROVE  TypeOK'
  <2>1. [NoDep EXCEPT !.state = "pending", !.amount = amount, !.pickup = TRUE] \in Dep
    BY DEF NoDep, Dep, States
  <2> QED
    BY <1>1, <2>1 DEF CreateDeposit
<1>2. ASSUME NEW d \in Ids, NEW sats \in 1..MaxSats, Pay(d, sats) \/ Drop(d, sats)
      PROVE  TypeOK'
  <2>1. paid[d] + sats \in Nat /\ (sats <= paid[d] => paid[d] - sats \in Nat)
    OBVIOUS
  <2> QED
    BY <1>2, <2>1 DEF Pay, Drop
<1>3. ASSUME NEW d \in Ids, NEW p \in Pickups, ClaimPickup(p, d) PROVE TypeOK'
  <2>1. dep' \in [Ids -> Dep]
    BY <1>3, UpdatesAreRows DEF ClaimPickup
  <2>2. dep[d].token \in Nat
    BY DEF Dep
  <2> QED
    BY <1>3, <2>1, <2>2 DEF ClaimPickup
<1>4. ASSUME NEW d \in Ids, Age(d) PROVE TypeOK'
  BY <1>4 DEF Age
<1>5. ASSUME NEW d \in Ids, NEW sats \in 1..MaxSats, Bury(d, sats) PROVE TypeOK'
  BY <1>5 DEF Bury
<1>6. ASSUME NEW d \in Ids, GetDeposit(d) PROVE TypeOK'
  BY <1>6 DEF GetDeposit
<1> QED
  BY <1>1, <1>2, <1>3, <1>4, <1>5, <1>6 DEF Customer, Environment

\* A step of a handler, an operator or the sweep keeps the types.
LEMMA RequestType ==
    TypeOK /\ ControlInv /\ PickupInv /\ (Handlers \/ Operate \/ ExpireStale)
      => TypeOK'
<1> SUFFICES ASSUME TypeOK, ControlInv, PickupInv, Handlers \/ Operate \/ ExpireStale
             PROVE  TypeOK'
  OBVIOUS
<1> USE DEF TypeOK
<1>1. ASSUME NEW p \in Pickups,
             PickupNotify(p) \/ PickupCount(p) \/ PickupReply(p) \/ PickupDropped(p)
      PROVE  TypeOK'
  <2>1. pk[p].pc # "none" => pk[p].id \in Ids
    BY DEF PickupInv
  <2>2. CASE PickupNotify(p)
    <3>0. pk[p].id \in Ids
      BY <2>1, <2>2 DEF PickupNotify
    <3>1. dep' = dep \/ dep' = [dep EXCEPT ![pk[p].id] =
                                  [dep[pk[p].id] EXCEPT !.counted = TRUE]]
      BY <2>2 DEF PickupNotify
    <3>2. dep' \in [Ids -> Dep]
      <4>1. dep[pk[p].id] \in Dep
        BY <3>0
      <4>2. [dep[pk[p].id] EXCEPT !.counted = TRUE] \in Dep
        BY <4>1, UpdatesAreRows
      <4> QED
        BY <3>0, <3>1, <4>2
    <3>3. \E pc \in {"reply", "count"} : pk' = [pk EXCEPT ![p].pc = pc]
      BY <2>2 DEF PickupNotify, NextOfPickup
    <3> QED
      BY <2>2, <3>2, <3>3 DEF PickupNotify
  <2>3. CASE PickupCount(p)
    <3>1. pk[p].id \in Ids
      BY <2>1, <2>3 DEF PickupCount
    <3>2. announced' \in [Ids -> Nat]
      BY <2>3, <3>1 DEF PickupCount
    <3> QED
      BY <2>3, <3>2 DEF PickupCount
  <2>4. CASE PickupReply(p)
    BY <2>1, <2>4 DEF PickupReply, NoPickup
  <2>5. CASE PickupDropped(p)
    BY <2>5 DEF PickupDropped, NoPickup
  <2> QED
    BY <1>1, <2>2, <2>3, <2>4, <2>5
<1>2. ASSUME NEW o \in Operators, NEW d \in Ids, NEW act \in Actions,
             OperateFetch(o, d, act)
      PROVE  TypeOK'
  BY <1>2 DEF OperateFetch
<1>3. ASSUME NEW o \in Operators, OperateWrite(o) PROVE TypeOK'
  <2>1. op[o].id \in Ids /\ op[o].act \in Actions
    BY <1>3 DEF OperateWrite, ControlInv
  <2>2. dep' \in [Ids -> Dep]
    BY <1>3, <2>1, UpdatesAreRows DEF OperateWrite
  <2> QED
    BY <1>3, <2>2 DEF OperateWrite, NoAction
<1>4. CASE SetHalt
  BY <1>4 DEF SetHalt
<1>5. CASE ExpireStale
  <2>1. dep' \in [Ids -> Dep]
    BY <1>5, UpdatesAreRows DEF ExpireStale
  <2> QED
    BY <1>5, <2>1 DEF ExpireStale
<1> QED
  BY <1>1, <1>2, <1>3, <1>4, <1>5 DEF Handlers, Operate

\* A step of a loop keeps the types, and so does a restart.
LEMMA LoopType ==
    TypeOK /\ ControlInv /\ (Watcher \/ Worker \/ Restart) => TypeOK'
<1> SUFFICES ASSUME TypeOK, ControlInv, Watcher \/ Worker \/ Restart PROVE TypeOK'
  OBVIOUS
<1> USE DEF TypeOK
<1>lost. LostNow \in [Ids -> Nat]
  <2>1. ASSUME NEW d \in Ids
        PROVE  lost[d] + (IF InHand(d) THEN seen[d].amount ELSE 0) \in Nat
    BY DEF Seen
  <2> QED
    BY <2>1 DEF LostNow
<1>1. CASE WatchList
  <2>1. ctodo' \subseteq Ids /\ tip' \in [Ids -> Nat]
    BY <1>1 DEF WatchList, InState
  <2> QED
    BY <1>1, <2>1 DEF WatchList
<1>2. ASSUME NEW d \in Ids, WatchSkip(d) \/ Observe(d) PROVE TypeOK'
  <2>1. \A c \in tip[d]..deep[d] : c \in Nat
    OBVIOUS
  <2>2. Observe(d) => obs' \in [total : Nat, covering : Nat]
    BY <2>1 DEF Observe
  <2> QED
    BY <1>2, <2>2 DEF WatchSkip, Observe
<1>3. CASE WatchWrite
  <2>1. ccur \in Ids
    BY <1>3 DEF WatchWrite, ControlInv
  <2>2. dep' \in [Ids -> Dep]
    <3>1. dep' = dep \/ dep' = [dep EXCEPT ![ccur] = ChainUpdated(dep[ccur], obs)]
      BY <1>3 DEF WatchWrite
    <3>2. ChainUpdated(dep[ccur], obs) \in Dep
      BY <2>1, UpdatesAreRows
    <3> QED
      BY <2>1, <3>1, <3>2
  <2>3. NoObs \in [total : Nat, covering : Nat]
    BY DEF NoObs
  <2> QED
    BY <1>3, <2>2, <2>3, LoopMoves DEF WatchWrite
<1>4. CASE WatchEnd
  BY <1>4, LoopMoves DEF WatchEnd
<1>5. CASE StartTick \/ MintDone \/ DeliverDone
  <2>1. CASE StartTick
    BY <2>1, LoopMoves DEF StartTick
  <2>2. CASE MintDone
    BY <2>2, LoopMoves DEF MintDone
  <2>3. CASE DeliverDone
    BY <2>3, LoopMoves DEF DeliverDone
  <2> QED
    BY <1>5, <2>1, <2>2, <2>3
<1>6. ASSUME NEW d \in Ids, Mint(d) PROVE TypeOK'
  <2>1. seen[d].amount \in Nat
    BY DEF Seen
  <2> QED
    BY <1>6, <2>1 DEF Mint
<1>7. CASE RecordMint
  <2>1. wcur \in Ids
    BY <1>7 DEF RecordMint, ControlInv
  <2>2. dep' \in [Ids -> Dep]
    <3>1. dep' = dep \/ dep' = [dep EXCEPT ![wcur] =
                                  MintRecorded(dep[wcur], wout, seen[wcur])]
      BY <1>7 DEF RecordMint
    <3>2. MintRecorded(dep[wcur], wout, seen[wcur]) \in Dep
      BY <2>1, UpdatesAreRows
    <3> QED
      BY <2>1, <3>1, <3>2
  <2>3. /\ lost' \in [Ids -> Nat]
        /\ faults' \in Nat
    BY <1>7, <1>lost DEF RecordMint
  <2>4. /\ wpc' \in {"mint", "idle"} /\ wcur' = NoId /\ todo' \subseteq Ids
        /\ seen' \in [Ids -> Seen] /\ wout' = "none"
    BY <1>7, LoopMoves DEF RecordMint, NextItem
  <2> QED
    BY <1>7, <2>2, <2>3, <2>4 DEF RecordMint
<1>8. ASSUME NEW d \in Ids, Deliver(d) PROVE TypeOK'
  <2>1. dep' \in [Ids -> Dep]
    <3>1. dep' = dep \/ dep' = [dep EXCEPT ![d] = Delivered(dep[d], seen[d])]
      BY <1>8 DEF Deliver
    <3>2. Delivered(dep[d], seen[d]) \in Dep
      BY UpdatesAreRows
    <3> QED
      BY <3>1, <3>2
  <2>2. /\ wpc' \in {"deliver", "idle"} /\ wcur' \in Ids \cup {NoId}
        /\ todo' \subseteq Ids /\ seen' \in [Ids -> Seen]
        /\ wout' \in {"none", "minted", "error"} /\ faults' \in Nat
    BY <1>8, LoopMoves DEF Deliver
  <2> QED
    BY <1>8, <2>1, <2>2 DEF Deliver
<1>9. CASE Restart
  <2>1. /\ pk' \in [Pickups -> [pc : {"none", "notify", "count", "reply"},
                                id : Ids \cup {NoId}]]
        /\ op' \in [Operators -> [act : Actions \cup {"none"}, id : Ids \cup {NoId}]]
    BY <1>9 DEF Restart, NoPickup, NoAction
  <2> QED
    BY <1>9, <1>lost, <2>1, LoopMoves DEF Restart
<1> QED
  BY <1>1, <1>2, <1>3, <1>4, <1>5, <1>6, <1>7, <1>8, <1>9 DEF Watcher, Worker

\* Every step keeps the types.
LEMMA NextType == TypeOK /\ ControlInv /\ PickupInv /\ [Next]_vars => TypeOK'
<1> SUFFICES ASSUME TypeOK, ControlInv, PickupInv, [Next]_vars PROVE TypeOK'
  OBVIOUS
<1>1. UNCHANGED vars => TypeOK'
  BY DEF TypeOK
<1> QED
  BY <1>1, CustomerType, RequestType, LoopType DEF Next

(***************************************************************************)
(* What the updates do to the fields the invariant is about.               *)
(***************************************************************************)

\* Every update by id, field by field.
LEMMA UpdatedFields ==
    ASSUME NEW r \in Dep
    PROVE  /\ Claimed(r).state = "fulfilled" /\ Claimed(r).token = 0
           /\ ~Claimed(r).pickup
           /\ \A act \in Actions :
                /\ ManualUpdate(r, act).state \in {"fulfilled", "failed", "archived"}
                /\ ManualUpdate(r, act).token = r.token
                /\ ManualUpdate(r, act).amount = r.amount
                /\ ManualUpdate(r, act).pickup = r.pickup
                /\ ManualUpdate(r, act).state = "fulfilled" => act = "MarkFulfilled"
           /\ \A o \in [total : Nat, covering : Nat] :
                /\ ChainUpdated(r, o).state \in {"partial", "confirming", "minting"}
                /\ ChainUpdated(r, o).token = r.token
                /\ ChainUpdated(r, o).pickup = r.pickup
                /\ ChainUpdated(r, o).amount >= r.amount
                /\ ChainUpdated(r, o).state = "minting" =>
                     ChainUpdated(r, o).amount = o.covering
<1>1. /\ Claimed(r).state = "fulfilled" /\ Claimed(r).token = 0
      /\ ~Claimed(r).pickup
  BY DEF Claimed, Dep
<1>2. ASSUME NEW act \in Actions
      PROVE  /\ ManualUpdate(r, act).state \in {"fulfilled", "failed", "archived"}
             /\ ManualUpdate(r, act).token = r.token
             /\ ManualUpdate(r, act).amount = r.amount
             /\ ManualUpdate(r, act).pickup = r.pickup
             /\ ManualUpdate(r, act).state = "fulfilled" => act = "MarkFulfilled"
  BY <1>2 DEF ManualUpdate, Actions, Dep
<1>3. ASSUME NEW o \in [total : Nat, covering : Nat]
      PROVE  /\ ChainUpdated(r, o).state \in {"partial", "confirming", "minting"}
             /\ ChainUpdated(r, o).token = r.token
             /\ ChainUpdated(r, o).pickup = r.pickup
             /\ ChainUpdated(r, o).amount >= r.amount
             /\ ChainUpdated(r, o).state = "minting" =>
                  ChainUpdated(r, o).amount = o.covering
  <2>1. r.amount \in Nat /\ o.covering \in Nat
    BY DEF Dep
  <2>2. CASE o.total < r.amount
    BY <2>1, <2>2 DEF ChainUpdated, ChainState, Dep
  <2>3. CASE ~(o.total < r.amount) /\ o.covering >= r.amount
    <3>1. ChainState(r.amount, o) = "minting"
      BY <2>3 DEF ChainState
    <3>2. o.covering > r.amount \/ o.covering = r.amount
      BY <2>1, <2>3
    <3> QED
      BY <2>1, <2>3, <3>1, <3>2 DEF ChainUpdated, Dep
  <2>4. CASE ~(o.total < r.amount) /\ ~(o.covering >= r.amount)
    BY <2>1, <2>4 DEF ChainUpdated, ChainState, Dep
  <2> QED
    BY <2>2, <2>3, <2>4
<1> QED
  BY <1>1, <1>2, <1>3

\* The worker's updates, field by field.
LEMMA WorkerFields ==
    ASSUME NEW r \in Dep, NEW s \in Seen
    PROVE  /\ MintRecorded(r, "minted", s).state = "delivering"
           /\ MintRecorded(r, "minted", s).token = s.amount
           /\ MintRecorded(r, "error", s).state \in {"failed", "minting"}
           /\ MintRecorded(r, "error", s).token = r.token
           /\ \A res : /\ MintRecorded(r, res, s).amount = r.amount
                       /\ MintRecorded(r, res, s).pickup = r.pickup
           /\ s.token > 0 => Delivered(r, s).state = "ready"
           /\ Delivered(r, s).token = r.token
           /\ Delivered(r, s).amount = r.amount
           /\ Delivered(r, s).pickup = r.pickup
<1>1. /\ MintRecorded(r, "minted", s).state = "delivering"
      /\ MintRecorded(r, "minted", s).token = s.amount
  BY DEF MintRecorded, Dep
<1>2. /\ MintRecorded(r, "error", s).state \in {"failed", "minting"}
      /\ MintRecorded(r, "error", s).token = r.token
  BY DEF MintRecorded, Dep
<1>3. ASSUME NEW res
      PROVE  /\ MintRecorded(r, res, s).amount = r.amount
             /\ MintRecorded(r, res, s).pickup = r.pickup
  BY DEF MintRecorded, Dep
<1>4. /\ s.token > 0 => Delivered(r, s).state = "ready"
      /\ Delivered(r, s).token = r.token
      /\ Delivered(r, s).amount = r.amount
      /\ Delivered(r, s).pickup = r.pickup
  BY DEF Delivered, Dep
<1> QED
  BY <1>1, <1>2, <1>3, <1>4

(***************************************************************************)
(* Control: the loops know their rows, and depths only grow.               *)
(***************************************************************************)

\* No row disappears, and no deep transaction becomes shallow.
LEMMA Advance ==
    ASSUME TypeOK, ControlInv, PickupInv, [Next]_vars, NEW d \in Ids
    PROVE  /\ dep[d].state # "absent" => dep'[d].state # "absent"
           /\ deep'[d] >= deep[d]
<1>1. deep'[d] >= deep[d]
  <2>1. ASSUME NEW e \in Ids, NEW sats \in 1..MaxSats, Bury(e, sats)
        PROVE  deep'[d] >= deep[d]
    BY <2>1 DEF TypeOK, Bury
  <2>2. deep' = deep => deep'[d] >= deep[d]
    BY DEF TypeOK
  <2>3. \/ deep' = deep
        \/ \E e \in Ids, sats \in 1..MaxSats : Bury(e, sats)
    BY DEF Next, Customer, CreateDeposit, Pay, Drop, ClaimPickup, GetDeposit, Environment, Age,
       Handlers, PickupNotify, PickupCount, PickupReply, PickupDropped, Operate,
       OperateFetch, OperateWrite, SetHalt, ExpireStale, Watcher, WatchList,
       WatchSkip, Observe, WatchWrite, WatchEnd, Worker, StartTick, Mint,
       RecordMint, MintDone, Deliver, DeliverDone, Restart
  <2> QED
    BY <2>1, <2>2, <2>3
<1>2. dep[d].state # "absent" => dep'[d].state # "absent"
  <2> SUFFICES ASSUME dep[d].state # "absent", dep' # dep
               PROVE  dep'[d].state # "absent"
    OBVIOUS
  <2>typ. dep \in [Ids -> Dep] /\ seen \in [Ids -> Seen]
    BY DEF TypeOK
  <2>1. ASSUME NEW e \in Ids, NEW amount \in Amounts, CreateDeposit(e, amount)
        PROVE  dep'[d].state # "absent"
    BY <2>1, <2>typ DEF CreateDeposit
  <2>2. ASSUME NEW e \in Ids, NEW p \in Pickups, ClaimPickup(p, e)
        PROVE  dep'[d].state # "absent"
    BY <2>2, <2>typ, UpdatedFields DEF ClaimPickup
  <2>3. ASSUME NEW p \in Pickups, PickupNotify(p) PROVE dep'[d].state # "absent"
    BY <2>3, <2>typ DEF PickupNotify, Dep
  <2>4. ASSUME NEW o \in Operators, OperateWrite(o) PROVE dep'[d].state # "absent"
    BY <2>4, <2>typ, UpdatedFields DEF OperateWrite, ControlInv
  <2>5. CASE ExpireStale
    BY <2>5, <2>typ DEF ExpireStale, Dep
  <2>6. CASE WatchWrite
    <3>1. ccur \in Ids /\ obs \in [total : Nat, covering : Nat]
      BY <2>6 DEF WatchWrite, ControlInv, TypeOK
    <3>2. dep' = [dep EXCEPT ![ccur] = ChainUpdated(dep[ccur], obs)]
      BY <2>6 DEF WatchWrite
    <3>3. ChainUpdated(dep[ccur], obs).state # "absent"
      BY <3>1, <2>typ, UpdatedFields
    <3> QED
      BY <3>1, <3>2, <3>3, <2>typ
  <2>7. CASE RecordMint
    <3>1. wcur \in Ids /\ wout \in {"minted", "error"}
      BY <2>7 DEF RecordMint, ControlInv
    <3>2. dep' = [dep EXCEPT ![wcur] = MintRecorded(dep[wcur], wout, seen[wcur])]
      BY <2>7 DEF RecordMint
    <3>3. MintRecorded(dep[wcur], wout, seen[wcur]).state # "absent"
      BY <3>1, <2>typ, WorkerFields
    <3> QED
      BY <3>1, <3>2, <3>3, <2>typ
  <2>8. ASSUME NEW e \in Ids, Deliver(e) PROVE dep'[d].state # "absent"
    <3>1. dep' = [dep EXCEPT ![e] = Delivered(dep[e], seen[e])]
      BY <2>8 DEF Deliver
    <3>2. Delivered(dep[e], seen[e]).state # "absent"
      BY <2>typ DEF Delivered, Dep
    <3> QED
      BY <3>1, <3>2, <2>typ
  <2> QED
    BY <2>1, <2>2, <2>3, <2>4, <2>5, <2>6, <2>7, <2>8
    DEF Next, Customer, Pay, Drop, GetDeposit, Environment, Age, Bury,
       Handlers, PickupCount, PickupReply, PickupDropped, Operate,
       OperateFetch, SetHalt, Watcher, WatchList,
       WatchSkip, Observe, WatchEnd, Worker, StartTick, Mint,
       MintDone, DeliverDone, Restart
<1> QED
  BY <1>1, <1>2

\* The steps that touch the chain, the operators' requests and the loops'
\* control: any other step leaves all of it alone.
LEMMA NextControl ==
    ASSUME TypeOK, ControlInv, PickupInv, [Next]_vars
    PROVE  ControlInv'
<1> USE DEF ControlInv
<1>typ. /\ deep \in [Ids -> Nat] /\ paid \in [Ids -> Nat] /\ tip \in [Ids -> Nat]
        /\ op \in [Operators -> [act : Actions \cup {"none"}, id : Ids \cup {NoId}]]
        /\ obs \in [total : Nat, covering : Nat]
  BY DEF TypeOK
<1>dep. \A d \in Ids : /\ dep[d].state # "absent" => dep'[d].state # "absent"
                       /\ deep'[d] >= deep[d]
  BY Advance
<1>deep. deep' \in [Ids -> Nat]
  BY NextType DEF TypeOK
<1>1. wpc' = "record" => wcur' \in Ids \ todo' /\ wout' \in {"minted", "error"}
  <2>1. ASSUME NEW d \in Ids, Mint(d)
        PROVE  wcur' \in Ids \ todo' /\ wout' \in {"minted", "error"}
    BY <2>1 DEF Mint
  <2>2. CASE UNCHANGED <<wpc, wcur, todo, wout>>
    BY <2>2
  <2>3. CASE Customer \/ Environment \/ Handlers \/ Operate \/ ExpireStale
    BY <2>3, <2>2, LoopsUnchanged
  <2>4. CASE Watcher
    BY <2>4, <2>2 DEF Watcher, WatchList, WatchSkip, Observe, WatchWrite, WatchEnd
  <2>5. StartTick \/ MintDone \/ DeliverDone \/ RecordMint \/ Restart => wpc' # "record"
    BY DEF StartTick, MintDone, ListFor, DeliverDone, WorkerStop, RecordMint,
       NextItem, Restart
  <2>6. ASSUME NEW d \in Ids, Deliver(d) PROVE wpc' # "record"
    BY <2>6 DEF Deliver, WorkerStop
  <2> QED
    BY <2>1, <2>2, <2>3, <2>4, <2>5, <2>6 DEF Next, Worker
<1>2. cpc' = "write" => ccur' \in Ids \ ctodo' /\ obs'.covering <= deep'[ccur']
  <2>1. ASSUME NEW d \in Ids, Observe(d)
        PROVE  ccur' \in Ids \ ctodo' /\ obs'.covering <= deep'[ccur']
    BY <2>1, <1>typ DEF Observe
  <2>2. CASE UNCHANGED <<cpc, ccur, ctodo, obs>>
    BY <2>2, <1>typ, <1>dep, <1>deep
  <2>3. CASE Customer \/ Environment \/ Handlers \/ Operate \/ ExpireStale
    BY <2>3, <2>2, LoopsUnchanged
  <2>4. CASE Worker
    BY <2>4, <2>2 DEF Worker, StartTick, Mint, RecordMint, MintDone, Deliver,
       DeliverDone
  <2>5. WatchList \/ WatchWrite \/ WatchEnd \/ Restart => cpc' # "write"
    BY DEF WatchList, WatchWrite, WatchEnd, WatchStop, Restart
  <2>6. ASSUME NEW d \in Ids, WatchSkip(d) PROVE cpc' # "write"
    BY <2>6 DEF WatchSkip
  <2> QED
    BY <2>1, <2>2, <2>3, <2>4, <2>5, <2>6 DEF Next, Watcher
<1>3. \A d \in Ids : tip'[d] <= deep'[d]
  <2>1. CASE tip' = tip
    BY <2>1, <1>typ, <1>dep, <1>deep
  <2>2. CASE \A d \in Ids : tip'[d] = 0 \/ (tip'[d] = deep[d])
    BY <2>2, <1>typ, <1>dep, <1>deep
  <2>3. CASE Customer \/ Environment \/ Handlers \/ Operate \/ ExpireStale
    BY <2>3, <2>1, LoopsUnchanged
  <2>4. CASE Worker
    BY <2>4, <2>1 DEF Worker, StartTick, Mint, RecordMint, MintDone, Deliver,
       DeliverDone
  <2>5. CASE WatchList \/ WatchEnd \/ WatchWrite \/ Restart
    BY <2>5, <2>1, <2>2 DEF WatchList, WatchEnd, WatchWrite, WatchStop, Restart
  <2>6. ASSUME NEW d \in Ids, WatchSkip(d) \/ Observe(d)
        PROVE  \A e \in Ids : tip'[e] <= deep'[e]
    BY <2>6, <2>1 DEF WatchSkip, Observe
  <2> QED
    BY <2>1, <2>3, <2>4, <2>5, <2>6 DEF Next, Watcher
<1>4. \A d \in Ids : deep'[d] <= paid'[d]
  <2>1. ASSUME NEW d \in Ids, NEW sats \in 1..MaxSats,
               Pay(d, sats) \/ Drop(d, sats) \/ Bury(d, sats)
        PROVE  \A e \in Ids : deep'[e] <= paid'[e]
    BY <2>1, <1>typ DEF Pay, Drop, Bury
  <2>2. CASE UNCHANGED <<deep, paid>>
    BY <2>2
  <2>3. ASSUME NEW d \in Ids, GetDeposit(d) PROVE UNCHANGED <<deep, paid>>
    BY <2>3 DEF GetDeposit
  <2> QED
    BY <2>1, <2>2, <2>3
    DEF Next, Customer, CreateDeposit, ClaimPickup, Environment, Age,
       Handlers, PickupNotify, PickupCount, PickupReply, PickupDropped, Operate,
       OperateFetch, OperateWrite, SetHalt, ExpireStale, Watcher, WatchList,
       WatchSkip, Observe, WatchWrite, WatchEnd, Worker, StartTick, Mint,
       RecordMint, MintDone, Deliver, DeliverDone, Restart
<1>5. \A o \in Operators : op'[o] # NoAction =>
        op'[o].act \in Actions /\ op'[o].id \in Ids /\ dep'[op'[o].id].state # "absent"
  <2>1. ASSUME NEW p \in Operators, NEW d \in Ids, NEW act \in Actions,
               OperateFetch(p, d, act), NEW o \in Operators, op'[o] # NoAction
        PROVE  op'[o].act \in Actions /\ op'[o].id \in Ids
                 /\ dep'[op'[o].id].state # "absent"
    BY <2>1, <1>typ DEF OperateFetch
  <2>2. CASE \A o \in Operators : op'[o] \in {op[o], NoAction}
    BY <2>2, <1>typ, <1>dep
  <2>3. ASSUME NEW o \in Operators, OperateWrite(o)
        PROVE  \A p \in Operators : op'[p] \in {op[p], NoAction}
    BY <2>3, <1>typ DEF OperateWrite
  <2>4. Restart => \A p \in Operators : op'[p] \in {op[p], NoAction}
    BY DEF Restart
  <2>5. CASE op' = op
    BY <2>5, <2>2
  <2> QED
    BY <2>1, <2>2, <2>3, <2>4, <2>5
    DEF Next, Customer, CreateDeposit, Pay, Drop, ClaimPickup, GetDeposit, Environment, Age,
       Bury, Handlers, PickupNotify, PickupCount, PickupReply, PickupDropped,
       Operate, SetHalt, ExpireStale, Watcher, WatchList, WatchSkip, Observe,
       WatchWrite, WatchEnd, Worker, StartTick, Mint, RecordMint, MintDone,
       Deliver, DeliverDone
<1> QED
  BY <1>1, <1>2, <1>3, <1>4, <1>5

(***************************************************************************)
(* Pickups: one claim, one response, one announcement.                     *)
(***************************************************************************)

\* A claim is made by ClaimPickup alone, and of a row without one.
LEMMA ClaimsMove ==
    ASSUME [Next]_vars, UNCHANGED claims => FALSE
    PROVE  \E d \in Ids, p \in Pickups : ClaimPickup(p, d)
BY DEF Next, Customer, CreateDeposit, Pay, Drop, GetDeposit, Environment, Age,
       Bury, Handlers, PickupNotify, PickupCount, PickupReply, PickupDropped,
       Operate, OperateFetch, OperateWrite, SetHalt, ExpireStale, Watcher,
       WatchList, WatchSkip, Observe, WatchWrite, WatchEnd, Worker, StartTick,
       Mint, RecordMint, MintDone, Deliver, DeliverDone, Restart

\* Requests in flight stay the only ones that claimed their deposits.
LEMMA NextPickup ==
    ASSUME TypeOK, PickupInv, [Next]_vars
    PROVE  PickupInv'
<1>typ. /\ claims \in [Ids -> Nat] /\ served \in [Ids -> Nat]
        /\ announced \in [Ids -> Nat] /\ dep \in [Ids -> Dep]
        /\ pk \in [Pickups -> [pc : {"none", "notify", "count", "reply"},
                               id : Ids \cup {NoId}]]
  BY DEF TypeOK
<1>1. ASSUME NEW p \in Pickups, NEW d \in Ids, ClaimPickup(p, d) PROVE PickupInv'
  <2>1. /\ claims[d] = 0 /\ served[d] = 0 /\ announced[d] = 0
        /\ \A q \in Pickups : pk[q].pc # "none" => pk[q].id # d
    BY <1>1, <1>typ DEF ClaimPickup, Claimable, PickupInv
  <2>2. dep[d].token > 0 /\ dep[d].token \in Nat
    BY <1>1, <1>typ DEF ClaimPickup, Claimable, Dep
  <2> QED
    BY <1>1, <1>typ, <2>1, <2>2 DEF ClaimPickup, PickupInv, NoPickup
<1>2. ASSUME NEW p \in Pickups, PickupNotify(p) PROVE PickupInv'
  <2>1. \E pc \in {"reply", "count"} : pk' = [pk EXCEPT ![p].pc = pc]
    BY <1>2 DEF PickupNotify, NextOfPickup
  <2>2. UNCHANGED <<claims, served, announced>> /\ pk[p].pc = "notify"
    BY <1>2 DEF PickupNotify
  <2> QED
    BY <1>typ, <2>1, <2>2 DEF PickupInv
<1>3. ASSUME NEW p \in Pickups, PickupCount(p) PROVE PickupInv'
  <2>1. /\ pk[p].pc = "count" /\ pk' = [pk EXCEPT ![p].pc = "reply"]
        /\ \/ announced' = announced
           \/ announced' = [announced EXCEPT ![pk[p].id] = @ + 1]
        /\ UNCHANGED <<claims, served>>
    BY <1>3 DEF PickupCount
  <2> QED
    BY <1>typ, <2>1 DEF PickupInv
<1>4. ASSUME NEW p \in Pickups, PickupReply(p) PROVE PickupInv'
  <2>1. /\ pk[p].pc = "reply" /\ pk' = [pk EXCEPT ![p] = NoPickup]
        /\ served' = [served EXCEPT ![pk[p].id] = @ + 1]
        /\ UNCHANGED <<claims, announced>>
    BY <1>4 DEF PickupReply
  <2> QED
    BY <1>typ, <2>1 DEF PickupInv, NoPickup
<1>5. CASE /\ UNCHANGED <<claims, served, announced>>
           /\ \A p \in Pickups : pk'[p] \in {pk[p], NoPickup}
  BY <1>5, <1>typ DEF PickupInv, NoPickup
<1>6. ASSUME NEW p \in Pickups, PickupDropped(p) PROVE PickupInv'
  BY <1>6, <1>5, <1>typ DEF PickupDropped
<1>7. CASE Restart
  BY <1>7, <1>5 DEF Restart
<1>8. CASE UNCHANGED <<claims, served, announced, pk>>
  BY <1>8, <1>5
<1> QED
  BY <1>1, <1>2, <1>3, <1>4, <1>6, <1>7, <1>8
  DEF Next, Customer, CreateDeposit, Pay, Drop, GetDeposit, Environment, Age,
       Bury, Handlers, Operate, OperateFetch, OperateWrite, SetHalt, ExpireStale,
       Watcher, WatchList, WatchSkip, Observe, WatchWrite, WatchEnd, Worker,
       StartTick, Mint, RecordMint, MintDone, Deliver, DeliverDone

(***************************************************************************)
(* Rows and lists.                                                         *)
(***************************************************************************)

\* A deposit gets into the hands of a loop by being listed in the right state,
\* and what the loop read of it stays as it was.
LEMMA ListsMove ==
    ASSUME TypeOK, ControlInv, [Next]_vars, NEW d \in Ids
    PROVE  /\ Watched(d)' => Watched(d) \/ (dep[d].state \in Open /\ dep' = dep)
           /\ ToMint(d)' =>
                \/ ToMint(d) /\ seen'[d] = seen[d]
                \/ /\ dep[d].state = "minting" /\ dep' = dep /\ claims' = claims
                   /\ seen'[d].amount = dep[d].amount
           /\ ToDeliver(d)' =>
                \/ ToDeliver(d) /\ seen'[d] = seen[d]
                \/ /\ dep[d].state = "delivering" /\ dep' = dep /\ claims' = claims
                   /\ seen'[d].token = dep[d].token
<1> USE DEF Watched, ToMint, ToDeliver
<1>w. UNCHANGED <<cpc, ccur, ctodo>> => (Watched(d)' <=> Watched(d))
  OBVIOUS
<1>m. UNCHANGED workerVars => /\ ToMint(d)' <=> ToMint(d)
                              /\ ToDeliver(d)' <=> ToDeliver(d)
                              /\ seen' = seen
  OBVIOUS
<1>1. CASE Customer \/ Environment \/ Handlers \/ Operate \/ ExpireStale
  BY <1>1, <1>w, <1>m, LoopsUnchanged
<1>2. CASE Watcher
  <2>1. UNCHANGED workerVars
    BY <1>2 DEF Watcher, WatchList, WatchSkip, Observe, WatchWrite, WatchEnd
  <2>2. CASE WatchList
    BY <1>m, <2>1, <2>2 DEF WatchList, InState, Open
  <2>3. CASE (\E e \in Ids : WatchSkip(e) \/ Observe(e))
    BY <1>m, <2>1, <2>3 DEF WatchSkip, Observe
  <2>4. CASE WatchWrite \/ WatchEnd
    BY <1>m, <2>1, <2>4 DEF WatchWrite, WatchEnd, WatchStop
  <2> QED
    BY <1>2, <2>2, <2>3, <2>4 DEF Watcher
<1>3. CASE Worker
  <2>1. UNCHANGED <<cpc, ccur, ctodo>>
    BY <1>3 DEF Worker, StartTick, Mint, RecordMint, MintDone, Deliver, DeliverDone
  <2>2. CASE StartTick
    <3>1. wpc' = "mint" /\ todo' = InState({"minting"}) /\ dep' = dep /\ claims' = claims
      BY <2>2 DEF StartTick, ListFor
    <3>2. d \in todo' => dep[d].state = "minting" /\ seen'[d].amount = dep[d].amount
      BY <2>2 DEF StartTick, ListFor, InState
    <3> QED
      BY <1>w, <2>1, <3>1, <3>2
  <2>3. CASE MintDone
    <3>1. wpc' = "deliver" /\ dep' = dep /\ claims' = claims
      BY <2>3 DEF MintDone, ListFor
    <3>2. d \in todo' => dep[d].state = "delivering" /\ seen'[d].token = dep[d].token
      BY <2>3 DEF MintDone, ListFor, InState
    <3> QED
      BY <1>w, <2>1, <3>1, <3>2
  <2>4. CASE \E e \in Ids : Mint(e)
    BY <1>w, <2>1, <2>4 DEF Mint
  <2>5. CASE RecordMint
    BY <1>w, <2>1, <2>5 DEF RecordMint, NextItem, WorkerStop
  <2>6. CASE \E e \in Ids : Deliver(e)
    BY <1>w, <2>1, <2>6 DEF Deliver, WorkerStop
  <2>7. CASE DeliverDone
    BY <1>w, <2>1, <2>7 DEF DeliverDone, WorkerStop
  <2> QED
    BY <1>3, <2>2, <2>3, <2>4, <2>5, <2>6, <2>7 DEF Worker
<1>4. CASE Restart
  BY <1>4 DEF Restart, WorkerStop, WatchStop
<1>5. CASE UNCHANGED vars
  BY <1>5, <1>w, <1>m
<1> QED
  BY <1>1, <1>2, <1>3, <1>4, <1>5 DEF Next

\* The money side of row d is the same before and after.
SameMoney(d) ==
    /\ dep'[d].token = dep[d].token /\ dep'[d].amount = dep[d].amount
    /\ dep'[d].pickup = dep[d].pickup /\ claims'[d] = claims[d]

\* A row is the same, closed by an operator or the sweep, or it is the one row
\* the step is about; it is closed as fulfilled by an operator only.
LEMMA RowMoves ==
    ASSUME TypeOK, ControlInv, PickupInv, [Next]_vars, NEW d \in Ids
    PROVE  \/ SameMoney(d) /\ dep'[d].state = dep[d].state
           \/ /\ SameMoney(d) /\ dep[d].state # "absent"
              /\ dep'[d].state \in {"fulfilled", "failed", "archived"}
              /\ dep'[d].state = "fulfilled" => d \in byHand'
           \/ \E amount \in Amounts : CreateDeposit(d, amount)
           \/ \E p \in Pickups : ClaimPickup(p, d)
           \/ WatchWrite /\ d = ccur
           \/ RecordMint /\ d = wcur
           \/ Deliver(d)
<1> DEFINE Same == SameMoney(d) /\ dep'[d].state = dep[d].state
<1>typ. dep \in [Ids -> Dep]
  BY DEF TypeOK
<1>1. dep'[d] = dep[d] /\ claims' = claims => Same
  BY DEF SameMoney
<1>2. ASSUME NEW e \in Ids, NEW amount \in Amounts, CreateDeposit(e, amount)
      PROVE  e = d \/ Same
  BY <1>2, <1>1, <1>typ DEF CreateDeposit
<1>3. ASSUME NEW e \in Ids, NEW p \in Pickups, ClaimPickup(p, e), e # d
      PROVE  Same
  BY <1>3, <1>typ DEF ClaimPickup, TypeOK, SameMoney
<1>4. ASSUME NEW p \in Pickups, PickupNotify(p) PROVE Same
  BY <1>4, <1>1, <1>typ DEF PickupNotify, SameMoney, Dep
<1>5. ASSUME NEW o \in Operators, OperateWrite(o)
      PROVE  Same \/ /\ SameMoney(d) /\ dep[d].state # "absent"
                     /\ dep'[d].state \in {"fulfilled", "failed", "archived"}
                     /\ dep'[d].state = "fulfilled" => d \in byHand'
  <2>1. op[o].id \in Ids /\ op[o].act \in Actions /\ dep[op[o].id].state # "absent"
    BY <1>5 DEF OperateWrite, ControlInv
  <2>2. /\ dep' = [dep EXCEPT ![op[o].id] = ManualUpdate(dep[op[o].id], op[o].act)]
        /\ claims' = claims
    BY <1>5 DEF OperateWrite
  <2>3. CASE op[o].id = d
    <3>1. dep'[d] = ManualUpdate(dep[d], op[o].act)
      BY <1>typ, <2>1, <2>2, <2>3
    <3>2. op[o] = [act |-> op[o].act, id |-> d]
      BY <2>3 DEF TypeOK
    <3>3. dep'[d].state = "fulfilled" => d \in byHand'
      BY <1>5, <1>typ, <2>1, <3>1, <3>2, UpdatedFields DEF OperateWrite
    <3> QED
      BY <1>typ, <2>1, <2>2, <3>1, <3>3, UpdatedFields DEF SameMoney
  <2> QED
    BY <1>1, <1>typ, <2>1, <2>2, <2>3
<1>6. CASE ExpireStale
  <2>1. /\ dep'[d] = IF d \in Stale THEN [dep[d] EXCEPT !.state = "failed"] ELSE dep[d]
        /\ claims' = claims
    BY <1>6 DEF ExpireStale
  <2>2. d \in Stale => dep[d].state # "absent"
    BY DEF Stale, InState
  <2> QED
    BY <1>1, <1>typ, <2>1, <2>2 DEF SameMoney, Dep
<1>7. CASE WatchWrite /\ d # ccur
  BY <1>7, <1>1, <1>typ DEF WatchWrite
<1>8. CASE RecordMint /\ d # wcur
  BY <1>8, <1>1, <1>typ DEF RecordMint
<1>9. ASSUME NEW e \in Ids, Deliver(e), e # d PROVE Same
  BY <1>9, <1>1, <1>typ DEF Deliver
<1>10. CASE UNCHANGED <<dep, claims>>
  BY <1>10, <1>1
<1> QED
  BY <1>2, <1>3, <1>4, <1>5, <1>6, <1>7, <1>8, <1>9, <1>10
  DEF Next, Customer, Pay, Drop, GetDeposit, Environment, Age,
       Bury, Handlers, PickupCount, PickupReply, PickupDropped, Operate,
       OperateFetch, SetHalt, Watcher, WatchList, WatchSkip, Observe,
       WatchEnd, Worker, StartTick, Mint, MintDone, DeliverDone, Restart

\* What a row says of its money, and what the lists say of the row, stays true.
LEMMA NextRows ==
    ASSUME TypeOK, ControlInv, PickupInv, [Next]_vars,
           NEW d \in Ids, RowInv(d), ListInv(d)
    PROVE  RowInv(d)' /\ ListInv(d)'
<1> USE DEF Open
<1>typ. /\ dep \in [Ids -> Dep] /\ dep' \in [Ids -> Dep]
        /\ claims \in [Ids -> Nat] /\ claims' \in [Ids -> Nat]
        /\ deep \in [Ids -> Nat] /\ deep' \in [Ids -> Nat]
        /\ seen \in [Ids -> Seen] /\ seen' \in [Ids -> Seen]
        /\ obs \in [total : Nat, covering : Nat]
  BY NextType DEF TypeOK
<1>num. /\ dep[d].token \in Nat /\ dep[d].amount \in Nat /\ claims[d] \in Nat
        /\ deep[d] \in Nat /\ deep'[d] \in Nat /\ seen[d].amount \in Nat
        /\ seen'[d].amount \in Nat /\ dep'[d].token \in Nat
        /\ dep'[d].amount \in Nat /\ claims'[d] \in Nat
        /\ deep'[d] >= deep[d]
  BY <1>typ, Advance DEF Dep, Seen
<1>inv. RowInv(d) /\ ListInv(d)
  OBVIOUS
<1>1. CASE SameMoney(d) /\ dep'[d].state = dep[d].state
  <2>1. RowInv(d)'
    BY <1>1, <1>num, <1>inv DEF RowInv, Blank, Unclaimed, SameMoney
  <2>2. Watched(d)' => /\ Blank(d)' /\ dep'[d].amount > 0
                       /\ dep'[d].state \notin {"absent", "minting"}
                       /\ ~ToMint(d)'
    <3>1. Watched(d)' => /\ Blank(d) /\ dep[d].amount > 0
                         /\ dep[d].state \notin {"absent", "minting"} /\ ~ToMint(d)
      BY <1>inv, ListsMove DEF RowInv, ListInv
    <3> QED
      BY <3>1, <1>1, ListsMove DEF SameMoney, Blank
  <2>3. ToMint(d)' => /\ Blank(d)' /\ dep'[d].state \notin Open \cup {"absent"}
                      /\ seen'[d].amount = dep'[d].amount
                      /\ dep'[d].amount \in 1..deep'[d]
    <3>1. ToMint(d)' => /\ Blank(d) /\ dep[d].state \notin Open \cup {"absent"}
                        /\ seen'[d].amount = dep[d].amount
                        /\ dep[d].amount > 0 /\ dep[d].amount <= deep[d]
      BY <1>inv, <1>num, ListsMove DEF RowInv, ListInv
    <3> QED
      BY <3>1, <1>1, <1>num DEF SameMoney, Blank
  <2>4. ToDeliver(d)' => /\ Unclaimed(d)' /\ seen'[d].token > 0
                         /\ dep'[d].state \notin {"absent", "ready"}
    <3>1. ToDeliver(d)' => /\ Unclaimed(d) /\ seen'[d].token > 0
                           /\ dep[d].state \notin {"absent", "ready"}
      BY <1>inv, <1>num, ListsMove DEF RowInv, ListInv, Unclaimed
    <3> QED
      BY <3>1, <1>1 DEF SameMoney, Unclaimed
  <2> QED
    BY <2>1, <2>2, <2>3, <2>4 DEF ListInv
<1>2. CASE /\ SameMoney(d) /\ dep[d].state # "absent"
           /\ dep'[d].state \in {"fulfilled", "failed", "archived"}
           /\ dep'[d].state # dep[d].state
  <2>1. RowInv(d)'
    BY <1>2, <1>num, <1>inv DEF RowInv, SameMoney
  <2>2. Watched(d)' => Watched(d)
    BY <1>2, ListsMove
  <2>3. ToMint(d)' => ToMint(d) /\ seen'[d] = seen[d]
    BY <1>2, ListsMove
  <2>4. ToDeliver(d)' => ToDeliver(d) /\ seen'[d] = seen[d]
    BY <1>2, ListsMove
  <2>5. Watched(d)' => /\ Blank(d)' /\ dep'[d].amount > 0
                       /\ dep'[d].state \notin {"absent", "minting"}
                       /\ ~ToMint(d)'
    BY <1>2, <1>inv, <2>2, <2>3 DEF ListInv, SameMoney, Blank
  <2>6. ToMint(d)' => /\ Blank(d)' /\ dep'[d].state \notin Open \cup {"absent"}
                      /\ seen'[d].amount = dep'[d].amount
                      /\ dep'[d].amount \in 1..deep'[d]
    BY <1>2, <1>inv, <1>num, <2>3 DEF ListInv, SameMoney, Blank
  <2>7. ToDeliver(d)' => /\ Unclaimed(d)' /\ seen'[d].token > 0
                         /\ dep'[d].state \notin {"absent", "ready"}
    BY <1>2, <1>inv, <2>4 DEF ListInv, SameMoney, Unclaimed
  <2> QED
    BY <2>1, <2>5, <2>6, <2>7 DEF ListInv
<1>3. ASSUME NEW amount \in Amounts, CreateDeposit(d, amount)
      PROVE  RowInv(d)' /\ ListInv(d)'
  <2>1. dep[d].state = "absent" /\ claims' = claims
    BY <1>3 DEF CreateDeposit
  <2>2. /\ dep'[d].state = "pending" /\ dep'[d].token = 0
        /\ dep'[d].amount = amount /\ dep'[d].pickup
    BY <1>3, <1>typ DEF CreateDeposit, NoDep
  <2>3. ~Watched(d)' /\ ~ToMint(d)' /\ ~ToDeliver(d)'
    BY <2>1, <1>inv, ListsMove DEF ListInv
  <2> QED
    BY <1>num, <1>inv, <2>1, <2>2, <2>3 DEF RowInv, ListInv, Blank
<1>4. ASSUME NEW p \in Pickups, ClaimPickup(p, d) PROVE RowInv(d)' /\ ListInv(d)'
  <2>1. /\ dep[d].state = "ready" /\ dep[d].token > 0 /\ claims[d] = 0
        /\ claims'[d] = dep[d].token
    BY <1>4, <1>typ DEF ClaimPickup, Claimable
  <2>2. dep'[d] = Claimed(dep[d])
    BY <1>4, <1>typ DEF ClaimPickup
  <2>3. dep'[d].state = "fulfilled" /\ dep'[d].token = 0 /\ ~dep'[d].pickup
    BY <1>typ, <2>2, UpdatedFields
  <2>4. ~Watched(d)' /\ ~ToMint(d)' /\ ~ToDeliver(d)'
    BY <2>1, <1>inv, ListsMove DEF ListInv, Blank
  <2> QED
    BY <1>num, <1>inv, <2>1, <2>3, <2>4 DEF RowInv, ListInv
<1>5. CASE WatchWrite /\ d = ccur
  <2>1. Watched(d) /\ obs.covering <= deep[d]
    BY <1>5 DEF WatchWrite, Watched, ControlInv
  <2>2. ~Watched(d)'
    BY <1>5 DEF WatchWrite, Watched, ControlInv, WatchStop
  <2>3. claims' = claims /\ UNCHANGED workerVars
    BY <1>5 DEF WatchWrite
  <2>4. ~ToMint(d)' /\ ~ToDeliver(d)'
    BY <1>inv, <2>1, <2>3 DEF ListInv, ToMint, ToDeliver, Blank, Unclaimed
  <2>5. CASE dep' = [dep EXCEPT ![ccur] = ChainUpdated(dep[ccur], obs)]
    <3>1. dep'[d] = ChainUpdated(dep[d], obs)
      BY <1>5, <1>typ, <2>5
    <3>2. /\ dep'[d].state \in {"partial", "confirming", "minting"}
          /\ dep'[d].token = dep[d].token /\ dep'[d].pickup = dep[d].pickup
          /\ dep'[d].amount >= dep[d].amount
          /\ dep'[d].state = "minting" => dep'[d].amount = obs.covering
      BY <1>typ, <3>1, UpdatedFields
    <3>3. Blank(d) /\ dep[d].amount > 0
      BY <1>inv, <2>1 DEF ListInv
    <3>4. RowInv(d)'
      BY <1>typ, <1>num, <1>inv, <2>1, <2>3, <3>2, <3>3 DEF RowInv, Blank
    <3> QED
      BY <2>2, <2>4, <3>4 DEF ListInv
  <2>6. CASE dep' = dep
    BY <1>1, <2>3, <2>6 DEF SameMoney
  <2> QED
    BY <1>5, <2>5, <2>6 DEF WatchWrite
<1>6. CASE RecordMint /\ d = wcur
  <2>1. ToMint(d) /\ wout \in {"minted", "error"} /\ wcur \notin todo
    BY <1>6 DEF RecordMint, ToMint, ControlInv
  <2>2. claims' = claims /\ UNCHANGED watchVars
    BY <1>6 DEF RecordMint
  <2>3. ~ToMint(d)' /\ ~ToDeliver(d)'
    BY <1>6, <2>1 DEF RecordMint, ToMint, ToDeliver, NextItem, WorkerStop
  <2>4. ~Watched(d)'
    BY <1>inv, <2>1, <2>2 DEF ListInv, Watched
  <2>5. /\ Blank(d) /\ seen[d].amount = dep[d].amount
        /\ dep[d].amount > 0 /\ dep[d].amount <= deep[d]
    BY <1>inv, <1>num, <2>1 DEF ListInv
  <2>6. CASE dep' = [dep EXCEPT ![wcur] = MintRecorded(@, wout, seen[wcur])]
    <3>1. dep'[d] = MintRecorded(dep[d], wout, seen[d])
      BY <1>6, <1>typ, <2>6
    <3>2. CASE wout = "minted"
      <4>1. /\ dep'[d].state = "delivering" /\ dep'[d].token = seen[d].amount
            /\ dep'[d].pickup = dep[d].pickup
        BY <1>typ, <3>1, <3>2, WorkerFields
      <4> QED
        BY <1>num, <2>2, <2>3, <2>4, <2>5, <4>1
        DEF RowInv, ListInv, Blank, Unclaimed
    <3>3. CASE wout = "error"
      <4>1. /\ dep'[d].state \in {"failed", "minting"}
            /\ dep'[d].token = dep[d].token /\ dep'[d].amount = dep[d].amount
            /\ dep'[d].pickup = dep[d].pickup
        BY <1>typ, <3>1, <3>3, WorkerFields
      <4> QED
        BY <1>num, <2>2, <2>3, <2>4, <2>5, <4>1
        DEF RowInv, ListInv, Blank, Unclaimed
    <3> QED
      BY <2>1, <3>2, <3>3
  <2>7. CASE dep' = dep
    BY <1>1, <2>2, <2>7 DEF SameMoney
  <2> QED
    BY <1>6, <2>6, <2>7 DEF RecordMint
<1>7. CASE Deliver(d)
  <2>1. ToDeliver(d)
    BY <1>7 DEF Deliver, ToDeliver
  <2>2. claims' = claims /\ UNCHANGED watchVars
    BY <1>7 DEF Deliver
  <2>3. ~ToMint(d)' /\ ~ToDeliver(d)'
    BY <1>7 DEF Deliver, ToMint, ToDeliver, WorkerStop
  <2>4. ~Watched(d)'
    BY <1>inv, <2>1, <2>2 DEF ListInv, Watched, Blank, Unclaimed
  <2>5. Unclaimed(d) /\ seen[d].token > 0
    BY <1>inv, <2>1 DEF ListInv
  <2>6. CASE dep' = [dep EXCEPT ![d] = Delivered(@, seen[d])]
    <3>1. dep'[d] = Delivered(dep[d], seen[d])
      BY <1>typ, <2>6
    <3>2. /\ dep'[d].state = "ready" /\ dep'[d].token = dep[d].token
          /\ dep'[d].pickup = dep[d].pickup
      BY <1>typ, <2>5, <3>1, WorkerFields
    <3> QED
      BY <1>num, <1>inv, <2>2, <2>3, <2>4, <2>5, <3>2 DEF RowInv, ListInv, Unclaimed
  <2>7. CASE dep' = dep
    BY <1>1, <2>2, <2>7 DEF SameMoney
  <2> QED
    BY <1>7, <2>6, <2>7 DEF Deliver
<1> QED
  BY <1>1, <1>2, <1>3, <1>4, <1>5, <1>6, <1>7, RowMoves

(***************************************************************************)
(* Ecash: what was issued, step by step.                                   *)
(***************************************************************************)

\* The value of the token issued for d that the worker has not recorded yet.
Carried(d) == IF InHand(d) THEN seen[d].amount ELSE 0

\* Only minting, recording and dying change what the worker carries.
LEMMA HandKept ==
    ASSUME [Next]_vars, NEW d \in Ids
    PROVE  \/ UNCHANGED <<minted, lost>> /\ Carried(d)' = Carried(d)
           \/ RecordMint \/ Restart \/ \E e \in Ids : Mint(e)
<1>1. UNCHANGED workerVars => Carried(d)' = Carried(d)
  BY DEF Carried, InHand
<1>2. Customer \/ Environment \/ Handlers \/ Operate \/ ExpireStale \/ Watcher
        \/ UNCHANGED vars
        => UNCHANGED <<minted, lost>> /\ Carried(d)' = Carried(d)
  BY <1>1, LoopsUnchanged DEF Watcher, WatchList, WatchSkip, Observe, WatchWrite, WatchEnd
<1>3. StartTick \/ MintDone \/ DeliverDone \/ (\E e \in Ids : Deliver(e))
        => UNCHANGED <<minted, lost>> /\ Carried(d)' = Carried(d)
  BY DEF StartTick, MintDone, DeliverDone, ListFor, Deliver, WorkerStop, Carried, InHand
<1> QED
  BY <1>2, <1>3 DEF Next, Worker

\* What may happen to a deposit's ecash in a step: nothing, it is issued into
\* the worker's hand, it goes from there to the row or is lost, or it goes from
\* the row to the customer.
LEMMA EcashMoves ==
    ASSUME TypeOK, ControlInv, PickupInv, [Next]_vars,
           NEW d \in Ids, RowInv(d), ListInv(d)
    PROVE  \/ /\ minted'[d] = minted[d] /\ lost'[d] = lost[d]
              /\ dep'[d].token = dep[d].token /\ claims'[d] = claims[d]
              /\ Carried(d)' = Carried(d)
           \/ /\ ToMint(d) /\ Carried(d) = 0 /\ Carried(d)' = seen[d].amount
              /\ minted'[d] = minted[d] + seen[d].amount /\ lost'[d] = lost[d]
              /\ dep'[d].token = dep[d].token /\ claims'[d] = claims[d]
           \/ /\ Carried(d)' = 0 /\ Carried(d) > 0
              /\ minted'[d] = minted[d] /\ lost'[d] = lost[d]
              /\ dep[d].token = 0 /\ dep'[d].token = Carried(d)
              /\ claims'[d] = claims[d]
           \/ /\ Carried(d)' = 0 /\ Carried(d) > 0
              /\ minted'[d] = minted[d] /\ lost'[d] = lost[d] + Carried(d)
              /\ dep'[d].token = dep[d].token /\ claims'[d] = claims[d]
           \/ /\ Carried(d)' = Carried(d)
              /\ minted'[d] = minted[d] /\ lost'[d] = lost[d]
              /\ claims[d] = 0 /\ claims'[d] = dep[d].token
              /\ dep[d].token > 0 /\ dep'[d].token = 0
<1> DEFINE Nothing ==
             /\ minted'[d] = minted[d] /\ lost'[d] = lost[d]
             /\ dep'[d].token = dep[d].token /\ claims'[d] = claims[d]
             /\ Carried(d)' = Carried(d)
<1>typ. /\ dep \in [Ids -> Dep] /\ seen \in [Ids -> Seen]
        /\ claims \in [Ids -> Nat] /\ lost \in [Ids -> Nat]
        /\ minted \in [Ids -> Nat]
  BY DEF TypeOK
<1>num. /\ seen[d].amount \in Nat /\ lost[d] \in Nat /\ Carried(d) \in Nat
        /\ ToMint(d) => seen[d].amount > 0
  BY <1>typ DEF Seen, Carried, ListInv
<1>same. UNCHANGED workerVars => Carried(d)' = Carried(d)
  BY DEF Carried, InHand
<1>hand. InHand(d) => ToMint(d)
  BY DEF InHand, ToMint
<1>1. ASSUME NEW amount \in Amounts, CreateDeposit(d, amount) PROVE Nothing
  BY <1>1, <1>same, <1>typ DEF CreateDeposit, NoDep, RowInv
<1>2. ASSUME NEW p \in Pickups, ClaimPickup(p, d)
      PROVE  /\ Carried(d)' = Carried(d)
             /\ minted'[d] = minted[d] /\ lost'[d] = lost[d]
             /\ claims[d] = 0 /\ claims'[d] = dep[d].token
             /\ dep[d].token > 0 /\ dep'[d].token = 0
  <2>1. dep'[d] = Claimed(dep[d])
    BY <1>2, <1>typ DEF ClaimPickup
  <2>2. dep'[d].token = 0
    BY <1>typ, <2>1, UpdatedFields
  <2> QED
    BY <1>2, <1>same, <1>typ, <2>2 DEF ClaimPickup, Claimable
<1>3. CASE WatchWrite /\ d = ccur
  <2>1. obs \in [total : Nat, covering : Nat]
    BY DEF TypeOK
  <2>2. dep'[d] = dep[d] \/ dep'[d] = ChainUpdated(dep[d], obs)
    BY <1>3, <1>typ DEF WatchWrite
  <2>3. dep'[d].token = dep[d].token
    BY <1>typ, <2>1, <2>2, UpdatedFields
  <2> QED
    BY <1>3, <1>same, <2>3 DEF WatchWrite
<1>4. CASE Deliver(d)
  <2>1. dep'[d] = dep[d] \/ dep'[d] = Delivered(dep[d], seen[d])
    BY <1>4, <1>typ DEF Deliver
  <2>2. dep'[d].token = dep[d].token
    BY <1>typ, <2>1, WorkerFields
  <2>3. ~InHand(d) /\ ~InHand(d)'
    BY <1>4 DEF Deliver, InHand, WorkerStop
  <2> QED
    BY <1>4, <2>2, <2>3 DEF Deliver, Carried
<1>5. CASE RecordMint /\ d = wcur
  <2>1. ToMint(d) /\ wout \in {"minted", "error"} /\ ~InHand(d)'
    BY <1>5 DEF RecordMint, ToMint, ControlInv, InHand, NextItem, WorkerStop
  <2>2. Carried(d)' = 0
    BY <2>1 DEF Carried
  <2>3. Carried(d) = IF wout = "minted" THEN seen[d].amount ELSE 0
    BY <1>5 DEF RecordMint, Carried, InHand
  <2>4. minted' = minted /\ claims' = claims /\ dep[d].token = 0
    BY <1>5, <2>1 DEF RecordMint, ListInv, Blank
  <2>5. CASE dep' = [dep EXCEPT ![wcur] = MintRecorded(@, wout, seen[wcur])]
             /\ lost' = lost
    <3>1. dep'[d] = MintRecorded(dep[d], wout, seen[d])
      BY <1>5, <1>typ, <2>5
    <3>2. /\ wout = "minted" => dep'[d].token = seen[d].amount
          /\ wout = "error" => dep'[d].token = dep[d].token
      BY <1>typ, <3>1, WorkerFields
    <3> QED
      BY <1>num, <2>1, <2>2, <2>3, <2>4, <2>5, <3>2
  <2>6. CASE dep' = dep /\ lost' = LostNow
    <3>1. lost'[d] = lost[d] + Carried(d)
      BY <2>6 DEF LostNow, Carried
    <3> QED
      BY <1>num, <2>1, <2>2, <2>3, <2>4, <2>6, <3>1
  <2> QED
    BY <1>5, <2>5, <2>6 DEF RecordMint
<1>6. CASE Mint(d)
  <2>1. ToMint(d) /\ Carried(d) = 0
    BY <1>6 DEF Mint, ToMint, Carried, InHand
  <2>2. UNCHANGED <<dep, claims, lost, seen>>
    BY <1>6 DEF Mint
  <2>3. CASE wout' = "minted" /\ minted' = [minted EXCEPT ![d] = @ + seen[d].amount]
    BY <1>6, <1>typ, <2>1, <2>2, <2>3 DEF Mint, Carried, InHand
  <2>4. CASE wout' = "error" /\ minted' = minted
    BY <1>6, <2>1, <2>2, <2>4 DEF Carried, InHand
  <2> QED
    BY <1>6, <2>3, <2>4 DEF Mint
<1>7. ASSUME NEW e \in Ids, Mint(e), e # d PROVE Nothing
  BY <1>7, <1>typ DEF Mint, Carried, InHand
<1>8. CASE RecordMint /\ d # wcur
  <2>1. ~InHand(d) /\ ~InHand(d)'
    BY <1>8 DEF RecordMint, InHand, NextItem, WorkerStop
  <2>2. lost'[d] = lost[d]
    BY <1>8, <1>num, <2>1 DEF RecordMint, LostNow
  <2> QED
    BY <1>8, <1>typ, <2>1, <2>2 DEF RecordMint, Carried
<1>9. CASE Restart
  <2>1. Carried(d)' = 0
    BY <1>9 DEF Restart, WorkerStop, Carried, InHand
  <2>2. lost'[d] = lost[d] + Carried(d)
    BY <1>9 DEF Restart, LostNow, Carried
  <2>3. UNCHANGED <<minted, dep, claims>>
    BY <1>9 DEF Restart
  <2> QED
    BY <1>num, <2>1, <2>2, <2>3
<1>10. CASE /\ UNCHANGED <<minted, lost>> /\ Carried(d)' = Carried(d)
            /\ SameMoney(d)
  BY <1>10 DEF SameMoney
<1> QED
  BY <1>1, <1>2, <1>3, <1>4, <1>5, <1>6, <1>7, <1>8, <1>9, <1>10, HandKept, RowMoves

\* No ecash appears or disappears unaccounted for.
LEMMA NextEcash ==
    ASSUME TypeOK, ControlInv, PickupInv, EcashAccounted, [Next]_vars,
           \A d \in Ids : RowInv(d) /\ ListInv(d)
    PROVE  EcashAccounted'
<1> SUFFICES ASSUME NEW d \in Ids
             PROVE  minted'[d] = lost'[d] + dep'[d].token + claims'[d] + Carried(d)'
  BY DEF EcashAccounted, Carried
<1>1. minted[d] = lost[d] + dep[d].token + claims[d] + Carried(d)
  BY DEF EcashAccounted, Carried
<1>2. /\ lost[d] \in Nat /\ dep[d].token \in Nat /\ claims[d] \in Nat
      /\ seen[d].amount \in Nat /\ minted[d] \in Nat
  BY DEF TypeOK, Dep, Seen
<1>3. Carried(d) \in Nat
  BY <1>2 DEF Carried
<1> QED
  BY <1>1, <1>2, <1>3, EcashMoves

(***************************************************************************)
(* The views of a row.                                                     *)
(***************************************************************************)

\* Only an operator makes a row with a token fulfilled: a claim takes the token,
\* and the loops write other states.
LEMMA NextViews ==
    ASSUME TypeOK, ControlInv, PickupInv, ViewInv, [Next]_vars,
           \A d \in Ids : RowInv(d) /\ ListInv(d)
    PROVE  ViewInv'
<1>typ. dep \in [Ids -> Dep] /\ seen \in [Ids -> Seen]
        /\ obs \in [total : Nat, covering : Nat]
  BY DEF TypeOK
<1>1. byHand' = byHand \/ \E o \in Operators : OperateWrite(o)
  BY DEF Next, Customer, CreateDeposit, Pay, Drop, ClaimPickup, GetDeposit, Environment,
     Age, Bury, Handlers, PickupNotify, PickupCount, PickupReply, PickupDropped, Operate,
     OperateFetch, SetHalt, ExpireStale, Watcher, WatchList, WatchSkip, Observe,
     WatchWrite, WatchEnd, Worker, StartTick, Mint, RecordMint, MintDone, Deliver,
     DeliverDone, Restart
<1>2. byHand \subseteq byHand'
  BY <1>1 DEF OperateWrite
<1>3. shown' = shown \/ \E e \in Ids : GetDeposit(e)
  BY DEF Next, Customer, CreateDeposit, Pay, Drop, ClaimPickup, Environment,
     Age, Bury, Handlers, PickupNotify, PickupCount, PickupReply, PickupDropped, Operate,
     OperateFetch, OperateWrite, SetHalt, ExpireStale, Watcher, WatchList, WatchSkip,
     Observe, WatchWrite, WatchEnd, Worker, StartTick, Mint, RecordMint, MintDone,
     Deliver, DeliverDone, Restart
<1>4. ASSUME NEW d \in Ids, d \in shown' PROVE d \in byHand'
  BY <1>2, <1>3, <1>4 DEF GetDeposit, ViewInv
<1>5. ASSUME NEW d \in Ids, dep'[d].state = "fulfilled", dep'[d].token > 0
      PROVE  d \in byHand'
  <2>1. CASE dep[d].state = "fulfilled" /\ dep[d].token > 0
    BY <1>2, <2>1 DEF ViewInv
  <2>2. CASE SameMoney(d) /\ dep'[d].state = dep[d].state
    BY <1>5, <2>1, <2>2 DEF SameMoney
  <2>3. ~\E amount \in Amounts : CreateDeposit(d, amount)
    BY <1>5, <1>typ DEF CreateDeposit, NoDep
  <2>4. ~\E p \in Pickups : ClaimPickup(p, d)
    <3>1. ASSUME NEW p \in Pickups, ClaimPickup(p, d) PROVE dep'[d].token = 0
      BY <3>1, <1>typ, UpdatedFields DEF ClaimPickup
    <3> QED
      BY <1>5, <3>1
  <2>5. CASE WatchWrite /\ d = ccur
    <3>1. dep'[d] = dep[d] \/ dep'[d] = ChainUpdated(dep[d], obs)
      BY <2>5, <1>typ DEF WatchWrite
    <3> QED
      BY <1>5, <1>typ, <2>1, <3>1, UpdatedFields
  <2>6. CASE RecordMint /\ d = wcur
    <3>1. dep'[d] = dep[d] \/ dep'[d] = MintRecorded(dep[d], wout, seen[d])
      BY <2>6, <1>typ DEF RecordMint
    <3>2. wout \in {"minted", "error"}
      BY <2>6 DEF RecordMint, ControlInv
    <3> QED
      BY <1>5, <1>typ, <2>1, <3>1, <3>2, WorkerFields
  <2>7. CASE Deliver(d)
    <3>1. dep'[d] = dep[d] \/ dep'[d] = Delivered(dep[d], seen[d])
      BY <2>7, <1>typ DEF Deliver
    <3>2. seen[d].token > 0
      BY <2>7 DEF Deliver, ToDeliver, ListInv
    <3>3. Delivered(dep[d], seen[d]).state = "ready"
      BY <1>typ, <3>2, WorkerFields
    <3> QED
      BY <1>5, <2>1, <3>1, <3>3
  <2> QED
    BY <1>5, <2>2, <2>3, <2>4, <2>5, <2>6, <2>7, RowMoves
<1> QED
  BY <1>4, <1>5 DEF ViewInv

(***************************************************************************)
(* The invariant, and what follows from it.                                *)
(***************************************************************************)

\* The invariant at the start.
LEMMA InitInd == Init => IndInv
<1> SUFFICES ASSUME Init PROVE IndInv
  OBVIOUS
<1>1. TypeOK
  BY InitType
<1>2. ControlInv
  BY DEF Init, ControlInv
<1>3. PickupInv
  BY DEF Init, PickupInv, NoPickup
<1>row. ASSUME NEW d \in Ids
        PROVE  /\ dep[d].state = "absent" /\ dep[d].token = 0 /\ claims[d] = 0
               /\ minted[d] = 0 /\ lost[d] = 0 /\ deep[d] = 0 /\ wpc = "idle"
               /\ cpc = "idle"
  BY DEF Init, NoDep
<1>4. EcashAccounted
  <2> SUFFICES ASSUME NEW d \in Ids
               PROVE  minted[d] = lost[d] + dep[d].token + claims[d]
                                  + (IF InHand(d) THEN seen[d].amount ELSE 0)
    BY DEF EcashAccounted
  <2>1. ~InHand(d)
    BY <1>row DEF InHand
  <2> QED
    BY <1>row, <2>1
<1>5. ASSUME NEW d \in Ids PROVE RowInv(d) /\ ListInv(d)
  BY <1>row DEF RowInv, ListInv, Open, Watched, ToMint, ToDeliver
<1>6. ViewInv
  BY <1>row DEF Init, ViewInv
<1> QED
  BY <1>1, <1>2, <1>3, <1>4, <1>5, <1>6 DEF IndInv

\* Every step keeps the invariant.
LEMMA NextInd == IndInv /\ [Next]_vars => IndInv'
<1> SUFFICES ASSUME IndInv, [Next]_vars PROVE IndInv'
  OBVIOUS
<1>1. /\ TypeOK /\ ControlInv /\ PickupInv /\ EcashAccounted /\ ViewInv
      /\ \A d \in Ids : RowInv(d) /\ ListInv(d)
  BY DEF IndInv
<1>2. TypeOK' /\ ControlInv' /\ PickupInv' /\ EcashAccounted' /\ ViewInv'
  BY <1>1, NextType, NextControl, NextPickup, NextEcash, NextViews
<1>3. \A d \in Ids : RowInv(d)' /\ ListInv(d)'
  BY <1>1, NextRows
<1> QED
  BY <1>2, <1>3 DEF IndInv

\* Every reachable state satisfies the inductive invariant.
THEOREM Invariance == Spec => []IndInv
<1> QED
  BY InitInd, NextInd, PTL DEF Spec

\* The variables keep their types: whatever the loops, handlers and operators
\* do, rows stay rows and counters natural numbers.
THEOREM TypeCorrect == Spec => []TypeOK
<1>1. IndInv => TypeOK
  BY DEF IndInv
<1> QED
  BY <1>1, Invariance, PTL

\* Every sat of ecash issued for a deposit is in its row, claimed, on its way
\* to the row, or lost with a failed record (record_mint_success by id).
THEOREM EcashIsAccounted == Spec => []EcashAccounted
<1>1. IndInv => EcashAccounted
  BY DEF IndInv
<1> QED
  BY <1>1, Invariance, PTL

\* The customer never gets more ecash than bitcoin confirmed on the address.
THEOREM EcashIsCovered == Spec => []CoveredByChain
<1>1. IndInv => CoveredByChain
  BY DEF IndInv, RowInv, CoveredByChain
<1> QED
  BY <1>1, Invariance, PTL

\* A deposit being delivered or ready has its unclaimed token.
THEOREM ReadyIsBacked == Spec => []ReadyHasToken
<1>1. IndInv => ReadyHasToken
  BY DEF IndInv, RowInv, Unclaimed, ReadyHasToken
<1> QED
  BY <1>1, Invariance, PTL

\* A pickup serves a token at most once, with a claim row to show for it, and
\* the views return the token of no other deposits than those an operator
\* marked fulfilled before they were picked up.
THEOREM ServedAtMostOnce == Spec => []ServedOnce
<1>1. IndInv => ServedOnce
  <2> SUFFICES ASSUME IndInv, NEW d \in Ids
               PROVE  /\ served[d] <= 1
                      /\ served[d] = 1 => claims[d] > 0 /\ ~dep[d].pickup
                      /\ d \in shown => d \in byHand
    BY DEF ServedOnce
  <2>1. served[d] \in Nat /\ announced[d] \in Nat
    BY DEF IndInv, TypeOK
  <2>2. d \in shown => d \in byHand
    BY DEF IndInv, ViewInv
  <2> QED
    BY <2>1, <2>2 DEF IndInv, PickupInv, RowInv
<1> QED
  BY <1>1, Invariance, PTL

\* The webhook goes out at most once per deposit, and only for a claimed one.
THEOREM AnnouncedAtMostOnce == Spec => []AnnouncedOnce
<1>1. IndInv => AnnouncedOnce
  <2> SUFFICES ASSUME IndInv, NEW d \in Ids
               PROVE  announced[d] <= 1 /\ (announced[d] = 1 => claims[d] > 0)
    BY DEF AnnouncedOnce
  <2>1. served[d] \in Nat /\ announced[d] \in Nat
    BY DEF IndInv, TypeOK
  <2> QED
    BY <2>1 DEF IndInv, PickupInv
<1> QED
  BY <1>1, Invariance, PTL

\* No override and no late write of a loop undoes a claim or brings another
\* token into a claimed row.
THEOREM ClaimsAreFinal == Spec => ClaimIsFinal
<1>1. IndInv /\ [Next]_vars =>
        \A d \in Ids : claims[d] > 0 => claims'[d] = claims[d] /\ dep'[d].token = 0
  <2> SUFFICES ASSUME IndInv, [Next]_vars, NEW d \in Ids, claims[d] > 0
               PROVE  claims'[d] = claims[d] /\ dep'[d].token = 0
    OBVIOUS
  <2>1. TypeOK /\ ControlInv /\ PickupInv /\ RowInv(d) /\ ListInv(d)
    BY DEF IndInv
  <2>2. dep[d].token = 0 /\ ~ToMint(d) /\ Carried(d) = 0
    BY <2>1 DEF RowInv, ListInv, Blank, Carried, InHand, ToMint
  <2>3. claims[d] \in Nat
    BY <2>1 DEF TypeOK
  <2> QED
    BY <2>1, <2>2, <2>3, EcashMoves
<1> QED
  BY <1>1, Invariance, PTL DEF Spec, ClaimIsFinal

(***************************************************************************)
(* The deposit side implements the escrow.                                 *)
(***************************************************************************)

\* The value of a deposit's token in the refinement mapping of Escrow.
Live == [d \in Ids |-> dep[d].token + IF InHand(d) THEN seen[d].amount ELSE 0]

\* Every step is a step of the escrow or leaves it alone.
LEMMA EscrowStep ==
    ASSUME IndInv, [Next]_vars
    PROVE  \/ Escrow!Next
           \/ deep' = deep /\ Live' = Live /\ claims' = claims /\ lost' = lost
<1>inv. /\ TypeOK /\ ControlInv /\ PickupInv /\ TypeOK'
        /\ \A d \in Ids : RowInv(d) /\ ListInv(d)
  BY NextInd DEF IndInv
<1>typ. /\ deep \in [Ids -> Nat] /\ claims \in [Ids -> Nat] /\ lost \in [Ids -> Nat]
        /\ deep' \in [Ids -> Nat] /\ claims' \in [Ids -> Nat] /\ lost' \in [Ids -> Nat]
  BY <1>inv DEF TypeOK
<1>num. ASSUME NEW d \in Ids
        PROVE  /\ dep[d].token \in Nat /\ seen[d].amount \in Nat /\ Carried(d) \in Nat
               /\ dep'[d].token \in Nat /\ Carried(d)' \in Nat
               /\ Live[d] = dep[d].token + Carried(d)
               /\ Live'[d] = dep'[d].token + Carried(d)'
  BY <1>inv DEF TypeOK, Dep, Seen, Live, Carried
<1>fun. ASSUME NEW f, f = [d \in Ids |-> f[d]], \A d \in Ids : Live'[d] = f[d]
        PROVE  Live' = f
  BY <1>fun DEF Live
<1>live. Live = [d \in Ids |-> Live[d]]
  BY DEF Live
<1>move. ASSUME NEW d \in Ids
         PROVE  \/ /\ lost'[d] = lost[d] /\ claims'[d] = claims[d] /\ Live'[d] = Live[d]
                \/ /\ ToMint(d) /\ Carried(d) = 0 /\ Carried(d)' = seen[d].amount
                   /\ lost'[d] = lost[d] /\ claims'[d] = claims[d]
                   /\ Live'[d] = Live[d] + seen[d].amount
                \/ /\ Carried(d) > 0 /\ Carried(d)' = 0
                   /\ lost'[d] = lost[d] + Carried(d) /\ claims'[d] = claims[d]
                   /\ Live'[d] = dep[d].token
                \/ /\ lost'[d] = lost[d] /\ claims'[d] # claims[d]
                   /\ claims'[d] = dep[d].token /\ dep[d].token > 0
                   /\ Live'[d] = Carried(d)
  BY <1>inv, <1>typ, <1>num, EcashMoves
<1>hand. ASSUME NEW d \in Ids, Carried(d) > 0
         PROVE  InHand(d) /\ d = wcur /\ dep[d].token = 0
  <2>1. InHand(d)
    BY <1>hand DEF Carried
  <2> QED
    BY <1>inv, <2>1 DEF InHand, ToMint, ListInv, Blank
<1>1. ASSUME NEW d \in Ids, NEW sats \in 1..MaxSats, Bury(d, sats) PROVE Escrow!Next
  <2>1. deep' = [deep EXCEPT ![d] = @ + sats] /\ sats \in 1..deep'[d]
    BY <1>1, <1>typ DEF Bury
  <2>2. UNCHANGED <<claims, lost>> /\ Live' = Live
    BY <1>1 DEF Bury, Live, InHand
  <2>3. Escrow!Fund(d)
    BY <2>1, <2>2 DEF Escrow!Fund, Live
  <2> QED
    BY <2>3 DEF Escrow!Next
<1>2. ASSUME NEW d \in Ids, NEW p \in Pickups, ClaimPickup(p, d) PROVE Escrow!Next
  <2>1. /\ claims' = [claims EXCEPT ![d] = dep[d].token] /\ dep[d].token > 0
        /\ dep' = [dep EXCEPT ![d] = Claimed(@)]
        /\ UNCHANGED <<deep, lost, workerVars>>
    BY <1>2 DEF ClaimPickup, Claimable
  <2>2. Carried(d) = 0 /\ \A e \in Ids : Carried(e)' = Carried(e)
    BY <1>hand, <1>num, <2>1 DEF Carried, InHand
  <2>3. \A e \in Ids \ {d} : Live'[e] = Live[e]
    BY <1>num, <2>1, <2>2, <1>inv DEF TypeOK
  <2>4. Live'[d] = 0 /\ Live[d] = dep[d].token
    <3>1. dep'[d].token = 0
      BY <2>1, <1>inv, UpdatedFields DEF TypeOK
    <3> QED
      BY <1>num, <2>2, <3>1
  <2>5. Live' = [Live EXCEPT ![d] = 0]
    BY <1>fun, <1>live, <2>3, <2>4 DEF Live
  <2>6. Escrow!HandOver(d)
    BY <2>1, <2>4, <2>5 DEF Escrow!HandOver, Live
  <2> QED
    BY <2>6 DEF Escrow!Next
<1>3. ASSUME NEW d \in Ids, Mint(d)
      PROVE  \/ Escrow!Next
             \/ deep' = deep /\ Live' = Live /\ claims' = claims /\ lost' = lost
  <2>1. UNCHANGED <<deep, claims, lost, dep, seen>> /\ ToMint(d) /\ wpc = "mint"
        /\ wpc' = "record" /\ wcur' = d
    BY <1>3 DEF Mint, ToMint
  <2>2. \A e \in Ids : Carried(e) = 0
    BY <2>1 DEF Carried, InHand
  <2>3. \A e \in Ids \ {d} : Live'[e] = Live[e]
    BY <1>num, <2>1, <2>2 DEF Carried, InHand
  <2>4. dep[d].token = 0 /\ claims[d] = 0 /\ seen[d].amount \in 1..deep[d]
    BY <1>inv, <2>1 DEF ListInv, Blank
  <2>5. Live[d] = 0
    BY <1>num, <2>2, <2>4
  <2>6. CASE wout' = "minted"
    <3>1. Live'[d] = seen[d].amount
      BY <1>num, <2>1, <2>4, <2>6 DEF Carried, InHand
    <3>2. Live' = [Live EXCEPT ![d] = seen[d].amount]
      BY <1>fun, <1>live, <2>3, <3>1 DEF Live
    <3>3. Escrow!Issue(d)
      BY <2>1, <2>4, <2>5, <3>2 DEF Escrow!Issue, Live
    <3> QED
      BY <3>3 DEF Escrow!Next
  <2>7. CASE wout' # "minted"
    <3>1. Live'[d] = Live[d]
      BY <1>num, <2>1, <2>2, <2>7 DEF Carried, InHand
    <3> QED
      BY <1>fun, <1>live, <2>1, <2>3, <3>1
  <2> QED
    BY <2>6, <2>7
<1>4. CASE RecordMint \/ Restart
  <2>1. UNCHANGED <<deep, claims>> /\ \A d \in Ids : Carried(d)' = 0
    BY <1>4 DEF RecordMint, Restart, Carried, InHand, NextItem, WorkerStop
  <2>2. ASSUME NEW d \in Ids
        PROVE  \/ lost'[d] = lost[d] /\ Live'[d] = Live[d]
               \/ /\ Carried(d) > 0 /\ Live[d] = Carried(d)
                  /\ lost'[d] = lost[d] + Live[d] /\ Live'[d] = 0
    <3>1. ToMint(d) => seen[d].amount > 0
      BY <1>inv DEF ListInv
    <3>2. Carried(d) > 0 => Live[d] = Carried(d) /\ dep[d].token = 0
      BY <1>hand, <1>num
    <3> QED
      BY <1>move, <1>num, <2>1, <3>1, <3>2
  <2>3. CASE \A d \in Ids : lost'[d] = lost[d] /\ Live'[d] = Live[d]
    BY <1>fun, <1>live, <1>typ, <2>1, <2>3
  <2>4. ASSUME NEW d \in Ids, ~(lost'[d] = lost[d] /\ Live'[d] = Live[d])
        PROVE  Escrow!Next
    <3>1. /\ Carried(d) > 0 /\ Live[d] = Carried(d)
          /\ lost'[d] = lost[d] + Live[d] /\ Live'[d] = 0
      BY <2>2, <2>4
    <3>2. \A e \in Ids \ {d} : Carried(e) = 0
      BY <1>hand, <1>num, <3>1
    <3>3. \A e \in Ids \ {d} : lost'[e] = lost[e] /\ Live'[e] = Live[e]
      BY <2>2, <3>2
    <3>4. Live' = [Live EXCEPT ![d] = 0]
      BY <1>fun, <1>live, <3>1, <3>3 DEF Live
    <3>5. lost' = [lost EXCEPT ![d] = @ + Live[d]]
      BY <1>typ, <3>1, <3>3
    <3>6. Escrow!Waste(d)
      BY <2>1, <3>1, <3>4, <3>5 DEF Escrow!Waste, Live
    <3> QED
      BY <3>6 DEF Escrow!Next
  <2> QED
    BY <2>3, <2>4
<1>5. CASE UNCHANGED <<deep, claims>> /\ \A d \in Ids : Carried(d)' = Carried(d)
  <2>1. \A d \in Ids : ToMint(d) => seen[d].amount > 0
    BY <1>inv DEF ListInv
  <2>2. \A d \in Ids : lost'[d] = lost[d] /\ Live'[d] = Live[d]
    BY <1>5, <1>move, <1>num, <2>1
  <2> QED
    BY <1>5, <1>fun, <1>live, <1>typ, <2>2
<1>6. \/ deep' = deep
      \/ \E d \in Ids, sats \in 1..MaxSats : Bury(d, sats)
  BY DEF Next, Customer, CreateDeposit, Pay, Drop, ClaimPickup, GetDeposit, Environment, Age,
     Handlers, PickupNotify, PickupCount, PickupReply, PickupDropped, Operate,
     OperateFetch, OperateWrite, SetHalt, ExpireStale, Watcher, WatchList,
     WatchSkip, Observe, WatchWrite, WatchEnd, Worker, StartTick, Mint,
     RecordMint, MintDone, Deliver, DeliverDone, Restart
<1>7. CASE (\A d \in Ids : Carried(d)' = Carried(d)) /\ claims' = claims
  BY <1>1, <1>5, <1>6, <1>7
<1>8. (\A d \in Ids : Carried(d)' = Carried(d)) \/ RecordMint \/ Restart
        \/ \E e \in Ids : Mint(e)
  BY HandKept
<1>9. claims' = claims \/ \E d \in Ids, p \in Pickups : ClaimPickup(p, d)
  BY ClaimsMove
<1> QED
  BY <1>2, <1>3, <1>4, <1>7, <1>8, <1>9

\* The deposit side implements the escrow: ecash is issued against confirmed
\* bitcoin only, one live token at a time, handed over once.
THEOREM EscrowImplemented == Spec => ImplementsEscrow
<1>1. Init => Escrow!Init
  <2> SUFFICES ASSUME Init PROVE Escrow!Init
    OBVIOUS
  <2>1. \A d \in Ids : dep[d].token = 0 /\ ~InHand(d)
    BY DEF Init, NoDep, InHand
  <2> QED
    BY <2>1 DEF Init, Escrow!Init
<1>2. IndInv /\ [Next]_vars => [Escrow!Next]_(Escrow!escrow)
  BY EscrowStep DEF Escrow!escrow, Live
<1> QED
  BY <1>1, <1>2, Invariance, PTL DEF Spec, ImplementsEscrow, Escrow!Spec
================================================================================
