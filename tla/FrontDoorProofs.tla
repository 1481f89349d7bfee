---------------------------- MODULE FrontDoorProofs ----------------------------
(***************************************************************************)
(* FrontDoor uses the address pool and the operation mode as their own     *)
(* modules describe them: a step of a request, of a task or of the process *)
(* is a step of either or leaves it alone.  So what is proved of the two   *)
(* holds in the composition, whatever the requests do.  After that, what   *)
(* the composition itself promises: the limits, the refill that does not   *)
(* run away, the float that covers the withdrawals, and the types.         *)
(***************************************************************************)
EXTENDS FrontDoor, AddressPoolProofs, OperationModeProofs, SumProofs

\* What an alert may do to the mode.
LEMMA MayAlertModes ==
    ASSUME NEW about \in {"burst", "ratio"}, MayAlert(about)
    PROVE  [ModeNext]_modeVars
  BY DEF MayAlert, ModeNext

\* A request that comes in.
LEMMA EnterMaps ==
    ASSUME NEW h \in Users, Enter(h)
    PROVE  [PoolNext]_poolVars /\ [ModeNext]_modeVars
  BY DEF Enter, EnterDeposit, EnterWithdrawal, EnterSupport, EnterResume,
         EnterStart, Comes

\* A request that is turned down.
LEMMA GiveUpMaps ==
    ASSUME NEW h \in Users, GiveUp(h)
    PROVE  [PoolNext]_poolVars /\ [ModeNext]_modeVars
<1>1. [PoolNext]_poolVars
  BY DEF GiveUp
<1>2. CASE hpc[h] = "balance"
  BY <1>1, <1>2, MayAlertModes DEF GiveUp
<1>3. CASE hpc[h] = "write"
  BY <1>1, <1>3, MayAlertModes DEF GiveUp
<1>4. CASE hpc[h] \notin {"balance", "write"}
  BY <1>1, <1>4 DEF GiveUp
<1> QED  BY <1>2, <1>3, <1>4

\* What a request does with its session, its messages and its limits.
LEMMA OwnStepMaps ==
    ASSUME NEW h \in Users,
           \/ \E done \in BOOLEAN : Purge(h, done) \/ Touch(h, done)
           \/ \E s \in Sessions : CreateSession(h, s)
           \/ Resolve(h) \/ Sweep(h) \/ CountSession(h) \/ ReadReserved(h)
           \/ CountMessages(h) \/ InsertMessage(h) \/ OpenCase(h)
    PROVE  [PoolNext]_poolVars /\ [ModeNext]_modeVars
  BY DEF Purge, Touch, CreateSession, Resolve, Sweep, CountSession, ReadReserved,
         CountMessages, InsertMessage, OpenCase

\* What a request does with the pool.
LEMMA AssignMaps ==
    ASSUME NEW h \in Users,
           \/ CountGlobal(h) \/ AssignStep(h) \/ AssignFails(h)
           \/ \E done \in BOOLEAN : InsertDeposit(h, done)
    PROVE  [PoolNext]_poolVars /\ [ModeNext]_modeVars
<1> h \in Fillers
  BY DEF Fillers
<1>1. CASE CountGlobal(h)
  <2>1. UnusedIds \subseteq Ids
    BY DEF UnusedIds
  <2> QED  BY <1>1, <2>1 DEF CountGlobal, PoolNext
<1>2. CASE AssignStep(h) \/ AssignFails(h)
  BY <1>2 DEF AssignStep, AssignFails, PoolNext
<1>3. CASE \E done \in BOOLEAN : InsertDeposit(h, done)
  BY <1>3 DEF InsertDeposit, PoolNext
<1> QED  BY <1>1, <1>2, <1>3

\* What a withdrawal request may raise on its way.
LEMMA WithdrawalMaps ==
    ASSUME NEW h \in Users,
           \/ ReadBalance(h) \/ InsertWithdrawalFails(h)
           \/ \E state \in {"funding", "queued"} : InsertWithdrawal(h, state)
    PROVE  [PoolNext]_poolVars /\ [ModeNext]_modeVars
<1>1. CASE ReadBalance(h) \/ InsertWithdrawalFails(h)
  BY <1>1, MayAlertModes DEF ReadBalance, InsertWithdrawalFails
<1>2. ASSUME NEW state \in {"funding", "queued"}, InsertWithdrawal(h, state)
      PROVE  [PoolNext]_poolVars /\ [ModeNext]_modeVars
  BY <1>2, MayAlertModes DEF InsertWithdrawal
<1> QED  BY <1>1, <1>2

\* The rest of the backend, and the process.
LEMMA WorldMaps ==
    ASSUME RefillTask \/ ModeTask \/ Outside \/ (\E loaded \in BOOLEAN : Restart(loaded))
    PROVE  [PoolNext]_poolVars /\ [ModeNext]_modeVars
<1>1. CASE RefillTask
  <2> Refill \in Fillers
    BY DEF Fillers
  <2> QED  BY <1>1 DEF RefillTask, PoolNext
<1>2. CASE ModeTask
  BY <1>2 DEF ModeTask, ModeNext
<1>3. CASE Outside
  BY <1>3 DEF Outside, SessionAges, MessagesAge, SetCaseStatus, DepositCloses,
              WatcherLists, WatcherWrites, Funded, GivenUp, Settled, WithdrawalMoves,
              Requeued, ListQueued, WalletSyncs, PaysOut, OperatorPays
<1>4. CASE \E loaded \in BOOLEAN : Restart(loaded)
  BY <1>4 DEF Restart, PoolNext, ModeNext
<1> QED  BY <1>1, <1>2, <1>3, <1>4

\* Every step of the front door is one of the pool and of the mode, or leaves
\* them alone.
LEMMA NextMaps == [Next]_vars => [PoolNext]_poolVars /\ [ModeNext]_modeVars
<1> SUFFICES ASSUME [Next]_vars PROVE [PoolNext]_poolVars /\ [ModeNext]_modeVars
  OBVIOUS
<1>1. CASE UNCHANGED vars
  BY <1>1 DEF vars
<1>2. ASSUME NEW h \in Users,
             Enter(h) \/ RequestStep(h) \/ GiveUp(h) \/ AssignFails(h)
      PROVE  [PoolNext]_poolVars /\ [ModeNext]_modeVars
  BY <1>2, EnterMaps, GiveUpMaps, OwnStepMaps, AssignMaps, WithdrawalMaps
  DEF RequestStep
<1>3. CASE RefillTask \/ ModeTask \/ Outside \/ (\E loaded \in BOOLEAN : Restart(loaded))
  BY <1>3, WorldMaps
<1> QED  BY <1>1, <1>2, <1>3 DEF Next

--------------------------------------------------------------------------------

\* The front door uses the pool as AddressPool describes it (create_deposit,
\* the refill task of main).
THEOREM UsesPool == Spec => PoolSpec
<1>1. Init => PoolInit
  BY FrontDoorAssumption, PoolAssumption DEF Init, PoolInit
<1> QED  BY <1>1, NextMaps, PTL DEF Spec, PoolSpec

\* The front door and its alerts use the mode as OperationMode describes it.
THEOREM UsesMode == Spec => ModeSpec
<1>1. Init => ModeInit
  BY DEF Init
<1> QED  BY <1>1, NextMaps, PTL DEF Spec, ModeSpec

\* AddressNotShared, with every request, session and restart around the pool:
\* an address given to a deposit stays that deposit's.
THEOREM DepositsDoNotShare == Spec => []AddressNotShared
  BY UsesPool, AddressesAreNotShared, PTL

\* ModeSaved, with the alerts the requests raise: the mode in force is the one
\* the next start will load.
THEOREM SwitchesAreSaved == Spec => []ModeSaved
  BY UsesMode, ModeIsSaved, PTL

--------------------------------------------------------------------------------
(***************************************************************************)
(* The limits.  A limit is checked by one statement and used up by a later *)
(* one.  What a request that has passed the check will add is counted as   *)
(* if it were there: the check leaves room for everybody else at most.     *)
(***************************************************************************)

\* The open deposits that were let in and kept their place since, all of them
\* and a session's.
Admitted == Open \ revived
AdmittedOf(s) == Admitted \cap OfSession(s)

\* The requests that have passed a check and not yet used it up: the limit on
\* all deposits, on those of a session, on its messages.
Assigning == {h \in Users : hpc[h] = "assign"}
Passed(s) == {h \in Users : hpc[h] \in {"global", "assign"} /\ who[h] = s}
Writing(s) == {h \in Users : hpc[h] = "message" /\ who[h] = s}

DoorTypeOK ==
    /\ dep \in [Ids -> {"none", "pending", "partial", "confirming", "closed"}]
    /\ depSession \in [Ids -> Sessions \cup {NoSession}]
    /\ listed \subseteq {d \in Ids : dep[d] # "none"} /\ revived \subseteq Ids
    /\ recent \in [Sessions -> Nat]
    /\ hpc \in [Users -> {"idle", "sweep", "resolve", "touch", "count", "global",
                          "assign", "balance", "reserve", "write", "rate",
                          "message", "case", "purge", "create"}]
    /\ kind \in [Users -> Kinds \cup {"none"}]
    /\ who \in [Users -> Sessions \cup {NoSession}]

\* Which requests go through the session, and that one to resume has one.
KindsInv ==
    \A h \in Users :
        /\ hpc[h] = "sweep" => kind[h] = "deposit"
        /\ hpc[h] = "purge" => kind[h] \in {"start", "resume"}
        /\ hpc[h] \in {"resolve", "touch"} => kind[h] \notin {"start", "none"}
        /\ kind[h] = "resume" => who[h] # NoSession

RoomInv ==
    /\ IsFiniteSet(Open)
    /\ Cardinality(Admitted) + Cardinality(Assigning) <= MaxGlobal + Cardinality(Users) - 1
    /\ \A s \in Sessions :
        /\ Cardinality(AdmittedOf(s)) + Cardinality(Passed(s))
             <= MaxPerSession + Cardinality(Users) - 1
        /\ recent[s] + Cardinality(Writing(s)) <= MaxMessages + Cardinality(Users) - 1

LimitsInv == DoorTypeOK /\ KindsInv /\ RoomInv

\* A step that lets nobody pass a check and adds nothing, a deposit the watcher
\* brings back apart.
Quiet ==
    /\ Open' \subseteq Open \/ \E d \in listed : Open' \subseteq Open \cup {d}
    /\ Admitted' \subseteq Admitted /\ Assigning' \subseteq Assigning
    /\ \A s \in Sessions :
        /\ AdmittedOf(s)' \subseteq AdmittedOf(s) /\ Passed(s)' \subseteq Passed(s)
        /\ recent'[s] <= recent[s] /\ Writing(s)' \subseteq Writing(s)

\* The numbers among the constants.
LEMMA DoorConstants ==
    /\ IsFiniteSet(Users) /\ Cardinality(Users) \in Nat /\ Cardinality(Users) > 0
    /\ MaxGlobal \in Nat /\ MaxGlobal > 0
    /\ MaxPerSession \in Nat /\ MaxPerSession > 0
    /\ MaxMessages \in Nat /\ MaxMessages > 0
    /\ NoSession \notin Sessions /\ FirstDeposit \in Ids
<1>1. Cardinality(Users) \in Nat /\ Cardinality(Users) # 0
  BY FrontDoorAssumption, FS_CardinalityType, FS_EmptySet
<1> QED  BY <1>1, FrontDoorAssumption

\* A part of a finite set is no larger.
LEMMA PartIsSmaller ==
    ASSUME NEW S, IsFiniteSet(S), NEW T, T \subseteq S
    PROVE  /\ IsFiniteSet(T) /\ Cardinality(T) \in Nat /\ Cardinality(S) \in Nat
           /\ Cardinality(T) <= Cardinality(S)
  BY FS_Subset, FS_CardinalityType

\* One more makes a set larger by one at most.
LEMMA OneMore ==
    ASSUME NEW S, IsFiniteSet(S), NEW x, NEW T, T \subseteq S \cup {x}
    PROVE  /\ IsFiniteSet(T) /\ Cardinality(T) \in Nat /\ Cardinality(S) \in Nat
           /\ Cardinality(T) <= Cardinality(S) + 1
<1>1. /\ IsFiniteSet(S \cup {x}) /\ Cardinality(S) \in Nat
      /\ Cardinality(S \cup {x}) = IF x \in S THEN Cardinality(S) ELSE Cardinality(S) + 1
  BY FS_AddElement, FS_CardinalityType
<1>2. /\ IsFiniteSet(T) /\ Cardinality(T) \in Nat /\ Cardinality(S \cup {x}) \in Nat
      /\ Cardinality(T) <= Cardinality(S \cup {x})
  BY <1>1, PartIsSmaller
<1> QED  BY <1>1, <1>2

\* Requests are finitely many, and so are those that have passed a check; one
\* that is not among them makes room for itself.
LEMMA UsersAreFinite ==
    ASSUME NEW S, S \subseteq Users
    PROVE  /\ IsFiniteSet(S) /\ Cardinality(S) \in Nat
           /\ Cardinality(S) <= Cardinality(Users)
  BY DoorConstants, PartIsSmaller

\* What holds its place is a part of what is open.
LEMMA AdmittedIsFinite ==
    ASSUME IsFiniteSet(Open)
    PROVE  /\ IsFiniteSet(Admitted) /\ Cardinality(Admitted) \in Nat
           /\ Cardinality(Admitted) <= Cardinality(Open)
           /\ \A s \in Sessions : IsFiniteSet(AdmittedOf(s))
<1>1. Admitted \subseteq Open /\ \A s \in Sessions : AdmittedOf(s) \subseteq Open
  BY DEF Admitted, AdmittedOf
<1> QED  BY <1>1, PartIsSmaller

\* Quiet steps keep the room.
LEMMA QuietRoom ==
    ASSUME LimitsInv, DoorTypeOK', Quiet
    PROVE  RoomInv'
<1>0. IsFiniteSet(Open')
  <2>1. IsFiniteSet(Open)
    BY DEF LimitsInv, RoomInv
  <2>2. CASE Open' \subseteq Open
    BY <2>1, <2>2, PartIsSmaller
  <2>3. CASE \E d \in listed : Open' \subseteq Open \cup {d}
    BY <2>1, <2>3, OneMore
  <2> QED  BY <2>2, <2>3 DEF Quiet
<1>1. /\ IsFiniteSet(Admitted) /\ Cardinality(Admitted') <= Cardinality(Admitted)
      /\ Cardinality(Admitted') \in Nat /\ Cardinality(Admitted) \in Nat
  <2>1. IsFiniteSet(Admitted)
    BY AdmittedIsFinite DEF LimitsInv, RoomInv
  <2> QED  BY <2>1, PartIsSmaller DEF Quiet
<1>2. /\ Cardinality(Assigning') <= Cardinality(Assigning)
      /\ Cardinality(Assigning') \in Nat /\ Cardinality(Assigning) \in Nat
  <2>1. IsFiniteSet(Assigning)
    BY UsersAreFinite DEF Assigning
  <2> QED  BY <2>1, PartIsSmaller DEF Quiet
<1>3. ASSUME NEW s \in Sessions
      PROVE  /\ Cardinality(AdmittedOf(s)') + Cardinality(Passed(s)')
                  <= MaxPerSession + Cardinality(Users) - 1
             /\ recent'[s] + Cardinality(Writing(s)')
                  <= MaxMessages + Cardinality(Users) - 1
  <2>1. IsFiniteSet(AdmittedOf(s)) /\ IsFiniteSet(Passed(s)) /\ IsFiniteSet(Writing(s))
    BY <1>1, PartIsSmaller, UsersAreFinite DEF AdmittedOf, Passed, Writing
  <2>2. /\ Cardinality(AdmittedOf(s)') <= Cardinality(AdmittedOf(s))
        /\ Cardinality(AdmittedOf(s)') \in Nat /\ Cardinality(AdmittedOf(s)) \in Nat
    BY <2>1, PartIsSmaller DEF Quiet
  <2>3. /\ Cardinality(Passed(s)') <= Cardinality(Passed(s))
        /\ Cardinality(Passed(s)') \in Nat /\ Cardinality(Passed(s)) \in Nat
    BY <2>1, PartIsSmaller DEF Quiet
  <2>4. /\ Cardinality(Writing(s)') <= Cardinality(Writing(s))
        /\ Cardinality(Writing(s)') \in Nat /\ Cardinality(Writing(s)) \in Nat
    BY <2>1, PartIsSmaller DEF Quiet
  <2>5. recent[s] \in Nat /\ recent'[s] \in Nat /\ recent'[s] <= recent[s]
    BY DEF LimitsInv, DoorTypeOK, Quiet
  <2> QED  BY <2>2, <2>3, <2>4, <2>5, DoorConstants DEF LimitsInv, RoomInv
<1> QED  BY <1>0, <1>1, <1>2, <1>3, DoorConstants DEF LimitsInv, RoomInv

\* The start of the process: one deposit, no request.
LEMMA DoorInitInv == Init => LimitsInv
<1> SUFFICES ASSUME Init PROVE LimitsInv
  OBVIOUS
<1> USE DoorConstants DEF Init
<1>1. DoorTypeOK
  BY DEF DoorTypeOK, Kinds
<1>2. KindsInv
  BY DEF KindsInv
<1>3. Open = {FirstDeposit} /\ Admitted = {FirstDeposit} /\ Assigning = {}
  BY DEF Open, Admitted, Assigning
<1>4. \A s \in Sessions : AdmittedOf(s) = {} /\ Passed(s) = {} /\ Writing(s) = {}
  BY <1>3 DEF AdmittedOf, OfSession, Passed, Writing
<1>5. RoomInv
  <2>1. IsFiniteSet(Open) /\ Cardinality(Admitted) = 1 /\ Cardinality({}) = 0
    BY <1>3, FS_Singleton, FS_EmptySet
  <2>2. Cardinality(Admitted) + Cardinality(Assigning) <= MaxGlobal + Cardinality(Users) - 1
    BY <1>3, <2>1
  <2>3. ASSUME NEW s \in Sessions
        PROVE  /\ Cardinality(AdmittedOf(s)) + Cardinality(Passed(s))
                    <= MaxPerSession + Cardinality(Users) - 1
               /\ recent[s] + Cardinality(Writing(s))
                    <= MaxMessages + Cardinality(Users) - 1
    <3>1. /\ Cardinality(AdmittedOf(s)) = 0 /\ Cardinality(Passed(s)) = 0
          /\ Cardinality(Writing(s)) = 0 /\ recent[s] = 0
      BY <1>4, <2>1
    <3>2. /\ 0 + 0 <= MaxPerSession + Cardinality(Users) - 1
          /\ 0 + 0 <= MaxMessages + Cardinality(Users) - 1
      BY DoorConstants
    <3> HIDE DEF Init
    <3> QED  BY <3>1, <3>2
  <2> QED  BY <2>1, <2>2, <2>3 DEF RoomInv
<1> QED  BY <1>1, <1>2, <1>5 DEF LimitsInv

\* A request that is answered.
LEMMA AnswerInv ==
    ASSUME LimitsInv, NEW h \in Users, Answer(h),
           UNCHANGED <<dep, depSession, listed, revived, recent>>
    PROVE  LimitsInv'
<1> USE DEF Answer
<1>1. DoorTypeOK'
  BY DEF LimitsInv, DoorTypeOK
<1>2. KindsInv'
  BY DEF LimitsInv, DoorTypeOK, KindsInv
<1>3. Quiet
  BY DEF LimitsInv, DoorTypeOK, Quiet, Open, Admitted, AdmittedOf, OfSession, Assigning,
         Passed, Writing
<1> QED  BY <1>1, <1>2, <1>3, QuietRoom DEF LimitsInv

\* A request that goes on without passing one of the three checks.
LEMMA GoesInv ==
    ASSUME LimitsInv, NEW h \in Users,
           NEW label \in {"resolve", "touch", "count", "balance", "reserve", "write",
                          "rate", "case", "create"},
           hpc' = [hpc EXCEPT ![h] = label],
           label \in {"resolve", "touch"} => kind[h] \notin {"start", "none"},
           UNCHANGED <<dep, depSession, listed, revived, recent, kind, who>>
    PROVE  LimitsInv'
<1>1. DoorTypeOK'
  BY DEF LimitsInv, DoorTypeOK
<1>2. KindsInv'
  BY DEF LimitsInv, DoorTypeOK, KindsInv
<1>3. Quiet
  BY DEF LimitsInv, DoorTypeOK, Quiet, Open, Admitted, AdmittedOf, OfSession, Assigning,
         Passed, Writing
<1> QED  BY <1>1, <1>2, <1>3, QuietRoom DEF LimitsInv

\* A step beside the requests that opens no deposit and adds no message.
LEMMA BesideInv ==
    ASSUME LimitsInv, DoorTypeOK', UNCHANGED <<revived, hpc, kind, who>>,
           Open' \subseteq Open,
           \A d \in Ids : depSession'[d] \in {depSession[d], NoSession},
           \A s \in Sessions : recent'[s] <= recent[s]
    PROVE  LimitsInv'
<1>1. KindsInv'
  BY DEF LimitsInv, KindsInv
<1>2. Quiet
  <2>1. Admitted' \subseteq Admitted /\ Admitted \subseteq Ids
    BY DEF Open, Admitted
  <2>2. ASSUME NEW s \in Sessions
        PROVE  AdmittedOf(s)' \subseteq AdmittedOf(s)
    BY <2>1, DoorConstants DEF AdmittedOf, OfSession
  <2> QED  BY <2>1, <2>2 DEF Quiet, Assigning, Passed, Writing
<1> QED  BY <1>1, <1>2, QuietRoom DEF LimitsInv

\* A request comes in.
LEMMA EnterInv ==
    ASSUME LimitsInv, NEW h \in Users, Enter(h)
    PROVE  LimitsInv'
<1>1. \E k \in Kinds, s \in Sessions \cup {NoSession}, label \in {"sweep", "resolve", "purge"} :
        /\ \E amount : Comes(h, k, s, amount, label)
        /\ label = "sweep" => k = "deposit"
        /\ label = "purge" => k \in {"start", "resume"}
        /\ label = "resolve" => k \notin {"start", "resume"}
        /\ k = "resume" => s # NoSession
  <2> USE DEF Kinds
  <2>1. CASE \E s \in Sessions \cup {NoSession} : EnterDeposit(h, s)
    BY <2>1 DEF EnterDeposit
  <2>2. CASE \E s \in Sessions \cup {NoSession} : EnterSupport(h, s)
    BY <2>2 DEF EnterSupport
  <2>3. CASE \E s \in Sessions \cup {NoSession} : EnterResume(h, s)
    BY <2>3 DEF EnterResume
  <2>4. CASE \E s \in Sessions \cup {NoSession} : \E a \in cast.amounts : EnterWithdrawal(h, s, a)
    BY <2>4 DEF EnterWithdrawal
  <2>5. CASE EnterStart(h)
    BY <2>5 DEF EnterStart
  <2> QED  BY <2>1, <2>2, <2>3, <2>4, <2>5 DEF Enter
<1> USE DEF Comes, depositVars, supportVars
<1>2. DoorTypeOK'
  BY <1>1 DEF LimitsInv, DoorTypeOK
<1>3. KindsInv'
  BY <1>1 DEF LimitsInv, DoorTypeOK, KindsInv, Kinds
<1>4. Quiet
  BY <1>1 DEF LimitsInv, DoorTypeOK, Quiet, Open, Admitted, AdmittedOf, OfSession, Assigning,
         Passed, Writing
<1> QED  BY <1>2, <1>3, <1>4, QuietRoom DEF LimitsInv

\* The sessions a request goes through, the expiry sweep and the purge.
LEMMA SessionInv ==
    ASSUME LimitsInv, NEW h \in Users,
           \/ \E done \in BOOLEAN : Touch(h, done)
           \/ \E s \in Sessions : CreateSession(h, s)
           \/ Resolve(h)
    PROVE  LimitsInv'
<1> USE DEF depositVars, supportVars, Goes
<1>1. CASE \E done \in BOOLEAN : Touch(h, done)
  <2>1. CASE kind[h] = "resume"
    BY <1>1, <2>1, AnswerInv DEF Touch
  <2>2. CASE kind[h] # "resume"
    <3>1. AfterSession[kind[h]] \in {"count", "balance", "rate"}
      BY <1>1, <2>2 DEF Touch, AfterSession, LimitsInv, KindsInv, DoorTypeOK, Kinds
    <3> QED  BY <1>1, <2>2, <3>1, GoesInv DEF Touch
  <2> QED  BY <2>1, <2>2
<1>2. CASE \E s \in Sessions : CreateSession(h, s)
  BY <1>2, AnswerInv DEF CreateSession
<1>3. CASE Resolve(h)
  <2>0. kind[h] \notin {"start", "none"} /\ UNCHANGED <<dep, depSession, listed, revived, recent>>
    BY <1>3 DEF Resolve, LimitsInv, KindsInv
  <2>1. CASE who[h] = NoSession
    <3>1. AfterSession[kind[h]] \in {"count", "balance", "rate"}
      BY <1>3, <2>1 DEF Resolve, AfterSession, LimitsInv, KindsInv, DoorTypeOK, Kinds
    <3> QED  BY <1>3, <2>0, <2>1, <3>1, GoesInv DEF Resolve
  <2>2. CASE who[h] # NoSession /\ sess[who[h]] = "live"
    BY <1>3, <2>0, <2>2, GoesInv DEF Resolve
  <2>3. CASE who[h] # NoSession /\ sess[who[h]] # "live"
    BY <1>3, <2>0, <2>3, AnswerInv DEF Resolve
  <2> QED  BY <2>1, <2>2, <2>3
<1> QED  BY <1>1, <1>2, <1>3

\* delete_expired_sessions: fewer deposits and messages of a session.
LEMMA PurgeInv ==
    ASSUME LimitsInv, NEW h \in Users, NEW done \in BOOLEAN, Purge(h, done)
    PROVE  LimitsInv'
<1> USE DEF Purge, Goes
<1>1. DoorTypeOK'
  BY DEF LimitsInv, DoorTypeOK
<1>2. KindsInv'
  BY DEF LimitsInv, DoorTypeOK, KindsInv
<1>3. /\ \A d \in Ids : depSession'[d] \in {depSession[d], NoSession}
      /\ \A s \in Sessions : recent'[s] <= recent[s]
  BY DEF LimitsInv, DoorTypeOK
<1>4. /\ Open' = Open /\ Admitted' = Admitted
      /\ \A s \in Sessions : AdmittedOf(s)' \subseteq AdmittedOf(s)
  BY <1>3, DoorConstants DEF Open, Admitted, AdmittedOf, OfSession
<1>5. /\ Assigning' \subseteq Assigning
      /\ \A s \in Sessions : Passed(s)' \subseteq Passed(s) /\ Writing(s)' \subseteq Writing(s)
  BY DEF LimitsInv, DoorTypeOK, Assigning, Passed, Writing
<1>6. Quiet
  BY <1>3, <1>4, <1>5 DEF Quiet
<1> QED  BY <1>1, <1>2, <1>6, QuietRoom DEF LimitsInv

\* expire_stale_pending_deposits, before the request goes on.
LEMMA SweepInv ==
    ASSUME LimitsInv, NEW h \in Users, Sweep(h)
    PROVE  LimitsInv'
<1> USE DEF Sweep, Expire, Goes, supportVars
<1>1. DoorTypeOK'
  BY DEF LimitsInv, DoorTypeOK
<1>2. KindsInv'
  BY DEF LimitsInv, DoorTypeOK, KindsInv
<1>3. /\ Open' \subseteq Open /\ Admitted' \subseteq Admitted
      /\ \A s \in Sessions : AdmittedOf(s)' \subseteq AdmittedOf(s)
  BY DEF LimitsInv, DoorTypeOK, Open, Admitted, AdmittedOf, OfSession
<1>4. /\ Assigning' \subseteq Assigning
      /\ \A s \in Sessions : /\ Passed(s)' \subseteq Passed(s)
                             /\ Writing(s)' \subseteq Writing(s)
                             /\ recent'[s] <= recent[s]
  BY DEF LimitsInv, DoorTypeOK, Assigning, Passed, Writing, supportVars
<1>5. Quiet
  BY <1>3, <1>4 DEF Quiet
<1> QED  BY <1>1, <1>2, <1>5, QuietRoom DEF LimitsInv

\* What the limits count is what is open, no less than what holds its place.
LEMMA CountedIsOpen ==
    ASSUME DoorTypeOK, IsFiniteSet(Open)
    PROVE  /\ Counted(Ids) \in Nat /\ Cardinality(Admitted) \in Nat
           /\ Cardinality(Admitted) <= Counted(Ids)
           /\ \A s \in Sessions : /\ Counted(OfSession(s)) \in Nat
                                  /\ Cardinality(AdmittedOf(s)) \in Nat
                                  /\ Cardinality(AdmittedOf(s)) <= Counted(OfSession(s))
<1>1. {d \in Ids : dep[d] \in CountedStates} = Open /\ Admitted \subseteq Open
  BY DEF DoorTypeOK, CountedStates, Open, Admitted
<1>2. ASSUME NEW s \in Sessions
      PROVE  /\ {d \in OfSession(s) : dep[d] \in CountedStates} \subseteq Open
             /\ AdmittedOf(s) \subseteq {d \in OfSession(s) : dep[d] \in CountedStates}
  BY DEF DoorTypeOK, CountedStates, Open, Admitted, AdmittedOf, OfSession
<1>3. ASSUME NEW s \in Sessions
      PROVE  /\ Counted(OfSession(s)) \in Nat /\ Cardinality(AdmittedOf(s)) \in Nat
             /\ Cardinality(AdmittedOf(s)) <= Counted(OfSession(s))
  <2>1. IsFiniteSet({d \in OfSession(s) : dep[d] \in CountedStates})
    BY <1>2, PartIsSmaller
  <2> QED  BY <1>2, <2>1, PartIsSmaller DEF Counted
<1>4. Counted(Ids) = Cardinality(Open)
  BY <1>1 DEF Counted
<1> QED  BY <1>1, <1>3, <1>4, PartIsSmaller

\* The check of a session's limit leaves room for all requests but one.
LEMMA CountSessionInv ==
    ASSUME LimitsInv, NEW h \in Users, CountSession(h)
    PROVE  LimitsInv'
<1> USE DEF depositVars, supportVars
<1>1. CASE who[h] # NoSession /\ Counted(OfSession(who[h])) >= MaxPerSession
  BY <1>1, AnswerInv DEF CountSession
<1>2. CASE ~(who[h] # NoSession /\ Counted(OfSession(who[h])) >= MaxPerSession)
  <2> USE <1>2 DEF CountSession, Goes
  <2>1. DoorTypeOK'
    BY DEF LimitsInv, DoorTypeOK
  <2>2. KindsInv'
    BY DEF LimitsInv, DoorTypeOK, KindsInv
  <2>3. Open' = Open /\ Admitted' = Admitted /\ Assigning' = Assigning /\ recent' = recent
    BY DEF LimitsInv, DoorTypeOK, Open, Admitted, Assigning
  <2>4. ASSUME NEW s \in Sessions
        PROVE  AdmittedOf(s)' = AdmittedOf(s) /\ Writing(s)' = Writing(s)
    BY <2>3 DEF LimitsInv, DoorTypeOK, AdmittedOf, OfSession, Writing
  <2>5. ASSUME NEW s \in Sessions
        PROVE  Cardinality(AdmittedOf(s)') + Cardinality(Passed(s)')
                 <= MaxPerSession + Cardinality(Users) - 1
    <3>1. CASE who[h] = s
      <4>1. ~(Counted(OfSession(s)) >= MaxPerSession)
        BY <3>1, DoorConstants
      <4>2. /\ Cardinality(AdmittedOf(s)) \in Nat
            /\ Cardinality(AdmittedOf(s)) < MaxPerSession
        BY <4>1, CountedIsOpen, DoorConstants DEF LimitsInv, RoomInv
      <4>3. Cardinality(Passed(s)') \in Nat /\ Cardinality(Passed(s)') <= Cardinality(Users)
        BY UsersAreFinite DEF Passed
      <4> QED  BY <2>4, <4>2, <4>3, DoorConstants
    <3>2. CASE who[h] # s
      <4>1. Passed(s)' = Passed(s)
        BY <3>2 DEF LimitsInv, DoorTypeOK, Passed
      <4> QED  BY <2>4, <4>1 DEF LimitsInv, RoomInv
    <3> QED  BY <3>1, <3>2
  <2>6. RoomInv'
    BY <2>3, <2>4, <2>5 DEF LimitsInv, RoomInv
  <2> QED  BY <2>1, <2>2, <2>6 DEF LimitsInv
<1> QED  BY <1>1, <1>2

\* The check of the limit on all deposits, in the same way.
LEMMA CountGlobalInv ==
    ASSUME LimitsInv, NEW h \in Users, CountGlobal(h)
    PROVE  LimitsInv'
<1> USE DEF depositVars, supportVars
<1>1. CASE Counted(Ids) >= MaxGlobal
  BY <1>1, AnswerInv DEF CountGlobal
<1>2. CASE ~(Counted(Ids) >= MaxGlobal)
  <2> USE <1>2 DEF CountGlobal, Goes
  <2>1. DoorTypeOK'
    BY DEF LimitsInv, DoorTypeOK
  <2>2. KindsInv'
    BY DEF LimitsInv, DoorTypeOK, KindsInv
  <2>3. Open' = Open /\ Admitted' = Admitted /\ recent' = recent
    BY DEF Open, Admitted
  <2>4. ASSUME NEW s \in Sessions
        PROVE  /\ AdmittedOf(s)' = AdmittedOf(s) /\ Passed(s)' = Passed(s)
               /\ Writing(s)' = Writing(s)
    BY <2>3 DEF LimitsInv, DoorTypeOK, AdmittedOf, OfSession, Passed, Writing
  <2>5. Cardinality(Admitted') + Cardinality(Assigning') <= MaxGlobal + Cardinality(Users) - 1
    <3>1. /\ Cardinality(Admitted) \in Nat /\ Counted(Ids) \in Nat
          /\ Cardinality(Admitted) <= Counted(Ids)
      BY CountedIsOpen DEF LimitsInv, RoomInv
    <3>2. Cardinality(Admitted) < MaxGlobal
      BY <3>1, DoorConstants
    <3>3. Cardinality(Assigning') \in Nat /\ Cardinality(Assigning') <= Cardinality(Users)
      BY UsersAreFinite DEF Assigning
    <3> QED  BY <2>3, <3>1, <3>2, <3>3, DoorConstants
  <2>6. RoomInv'
    BY <2>3, <2>4, <2>5 DEF LimitsInv, RoomInv
  <2> QED  BY <2>1, <2>2, <2>6 DEF LimitsInv
<1> QED  BY <1>1, <1>2

\* The insert: the deposit is open, and its request has passed nothing any
\* more.
LEMMA InsertDepositInv ==
    ASSUME LimitsInv, NEW h \in Users, NEW done \in BOOLEAN, InsertDeposit(h, done)
    PROVE  LimitsInv'
<1> USE DEF depositVars, supportVars
<1>1. CASE ~(done /\ Exists(who[h]))
  BY <1>1, AnswerInv DEF InsertDeposit
<1>2. CASE done /\ Exists(who[h])
  <2> DEFINE new == asking[h]
  <2> USE <1>2 DEF InsertDeposit, Answer
  <2>0. /\ dep' = [dep EXCEPT ![new] = "pending"]
        /\ depSession' = [depSession EXCEPT ![new] = who[h]]
    OBVIOUS
  <2>1. DoorTypeOK'
    BY <2>0 DEF LimitsInv, DoorTypeOK
  <2>2. KindsInv'
    BY DEF LimitsInv, DoorTypeOK, KindsInv
  <2>3. /\ Open' \subseteq Open \cup {new} /\ Admitted' \subseteq Admitted \cup {new}
        /\ h \in Assigning /\ Assigning' = Assigning \ {h}
    BY <2>0 DEF LimitsInv, DoorTypeOK, Open, Admitted, Assigning
  <2>4. /\ IsFiniteSet(Open')
        /\ Cardinality(Admitted') + Cardinality(Assigning')
             <= MaxGlobal + Cardinality(Users) - 1
    <3>1. /\ IsFiniteSet(Open) /\ IsFiniteSet(Admitted)
          /\ Cardinality(Admitted) + Cardinality(Assigning)
               <= MaxGlobal + Cardinality(Users) - 1
      BY AdmittedIsFinite DEF LimitsInv, RoomInv
    <3>2. /\ IsFiniteSet(Open')
          /\ Cardinality(Admitted') \in Nat /\ Cardinality(Admitted) \in Nat
          /\ Cardinality(Admitted') <= Cardinality(Admitted) + 1
      BY <2>3, <3>1, OneMore
    <3>3. /\ Cardinality(Assigning) \in Nat
          /\ Cardinality(Assigning') = Cardinality(Assigning) - 1
      BY <2>3, UsersAreFinite, FS_RemoveElement DEF Assigning
    <3> HIDE DEF InsertDeposit, Answer
    <3> QED  BY <3>1, <3>2, <3>3, DoorConstants
  <2>5. ASSUME NEW s \in Sessions
        PROVE  /\ Cardinality(AdmittedOf(s)') + Cardinality(Passed(s)')
                    <= MaxPerSession + Cardinality(Users) - 1
               /\ recent'[s] + Cardinality(Writing(s)')
                    <= MaxMessages + Cardinality(Users) - 1
    <3>1. IsFiniteSet(AdmittedOf(s)) /\ IsFiniteSet(Passed(s))
      BY AdmittedIsFinite, UsersAreFinite DEF Passed, LimitsInv, RoomInv
    <3>2. CASE who[h] = s
      <4>1. AdmittedOf(s)' \subseteq AdmittedOf(s) \cup {new}
        BY <2>0, <2>3 DEF LimitsInv, DoorTypeOK, AdmittedOf, OfSession
      <4>2. h \in Passed(s) /\ Passed(s)' = Passed(s) \ {h}
        BY <3>2, DoorConstants DEF LimitsInv, DoorTypeOK, Passed
      <4>4. /\ Cardinality(AdmittedOf(s)') \in Nat /\ Cardinality(AdmittedOf(s)) \in Nat
            /\ Cardinality(AdmittedOf(s)') <= Cardinality(AdmittedOf(s)) + 1
        BY <3>1, <4>1, OneMore
      <4>5. /\ Cardinality(Passed(s)) \in Nat
            /\ Cardinality(Passed(s)') = Cardinality(Passed(s)) - 1
        BY <3>1, <4>2, FS_RemoveElement, FS_CardinalityType
      <4>6. recent' = recent /\ Writing(s)' = Writing(s)
        BY DoorConstants DEF LimitsInv, DoorTypeOK, Writing
      <4> QED  BY <4>4, <4>5, <4>6, DoorConstants DEF LimitsInv, RoomInv
    <3>3. CASE who[h] # s
      <4>1. AdmittedOf(s)' \subseteq AdmittedOf(s)
        BY <2>0, <2>3, <3>3 DEF LimitsInv, DoorTypeOK, Open, Admitted, AdmittedOf, OfSession
      <4>2. Passed(s)' = Passed(s)
        BY <3>3, DoorConstants DEF LimitsInv, DoorTypeOK, Passed
      <4>3. /\ Cardinality(AdmittedOf(s)') \in Nat /\ Cardinality(AdmittedOf(s)) \in Nat
            /\ Cardinality(AdmittedOf(s)') <= Cardinality(AdmittedOf(s))
            /\ Cardinality(Passed(s)) \in Nat
        BY <3>1, <4>1, PartIsSmaller, FS_CardinalityType
      <4>4. recent' = recent /\ Writing(s)' = Writing(s)
        BY DoorConstants DEF LimitsInv, DoorTypeOK, Writing
      <4> QED  BY <4>2, <4>3, <4>4, DoorConstants DEF LimitsInv, RoomInv
    <3> QED  BY <3>2, <3>3
  <2>6. RoomInv'
    BY <2>4, <2>5 DEF RoomInv
  <2> QED  BY <2>1, <2>2, <2>6 DEF LimitsInv
<1> QED  BY <1>1, <1>2

\* The check of the messages of a session.
LEMMA CountMessagesInv ==
    ASSUME LimitsInv, NEW h \in Users, CountMessages(h)
    PROVE  LimitsInv'
<1> USE DEF depositVars, supportVars
<1>1. CASE recent[who[h]] >= MaxMessages
  BY <1>1, AnswerInv DEF CountMessages
<1>2. CASE ~(recent[who[h]] >= MaxMessages)
  <2> USE <1>2 DEF CountMessages, Goes
  <2>1. DoorTypeOK'
    BY DEF LimitsInv, DoorTypeOK
  <2>2. KindsInv'
    BY DEF LimitsInv, DoorTypeOK, KindsInv
  <2>3. Open' = Open /\ Admitted' = Admitted /\ Assigning' = Assigning /\ recent' = recent
    BY DEF LimitsInv, DoorTypeOK, Open, Admitted, Assigning
  <2>4. ASSUME NEW s \in Sessions
        PROVE  AdmittedOf(s)' = AdmittedOf(s) /\ Passed(s)' = Passed(s)
    BY <2>3 DEF LimitsInv, DoorTypeOK, AdmittedOf, OfSession, Passed
  <2>5. ASSUME NEW s \in Sessions
        PROVE  recent'[s] + Cardinality(Writing(s)') <= MaxMessages + Cardinality(Users) - 1
    <3>1. CASE who[h] = s
      <4>1. Cardinality(Writing(s)') \in Nat /\ Cardinality(Writing(s)') <= Cardinality(Users)
        BY UsersAreFinite DEF Writing
      <4>2. recent[s] \in Nat /\ recent[s] < MaxMessages
        BY <3>1, DoorConstants DEF LimitsInv, DoorTypeOK
      <4> QED  BY <2>3, <4>1, <4>2, DoorConstants
    <3>2. CASE who[h] # s
      <4>1. Writing(s)' = Writing(s)
        BY <3>2 DEF LimitsInv, DoorTypeOK, Writing
      <4> QED  BY <2>3, <4>1 DEF LimitsInv, RoomInv
    <3> QED  BY <3>1, <3>2
  <2>6. RoomInv'
    BY <2>3, <2>4, <2>5 DEF LimitsInv, RoomInv
  <2> QED  BY <2>1, <2>2, <2>6 DEF LimitsInv
<1> QED  BY <1>1, <1>2

\* The message is written and its request goes on to the case.
LEMMA InsertMessageInv ==
    ASSUME LimitsInv, NEW h \in Users, InsertMessage(h)
    PROVE  LimitsInv'
<1> USE DEF depositVars
<1>1. CASE ~Exists(who[h])
  BY <1>1, AnswerInv DEF InsertMessage
<1>2. CASE Exists(who[h])
  <2> USE <1>2 DEF InsertMessage, Goes
  <2>1. DoorTypeOK'
    BY DEF LimitsInv, DoorTypeOK
  <2>2. KindsInv'
    BY DEF LimitsInv, DoorTypeOK, KindsInv
  <2>3. Open' = Open /\ Admitted' = Admitted /\ Assigning' = Assigning
    BY DEF LimitsInv, DoorTypeOK, Open, Admitted, Assigning
  <2>4. ASSUME NEW s \in Sessions
        PROVE  AdmittedOf(s)' = AdmittedOf(s) /\ Passed(s)' = Passed(s)
    BY <2>3 DEF LimitsInv, DoorTypeOK, AdmittedOf, OfSession, Passed
  <2>5. ASSUME NEW s \in Sessions
        PROVE  recent'[s] + Cardinality(Writing(s)') <= MaxMessages + Cardinality(Users) - 1
    <3>1. CASE who[h] = s
      <4>1. h \in Writing(s) /\ Writing(s)' = Writing(s) \ {h}
        BY <3>1 DEF LimitsInv, DoorTypeOK, Writing
      <4>2. /\ Cardinality(Writing(s)) \in Nat
            /\ Cardinality(Writing(s)') = Cardinality(Writing(s)) - 1
        BY <4>1, UsersAreFinite, FS_RemoveElement DEF Writing
      <4>3. recent[s] \in Nat /\ recent'[s] = recent[s] + 1
        BY <3>1 DEF LimitsInv, DoorTypeOK
      <4> QED  BY <4>2, <4>3, DoorConstants DEF LimitsInv, RoomInv
    <3>2. CASE who[h] # s
      <4>1. Writing(s)' = Writing(s) /\ recent'[s] = recent[s]
        BY <3>2 DEF LimitsInv, DoorTypeOK, Writing
      <4> QED  BY <4>1 DEF LimitsInv, RoomInv
    <3> QED  BY <3>1, <3>2
  <2>6. RoomInv'
    BY <2>3, <2>4, <2>5 DEF LimitsInv, RoomInv
  <2> QED  BY <2>1, <2>2, <2>6 DEF LimitsInv
<1> QED  BY <1>1, <1>2

\* The float: a withdrawal touches none of the three limits.
LEMMA WithdrawalInv ==
    ASSUME LimitsInv, NEW h \in Users,
           \/ ReadBalance(h) \/ ReadReserved(h) \/ InsertWithdrawalFails(h)
           \/ \E state \in {"funding", "queued"} : InsertWithdrawal(h, state)
    PROVE  LimitsInv'
<1> USE DEF depositVars, supportVars
<1>1. CASE ReadBalance(h)
  BY <1>1, GoesInv DEF ReadBalance
<1>2. CASE InsertWithdrawalFails(h)
  BY <1>2, AnswerInv DEF InsertWithdrawalFails
<1>3. CASE ReadReserved(h)
  <2>1. CASE asks[h] > Sub(seen[h], SumOf(Reserved)) \div CapParts
    BY <1>3, <2>1, AnswerInv DEF ReadReserved
  <2>2. CASE ~(asks[h] > Sub(seen[h], SumOf(Reserved)) \div CapParts)
    BY <1>3, <2>2, GoesInv DEF ReadReserved
  <2> QED  BY <2>1, <2>2
<1>4. ASSUME NEW state \in {"funding", "queued"}, InsertWithdrawal(h, state)
      PROVE  LimitsInv'
  <2> USE <1>4 DEF InsertWithdrawal
  <2>1. DoorTypeOK'
    BY DEF LimitsInv, DoorTypeOK
  <2>2. KindsInv'
    BY DEF LimitsInv, DoorTypeOK, KindsInv
  <2>3. Quiet
    BY DEF LimitsInv, DoorTypeOK, Quiet, Open, Admitted, AdmittedOf, OfSession, Assigning,
         Passed, Writing
  <2> QED  BY <2>1, <2>2, <2>3, QuietRoom DEF LimitsInv
<1> QED  BY <1>1, <1>2, <1>3, <1>4

\* The write of the watcher: a deposit it brings back after it was closed is
\* open again and holds no place.
LEMMA WatcherWritesInv ==
    ASSUME LimitsInv, NEW d \in Ids, NEW next \in {"partial", "confirming", "closed"},
           WatcherWrites(d, next)
    PROVE  LimitsInv'
<1> USE DEF WatcherWrites, supportVars, requestVars
<1>1. DoorTypeOK'
  BY DEF LimitsInv, DoorTypeOK
<1>2. KindsInv'
  BY DEF LimitsInv, KindsInv
<1>3. d \in listed /\ Open' \subseteq Open \cup {d}
  BY DEF LimitsInv, DoorTypeOK, Open
<1>4. Admitted' \subseteq Admitted
  BY DEF LimitsInv, DoorTypeOK, Open, Admitted
<1>5. /\ \A s \in Sessions : AdmittedOf(s)' \subseteq AdmittedOf(s)
      /\ UNCHANGED <<hpc, who, recent>>
  BY <1>4 DEF AdmittedOf, OfSession
<1>6. \A s \in Sessions : recent'[s] <= recent[s]
  BY <1>5 DEF LimitsInv, DoorTypeOK
<1>7. Quiet
  BY <1>3, <1>4, <1>5, <1>6 DEF Quiet, Assigning, Passed, Writing
<1> QED  BY <1>1, <1>2, <1>7, QuietRoom DEF LimitsInv

\* The rest of the backend, and the process.
LEMMA WorldInv ==
    ASSUME LimitsInv,
           RefillTask \/ ModeTask \/ Outside \/ (\E loaded \in BOOLEAN : Restart(loaded))
    PROVE  LimitsInv'
<1> USE DEF depositVars, supportVars, requestVars
<1>1. CASE RefillTask \/ ModeTask
  <2>1. UNCHANGED <<dep, depSession, listed, revived, recent, hpc, kind, who>>
    BY <1>1 DEF RefillTask, ModeTask, doorVars
  <2> QED  BY <2>1, BesideInv DEF LimitsInv, DoorTypeOK, Open
<1>2. CASE \E s \in Sessions : SessionAges(s) \/ MessagesAge(s)
  <2>1. UNCHANGED <<dep, depSession, listed, revived, hpc, kind, who>>
    BY <1>2 DEF SessionAges, MessagesAge
  <2>2. /\ recent' \in [Sessions -> Nat] /\ \A s \in Sessions : recent'[s] <= recent[s]
    BY <1>2 DEF SessionAges, MessagesAge, LimitsInv, DoorTypeOK
  <2> QED  BY <2>1, <2>2, BesideInv DEF LimitsInv, DoorTypeOK, Open
<1>3. CASE \E s \in Sessions, status \in {"open", "closed"} : SetCaseStatus(s, status)
  <2>1. UNCHANGED <<dep, depSession, listed, revived, recent, hpc, kind, who>>
    BY <1>3 DEF SetCaseStatus
  <2> QED  BY <2>1, BesideInv DEF LimitsInv, DoorTypeOK, Open
<1>4. ASSUME NEW d \in Ids, DepositCloses(d)
      PROVE  LimitsInv'
  <2>1. UNCHANGED <<depSession, listed, revived, recent, hpc, kind, who>>
    BY <1>4 DEF DepositCloses
  <2>2. DoorTypeOK' /\ Open' \subseteq Open
    BY <1>4, <2>1 DEF DepositCloses, LimitsInv, DoorTypeOK, Open
  <2> QED  BY <2>1, <2>2, BesideInv DEF LimitsInv, DoorTypeOK
<1>5. CASE WatcherLists
  <2>1. UNCHANGED <<dep, depSession, revived, recent, hpc, kind, who>>
    BY <1>5 DEF WatcherLists
  <2>2. DoorTypeOK' /\ Open' = Open
    BY <1>5, <2>1 DEF WatcherLists, LimitsInv, DoorTypeOK, Open
  <2> QED  BY <2>1, <2>2, BesideInv DEF LimitsInv, DoorTypeOK
<1>7. ASSUME NEW d \in Ids, NEW next \in {"partial", "confirming", "closed"},
             WatcherWrites(d, next)
      PROVE  LimitsInv'
  BY <1>7, WatcherWritesInv
<1>8. CASE \/ \E w \in Withdrawals : Funded(w) \/ GivenUp(w) \/ Settled(w) \/ Requeued(w)
           \/ ListQueued \/ WalletSyncs
           \/ \E fee \in Fees : \/ \E w \in Withdrawals : PaysOut(w, fee)
                                \/ \E sats \in Amounts : OperatorPays(sats, fee)
  <2>1. UNCHANGED <<dep, depSession, listed, revived, recent, hpc, kind, who>>
    BY <1>8 DEF Funded, GivenUp, Settled, WithdrawalMoves, Requeued, ListQueued,
                WalletSyncs, PaysOut, OperatorPays
  <2>2. Open' = Open
    BY <2>1 DEF Open
  <2> QED  BY <2>1, <2>2, BesideInv DEF LimitsInv, DoorTypeOK
<1>6. ASSUME NEW loaded \in BOOLEAN, Restart(loaded)
      PROVE  LimitsInv'
  <2> USE <1>6 DEF Restart
  <2>1. DoorTypeOK'
    BY DEF LimitsInv, DoorTypeOK
  <2>2. KindsInv'
    BY DEF KindsInv
  <2>3. Quiet
    BY DEF LimitsInv, DoorTypeOK, Quiet, Open, Admitted, AdmittedOf, OfSession, Assigning,
         Passed, Writing
  <2> QED  BY <2>1, <2>2, <2>3, QuietRoom DEF LimitsInv
<1> QED  BY <1>1, <1>2, <1>3, <1>4, <1>5, <1>6, <1>7, <1>8 DEF Outside

\* Every step keeps the room.
LEMMA LimitsNext == LimitsInv /\ [Next]_vars => LimitsInv'
<1> SUFFICES ASSUME LimitsInv, [Next]_vars PROVE LimitsInv'
  OBVIOUS
<1> USE DEF depositVars, supportVars
<1>1. CASE UNCHANGED vars
  <2>1. UNCHANGED <<dep, depSession, listed, revived, recent, hpc, kind, who>>
    BY <1>1 DEF vars, doorVars, requestVars
  <2> QED  BY <2>1, BesideInv DEF LimitsInv, DoorTypeOK, Open
<1>2. ASSUME NEW h \in Users, RequestStep(h)
      PROVE  LimitsInv'
  <2>1. CASE \E done \in BOOLEAN : Purge(h, done)
    BY <2>1, PurgeInv
  <2>2. CASE \/ \E done \in BOOLEAN : Touch(h, done)
             \/ \E s \in Sessions : CreateSession(h, s)
             \/ Resolve(h)
    BY <2>2, SessionInv
  <2>3. CASE Sweep(h)
    BY <2>3, SweepInv
  <2>4. CASE CountSession(h) \/ CountGlobal(h)
    BY <2>4, CountSessionInv, CountGlobalInv
  <2>5. CASE AssignStep(h)
    <3>1. UNCHANGED <<dep, depSession, listed, revived, recent, hpc, kind, who>>
      BY <2>5 DEF AssignStep, doorVars, requestVars
    <3> QED  BY <3>1, BesideInv DEF LimitsInv, DoorTypeOK, Open
  <2>6. CASE \E done \in BOOLEAN : InsertDeposit(h, done)
    BY <2>6, InsertDepositInv
  <2>7. CASE \/ ReadBalance(h) \/ ReadReserved(h) \/ InsertWithdrawalFails(h)
             \/ \E state \in {"funding", "queued"} : InsertWithdrawal(h, state)
    BY <2>7, WithdrawalInv
  <2>8. CASE CountMessages(h) \/ InsertMessage(h)
    BY <2>8, CountMessagesInv, InsertMessageInv
  <2>9. CASE OpenCase(h)
    BY <2>9, AnswerInv DEF OpenCase
  <2> QED  BY <1>2, <2>1, <2>2, <2>3, <2>4, <2>5, <2>6, <2>7, <2>8, <2>9 DEF RequestStep
<1>3. ASSUME NEW h \in Users, Enter(h)
      PROVE  LimitsInv'
  BY <1>3, EnterInv
<1>4. ASSUME NEW h \in Users, GiveUp(h) \/ AssignFails(h)
      PROVE  LimitsInv'
  BY <1>4, AnswerInv DEF GiveUp, AssignFails
<1>5. CASE RefillTask \/ ModeTask \/ Outside \/ (\E loaded \in BOOLEAN : Restart(loaded))
  BY <1>5, WorldInv
<1> QED  BY <1>1, <1>2, <1>3, <1>4, <1>5 DEF Next

\* The inductive invariant behind the limits: what was let in and kept its place
\* since, and what those who have passed a check will add.  The watcher lists no
\* deposit that is not there, so what it brings back was closed before.
THEOREM RoomInvariance == Spec => []LimitsInv
  BY DoorInitInv, LimitsNext, PTL DEF Spec

\* LimitsHold (create_deposit, submit_support_message): requests that run side
\* by side pass a limit by less than their number, however many they are; only
\* deposits that update_deposit_chain_state brought back come on top.
THEOREM LimitsAlwaysHold == Spec => []LimitsHold
<1>1. LimitsInv => LimitsHold
  <2> SUFFICES ASSUME LimitsInv PROVE LimitsHold
    OBVIOUS
  <2>1. Cardinality(Admitted) <= MaxGlobal + (Cardinality(Users) - 1)
    <3>1. Cardinality(Admitted) \in Nat /\ Cardinality(Assigning) \in Nat
      BY UsersAreFinite, AdmittedIsFinite DEF LimitsInv, RoomInv, Assigning
    <3> QED  BY <3>1, DoorConstants DEF LimitsInv, RoomInv
  <2>2. ASSUME NEW s \in Sessions
        PROVE  /\ Cardinality(AdmittedOf(s)) <= MaxPerSession + (Cardinality(Users) - 1)
               /\ recent[s] <= MaxMessages + (Cardinality(Users) - 1)
    <3>1. /\ Cardinality(AdmittedOf(s)) \in Nat /\ Cardinality(Passed(s)) \in Nat
          /\ Cardinality(Writing(s)) \in Nat /\ recent[s] \in Nat
      BY AdmittedIsFinite, FS_CardinalityType, UsersAreFinite
      DEF LimitsInv, RoomInv, DoorTypeOK, Passed, Writing
    <3> QED  BY <3>1, DoorConstants DEF LimitsInv, RoomInv
  <2> QED  BY <2>1, <2>2 DEF LimitsHold, Admitted, AdmittedOf
<1> QED  BY <1>1, RoomInvariance, PTL

--------------------------------------------------------------------------------
(***************************************************************************)
(* The refill.  Callers of ensure_capacity that have counted fewer         *)
(* addresses than the target will each insert what they found missing,     *)
(* whatever the others insert meanwhile.                                   *)
(***************************************************************************)

\* The callers that will insert, and what callers with certain counts insert.
Filling == {u \in Fillers : ppc[u] \in {"max", "insert"}}
Missing(counts) == [u \in Fillers |-> Target - counts[u]]
ToInsert(counts, us) == SumFunctionOnSet(Missing(counts), us)
Counts == [Fillers -> 0..Target]
Ceiling == Target * Cardinality(Fillers)

RefillInv ==
    /\ PoolInv
    /\ \A u \in Filling : available[u] < Target
    /\ RefillBounded

\* The callers are finitely many, and what they will insert is a number.
LEMMA FillersAreFinite ==
    /\ IsFiniteSet(Fillers) /\ Ceiling \in Nat
    /\ \A us \in SUBSET Fillers : IsFiniteSet(us)
    /\ \A counts \in Counts, u \in Fillers : Missing(counts)[u] \in 0..Target
    /\ \A counts \in Counts, us \in SUBSET Fillers : ToInsert(counts, us) \in Nat
<1>1. IsFiniteSet(Fillers) /\ \A us \in SUBSET Fillers : IsFiniteSet(us)
  BY DoorConstants, FS_AddElement, FS_Subset DEF Fillers
<1>2. \A counts \in Counts, u \in Fillers : Missing(counts)[u] \in 0..Target
  BY PoolConstants DEF Missing, Counts
<1>3. ASSUME NEW counts \in Counts, NEW us \in SUBSET Fillers
      PROVE  ToInsert(counts, us) \in Nat
  <2>1. IsFiniteSet(us) /\ \A u \in us : Missing(counts)[u] \in Nat
    BY <1>1, <1>2, PoolConstants
  <2> QED  BY <2>1, SumNat DEF ToInsert
<1>4. Ceiling \in Nat
  BY <1>1, PoolConstants, FS_CardinalityType DEF Ceiling
<1> QED  BY <1>1, <1>2, <1>3, <1>4

\* The available addresses are finitely many, and fewer after a claim.
LEMMA FewerFree ==
    ASSUME NEW few \in SUBSET Free
    PROVE  /\ IsFiniteSet(Free) /\ IsFiniteSet(few)
           /\ Cardinality(Free) \in Nat /\ Cardinality(few) \in Nat
           /\ Cardinality(few) <= Cardinality(Free)
<1>1. IsFiniteSet(Indexes)
  BY PoolConstants, FS_Interval DEF Indexes
<1>2. IsFiniteSet(Free)
  BY <1>1, FS_Subset DEF Free
<1> QED  BY <1>2, PartIsSmaller

\* RefillBounded in these words.
LEMMA BoundOfRefill ==
    RefillBounded <=> Cardinality(Free) + ToInsert(available, Filling) <= Ceiling
  BY DEF RefillBounded, ToInsert, Missing, Filling, Ceiling

\* Callers whose counts are as they were will insert as much as before.
LEMMA SameToInsert ==
    ASSUME NEW a \in Counts, NEW b \in Counts, NEW us \in SUBSET Fillers,
           \A u \in us : a[u] = b[u]
    PROVE  ToInsert(a, us) = ToInsert(b, us)
<1>1. \A u \in us : Missing(a)[u] = Missing(b)[u]
  BY DEF Missing
<1>2. IsFiniteSet(us)
  BY FillersAreFinite
<1> QED  BY <1>1, <1>2, SumSame DEF ToInsert

\* Fewer callers will insert no more.
LEMMA FewerToInsert ==
    ASSUME NEW a \in Counts, NEW us \in SUBSET Fillers, NEW vs \in SUBSET us
    PROVE  ToInsert(a, vs) <= ToInsert(a, us)
<1>1. IsFiniteSet(us) /\ \A u \in us : Missing(a)[u] \in Nat
  BY FillersAreFinite, PoolConstants
<1> QED  BY <1>1, SumSubset DEF ToInsert

\* One caller's share.
LEMMA ShareToInsert ==
    ASSUME NEW a \in Counts, NEW us \in SUBSET Fillers, NEW u \in us
    PROVE  ToInsert(a, us) = (Target - a[u]) + ToInsert(a, us \ {u})
<1>1. IsFiniteSet(us) /\ \A v \in us : Missing(a)[v] \in Nat
  BY FillersAreFinite, PoolConstants
<1>2. Missing(a)[u] = Target - a[u]
  BY DEF Missing
<1> QED  BY <1>1, <1>2, SumRemove DEF ToInsert

\* Nobody inserts more than the target.
LEMMA MostToInsert ==
    ASSUME NEW a \in Counts, NEW us \in SUBSET Fillers
    PROVE  ToInsert(a, us) <= Ceiling
<1>1. ToInsert(a, us) <= ToInsert(a, Fillers)
  BY FewerToInsert
<1>2. ToInsert(a, Fillers) <= Ceiling
  BY FillersAreFinite, PoolConstants, SumBounded DEF ToInsert, Ceiling
<1> QED  BY <1>1, <1>2, FillersAreFinite

\* A step that adds no address and lets nobody begin to insert.
LEMMA RefillQuiet ==
    ASSUME RefillInv, PoolInv', Free' \subseteq Free, Filling' \subseteq Filling,
           \A u \in Filling' : available'[u] = available[u]
    PROVE  RefillInv'
<1>1. /\ Filling \in SUBSET Fillers /\ Filling' \in SUBSET Filling
      /\ available \in Counts /\ available' \in Counts
  BY DEF Filling, RefillInv, PoolInv, PoolTypeOK, Counts
<1>2. /\ ToInsert(available', Filling') = ToInsert(available, Filling')
      /\ ToInsert(available, Filling') <= ToInsert(available, Filling)
  BY <1>1, SameToInsert, FewerToInsert
<1>3. /\ Cardinality(Free') <= Cardinality(Free)
      /\ Cardinality(Free') \in Nat /\ Cardinality(Free) \in Nat
  BY FewerFree
<1>4. /\ ToInsert(available, Filling) \in Nat /\ ToInsert(available, Filling') \in Nat
      /\ Ceiling \in Nat
  BY <1>1, FillersAreFinite
<1>5. Cardinality(Free') + ToInsert(available', Filling') <= Ceiling
  BY <1>2, <1>3, <1>4, BoundOfRefill DEF RefillInv
<1>6. RefillBounded'
  BY <1>5 DEF RefillBounded, ToInsert, Missing, Filling, Ceiling
<1> QED  BY <1>1, <1>6 DEF RefillInv

\* A caller that begins inserts what it found missing; the addresses there are
\* and this make up the target, and the others have the target each at most.
LEMMA RefillBegins ==
    ASSUME RefillInv, PoolInv', NEW u \in Fillers, u \notin Filling,
           Free' = Free, Filling' = Filling \cup {u},
           available' = [available EXCEPT ![u] = Cardinality(Free)],
           Cardinality(Free) < Target
    PROVE  RefillInv'
<1> DEFINE full == [available EXCEPT ![u] = 0]
<1>1. /\ Filling \in SUBSET Fillers /\ Filling' \in SUBSET Fillers
      /\ Filling' \ {u} = Filling /\ u \in Filling'
      /\ available \in Counts /\ available' \in Counts
  BY DEF Filling, RefillInv, PoolInv, PoolTypeOK, Counts
<1>2. /\ full \in Counts /\ full[u] = 0 /\ \A v \in Filling : full[v] = available'[v]
      /\ available'[u] = Cardinality(Free)
  BY <1>1, PoolConstants DEF Counts
<1> HIDE DEF full
<1>3. /\ ToInsert(full, Filling') <= Ceiling
      /\ ToInsert(full, Filling') = (Target - 0) + ToInsert(full, Filling)
  <2>1. ToInsert(full, Filling') = (Target - full[u]) + ToInsert(full, Filling' \ {u})
    BY <1>1, <1>2, ShareToInsert
  <2> QED  BY <1>1, <1>2, <2>1, MostToInsert
<1>own. ToInsert(available', Filling')
        = (Target - Cardinality(Free)) + ToInsert(available', Filling)
  <2>1. ToInsert(available', Filling')
          = (Target - available'[u]) + ToInsert(available', Filling' \ {u})
    <3>1. available' \in Counts /\ Filling' \in SUBSET Fillers /\ u \in Filling'
      BY <1>1
    <3> QED  BY <3>1, ShareToInsert, Zenon
  <2> QED  BY <1>1, <1>2, <2>1
<1>4. ToInsert(full, Filling) = ToInsert(available', Filling)
  BY <1>1, <1>2, SameToInsert
<1>5. /\ ToInsert(full, Filling) \in Nat /\ Ceiling \in Nat /\ Cardinality(Free) \in Nat
  BY <1>1, <1>2, FillersAreFinite, FewerFree
<1>6. Cardinality(Free') + ToInsert(available', Filling') <= Ceiling
  BY <1>3, <1>4, <1>5, <1>own, PoolConstants
<1>7. RefillBounded'
  BY <1>6 DEF RefillBounded, ToInsert, Missing, Filling, Ceiling
<1>8. \A v \in Filling' : available'[v] < Target
  BY <1>1, <1>2 DEF RefillInv, Counts
<1> QED  BY <1>7, <1>8 DEF RefillInv

\* An address is inserted: the caller has one less to insert, or is through.
LEMMA RefillAdvances ==
    ASSUME RefillInv, PoolInv', NEW u \in Filling, NEW i, Free' \subseteq Free \cup {i},
           \/ /\ Filling' = Filling /\ available[u] + 1 < Target
              /\ available' = [available EXCEPT ![u] = available[u] + 1]
           \/ /\ Filling' = Filling \ {u}
              /\ \A v \in Filling' : available'[v] = available[v]
    PROVE  RefillInv'
<1>1. /\ Filling \in SUBSET Fillers /\ Filling \ {u} \in SUBSET Fillers
      /\ Filling' \in SUBSET Fillers
      /\ available \in Counts /\ available' \in Counts
      /\ available[u] \in Nat /\ available[u] < Target
  BY DEF Filling, RefillInv, PoolInv, PoolTypeOK, Counts
<1>2. /\ Cardinality(Free') \in Nat /\ Cardinality(Free) \in Nat
      /\ Cardinality(Free') <= Cardinality(Free) + 1
  BY FewerFree, OneMore
<1>3. ToInsert(available, Filling)
        = (Target - available[u]) + ToInsert(available, Filling \ {u})
  BY <1>1, ShareToInsert
<1>4. ToInsert(available', Filling') <= ToInsert(available, Filling) - 1
  <2>1. ToInsert(available', Filling \ {u}) = ToInsert(available, Filling \ {u})
    BY <1>1, SameToInsert DEF Counts
  <2>2. ToInsert(available, Filling \ {u}) \in Nat
    BY <1>1, FillersAreFinite
  <2>3. CASE Filling' = Filling /\ available'[u] = available[u] + 1
    <3>1. ToInsert(available', Filling)
            = (Target - available'[u]) + ToInsert(available', Filling \ {u})
      BY <1>1, ShareToInsert
    <3> QED  BY <1>1, <1>3, <2>1, <2>2, <2>3, <3>1, PoolConstants
  <2>4. CASE Filling' = Filling \ {u}
    BY <1>1, <1>3, <2>1, <2>2, <2>4, PoolConstants
  <2> QED  BY <1>1, <2>3, <2>4 DEF Counts
<1>5. /\ ToInsert(available, Filling) \in Nat /\ ToInsert(available', Filling') \in Nat
      /\ Ceiling \in Nat
  BY <1>1, FillersAreFinite
<1>6. Cardinality(Free') + ToInsert(available', Filling') <= Ceiling
  BY <1>2, <1>4, <1>5, BoundOfRefill DEF RefillInv
<1>7. RefillBounded'
  BY <1>6 DEF RefillBounded, ToInsert, Missing, Filling, Ceiling
<1>8. \A v \in Filling' : available'[v] < Target
  BY <1>1 DEF RefillInv, Counts
<1> QED  BY <1>7, <1>8 DEF RefillInv


\* What the callers of ensure_capacity do.
LEMMA RefillFills ==
    ASSUME RefillInv, PoolInv', NEW u \in Fillers,
           CountAvailable(u) \/ ReadMaxIndex(u) \/ InsertAddress(u) \/ InsertLost(u)
    PROVE  RefillInv'
<1> /\ ppc \in [Fillers -> {"rest", "fetch", "claim", "got", "count", "max", "insert"}]
    /\ available \in Counts
  BY DEF RefillInv, PoolInv, PoolTypeOK, Counts
<1>1. CASE CountAvailable(u)
  <2> USE <1>1 DEF CountAvailable, Goto, Filled, tableVars
  <2>0. Free' = Free /\ Cardinality(Free) \in Nat /\ u \notin Filling
    BY FewerFree DEF Free, Filling
  <2>1. CASE Cardinality(Free) >= Target
    <3>1. Filling' = Filling /\ available' = available
      BY <2>1 DEF Filling
    <3> QED  BY <2>0, <3>1, RefillQuiet
  <2>2. CASE ~(Cardinality(Free) >= Target)
    <3>1. Filling' = Filling \cup {u}
      BY <2>2 DEF Filling
    <3>2. available' = [available EXCEPT ![u] = Cardinality(Free)]
      BY <2>2
    <3>3. Cardinality(Free) < Target
      BY <2>0, <2>2, PoolConstants
    <3> QED  BY <2>0, <3>1, <3>2, <3>3, RefillBegins
  <2> QED  BY <2>1, <2>2
<1>2. CASE ReadMaxIndex(u)
  <2>1. Free' = Free /\ Filling' = Filling /\ available' = available
    BY <1>2 DEF ReadMaxIndex, Goto, tableVars, Free, Filling
  <2> QED  BY <2>1, RefillQuiet
<1>3. CASE InsertAddress(u)
  <2> USE <1>3 DEF InsertAddress, Goto, Filled, Derive
  <2>0. u \in Filling /\ available[u] \in Nat /\ available[u] < Target
    BY DEF Filling, RefillInv, Counts
  <2>1. CASE address[nextIndex[u]] # "none"
    <3>1. Free' = Free
      BY <2>1 DEF Free
    <3>2. Filling' = Filling /\ available' = available
      BY <2>0, <2>1 DEF Filling, Counts
    <3> QED  BY <3>1, <3>2, RefillQuiet
  <2>2. CASE address[nextIndex[u]] = "none"
    <3>1. Free' \subseteq Free \cup {nextIndex[u]}
      BY <2>2 DEF Free, RefillInv, PoolInv, PoolTypeOK
    <3>2. CASE available[u] + 1 < Target
      <4>1. Filling' = Filling
        BY <2>2, <3>2 DEF Filling
      <4>2. available' = [available EXCEPT ![u] = available[u] + 1]
        BY <2>2, <3>2
      <4> QED  BY <2>0, <3>1, <3>2, <4>1, <4>2, RefillAdvances
    <3>3. CASE ~(available[u] + 1 < Target)
      <4>1. Filling' = Filling \ {u}
        BY <2>2, <3>3 DEF Filling
      <4>2. \A v \in Filling' : available'[v] = available[v]
        BY <2>2, <3>3, <4>1 DEF Filling, Counts
      <4> QED  BY <2>0, <3>1, <4>1, <4>2, RefillAdvances
    <3> QED  BY <3>2, <3>3
  <2> QED  BY <2>1, <2>2
<1>4. CASE InsertLost(u)
  <2> USE <1>4 DEF InsertLost, Derive, Reset, Goto
  <2>1. u \in Filling /\ Filling' = Filling \ {u}
    BY DEF Filling
  <2>2. \A v \in Filling' : available'[v] = available[v]
    BY <2>1 DEF Filling, Counts
  <2>3. Free' \subseteq Free \cup {nextIndex[u]}
    BY DEF Free, RefillInv, PoolInv, PoolTypeOK
  <2> QED  BY <2>1, <2>2, <2>3, RefillAdvances
<1> QED  BY <1>1, <1>2, <1>3, <1>4

\* Everything else takes addresses away or stops a caller.
LEMMA RefillRests ==
    ASSUME RefillInv, PoolInv',
           \/ \E u \in Users, d \in Ids : BeginAssign(u, d)
           \/ BeginRefill \/ PoolRestart \/ UNCHANGED poolVars
           \/ \E u \in Fillers : \/ FetchAvailable(u) \/ ClaimAddress(u) \/ Assigned(u)
                                 \/ PoolFails(u) \/ ClaimLost(u)
    PROVE  RefillInv'
<1>0. /\ ppc \in [Fillers -> {"rest", "fetch", "claim", "got", "count", "max", "insert"}]
      /\ available \in Counts
      /\ address \in [Indexes -> {"none", "available", "allocated"}]
      /\ Refill \in Fillers /\ Users \subseteq Fillers
  BY PoolConstants DEF RefillInv, PoolInv, PoolTypeOK, Counts
<1> USE <1>0 DEF Goto, tableVars, fillVars
<1>1. CASE (\E u \in Users, d \in Ids : BeginAssign(u, d)) \/ BeginRefill
  <2>1. Free' = Free /\ Filling' = Filling /\ available' = available
    BY <1>1 DEF BeginAssign, BeginRefill, Free, Filling
  <2> QED  BY <2>1, RefillQuiet
<1>2. CASE PoolRestart
  <2>1. Free' = Free /\ Filling' = {}
    BY <1>2 DEF PoolRestart, Free, Filling
  <2> QED  BY <2>1, RefillQuiet
<1>3. CASE UNCHANGED poolVars
  <2>1. Free' = Free /\ Filling' = Filling /\ available' = available
    BY <1>3 DEF poolVars, Free, Filling
  <2> QED  BY <2>1, RefillQuiet
<1>4. ASSUME NEW u \in Fillers, FetchAvailable(u) \/ ClaimAddress(u)
      PROVE  RefillInv'
  <2>1. Free' \subseteq Free
    BY <1>4 DEF FetchAvailable, ClaimAddress, Allocate, Free
  <2>2. Filling' = Filling /\ available' = available
    BY <1>4 DEF FetchAvailable, ClaimAddress, Filling
  <2> QED  BY <2>1, <2>2, RefillQuiet
<1>5. ASSUME NEW u \in Fillers, Assigned(u) \/ PoolFails(u) \/ ClaimLost(u)
      PROVE  RefillInv'
  <2>1. Free' \subseteq Free
    BY <1>5 DEF Assigned, PoolFails, ClaimLost, Allocate, Free
  <2>2. Reset(u)
    BY <1>5 DEF Assigned, PoolFails, ClaimLost
  <2>3. Filling' \subseteq Filling /\ \A v \in Filling' : available'[v] = available[v]
    BY <2>2 DEF Reset, Filling, Counts
  <2> QED  BY <2>1, <2>3, RefillQuiet
<1> QED  BY <1>1, <1>2, <1>3, <1>4, <1>5

\* Every step of the pool keeps the bound.
LEMMA RefillNext == RefillInv /\ [PoolNext]_poolVars => RefillInv'
<1> SUFFICES ASSUME RefillInv, [PoolNext]_poolVars PROVE RefillInv'
  OBVIOUS
<1>1. PoolInv'
  BY PoolNextInv DEF RefillInv
<1> QED  BY <1>1, RefillFills, RefillRests DEF PoolNext, PoolStep, PoolGivesUp

\* At the start nobody inserts, and there is the target at most.
LEMMA RefillInit == Init => RefillInv
<1> SUFFICES ASSUME Init PROVE RefillInv
  OBVIOUS
<1>1. PoolInv
  BY PoolInitInv, FrontDoorAssumption, PoolAssumption DEF Init, PoolInit
<1>2. PICK used \in 1..Target : PoolInitFrom(used, FirstDeposit)
  BY DEF Init
<1>3. Filling = {}
  BY <1>2 DEF Filling, PoolInitFrom
<1>4. Free \in SUBSET (0..Target - 1)
  BY <1>2, PoolConstants DEF Free, PoolInitFrom, Indexes
<1>5. /\ IsFiniteSet(0..Target - 1) /\ Cardinality(0..Target - 1) = Target
  BY PoolConstants, FS_Interval
<1>6. Cardinality(Free) <= Target /\ Cardinality(Free) \in Nat
  BY <1>4, <1>5, PartIsSmaller
<1>7. Target <= Ceiling
  <2>1. Cardinality(Fillers) \in Nat /\ Cardinality(Fillers) > 0
    BY FillersAreFinite, PoolConstants, FS_CardinalityType, FS_EmptySet
  <2>2. Target * Cardinality(Fillers) = Target + Target * (Cardinality(Fillers) - 1)
    BY <2>1, PoolConstants
  <2>3. Target * (Cardinality(Fillers) - 1) \in Nat
    BY <2>1, PoolConstants
  <2> QED  BY <2>2, <2>3, PoolConstants DEF Ceiling
<1>8. ToInsert(available, Filling) = 0
  BY <1>3, SumOfNone DEF ToInsert
<1>9. Cardinality(Free) + ToInsert(available, Filling) <= Ceiling
  BY <1>6, <1>7, <1>8, PoolConstants, FillersAreFinite
<1> QED  BY <1>1, <1>3, <1>9, BoundOfRefill DEF RefillInv

\* RefillBounded (ensure_capacity): callers that count the same missing
\* addresses at the same time overshoot the target by their own share at most,
\* for any target and any number of callers.
THEOREM RefillStaysBounded == Spec => []RefillBounded
<1>1. RefillInv /\ [Next]_vars => RefillInv'
  BY RefillNext, NextMaps
<1>2. RefillInv => RefillBounded
  BY DEF RefillInv
<1> QED  BY <1>1, <1>2, RefillInit, PTL DEF Spec


--------------------------------------------------------------------------------
(***************************************************************************)
(* The float.  A request that has passed the cap has asked for no more     *)
(* than is left of the balance after the withdrawals to be paid, counting  *)
(* what the balance it read did not show and what was paid or reserved     *)
(* since.  With its insert these take the place of all that was overlooked *)
(* before: the cap has looked at the rest again.                           *)
(***************************************************************************)

\* The withdrawals whose payout is still to come, and those paid out.
Promised == {w \in Withdrawals : wd[w] \in {"funding", "queued"}}
Sent == {w \in Withdrawals : wd[w] = "sent"}

\* What is typed beside the pool, the mode and the limits.
RestTypeOK ==
    /\ cast \in Casts
    /\ sess \in [Sessions -> {"none", "live", "stale", "gone"}]
    /\ wd \in [Withdrawals -> {"none", "funding", "queued", "sent", "done"}]
    /\ wdAmount \in [Withdrawals -> Amounts \cup {0}]
    /\ due \subseteq Withdrawals
    /\ onchain \in 0..Float /\ synced \in 0..Float /\ unseen \in Nat
    /\ case \in [Sessions -> {"none", "open", "closed"}]
    /\ asks \in [Users -> Amounts \cup {0}]
    /\ seen \in [Users -> 0..Float] /\ behind \in [Users -> Nat]
    /\ restarts \in 0..MaxRestarts

\* The places of a withdrawal request on its way to the insert.
OnTheWay == {"balance", "reserve", "write"}

\* A withdrawal request asks for something, and a row is there for every one
\* that will insert it.
RowsInv ==
    /\ \A h \in Users : hpc[h] \in OnTheWay => kind[h] = "withdrawal"
    /\ \A h \in Users : kind[h] = "withdrawal" => asks[h] \in Amounts
    /\ Cardinality(UnusedWithdrawals) >= Cardinality(Asking("withdrawal"))

CoverInv ==
    /\ FloatCovered
    /\ \A h \in Users : hpc[h] = "write" =>
            SumOf(Promised) + asks[h] <= onchain + behind[h]

FloatInv == RestTypeOK /\ RowsInv /\ CoverInv

\* The numbers of the float.
LEMMA FloatConstants ==
    /\ Amounts \subseteq Nat \ {0} /\ Fees \subseteq Nat /\ Float \in Nat
    /\ CapParts \in Nat /\ CapParts > 0
    /\ IsFiniteSet(Withdrawals) /\ MaxRestarts \in Nat
    /\ \A c \in Casts : c.amounts \subseteq Amounts
  BY FrontDoorAssumption

\* Withdrawals are finitely many, and so is what they reserve.
LEMMA SumsOfWithdrawals ==
    ASSUME RestTypeOK, NEW ws \in SUBSET Withdrawals
    PROVE  /\ IsFiniteSet(ws) /\ SumOf(ws) \in Nat
           /\ \A w \in Withdrawals : wdAmount[w] \in Nat
<1>1. IsFiniteSet(ws)
  BY FloatConstants, FS_Subset
<1>2. \A w \in Withdrawals : wdAmount[w] \in Nat
  <2>1. Amounts \cup {0} \subseteq Nat
    BY FloatConstants
  <2> QED  BY <2>1 DEF RestTypeOK
<1> QED  BY <1>1, <1>2, SumNat DEF SumOf

\* The numbers a request keeps, and those of the float.
LEMMA RequestNumbers ==
    ASSUME RestTypeOK
    PROVE  /\ onchain \in Nat /\ unseen \in Nat
           /\ \A h \in Users : asks[h] \in Nat /\ seen[h] \in Nat /\ behind[h] \in Nat
<1>1. Amounts \cup {0} \subseteq Nat /\ 0..Float \subseteq Nat
  BY FloatConstants
<1> QED  BY <1>1 DEF RestTypeOK

\* One withdrawal's part of a sum.
LEMMA SumWithout ==
    ASSUME RestTypeOK, NEW ws \in SUBSET Withdrawals, NEW w \in ws
    PROVE  SumOf(ws) = wdAmount[w] + SumOf(ws \ {w})
<1>1. IsFiniteSet(ws) /\ \A v \in ws : wdAmount[v] \in Nat
  BY SumsOfWithdrawals
<1> QED  BY <1>1, SumRemove DEF SumOf

\* What has been reserved is promised or sent.
LEMMA ReservedIsBoth ==
    ASSUME RestTypeOK
    PROVE  SumOf(Reserved) = SumOf(Promised) + SumOf(Sent)
<1> DEFINE G == {s \in SUBSET Sent : SumOf(Promised \cup s) = SumOf(Promised) + SumOf(s)}
<1>0. /\ Promised \in SUBSET Withdrawals /\ Sent \in SUBSET Withdrawals
      /\ Promised \cap Sent = {} /\ Reserved = Promised \cup Sent
  BY DEF Promised, Sent, Reserved, RestTypeOK
<1>1. ASSUME NEW s \in SUBSET Sent, \A t \in SUBSET s : t # s => t \in G
      PROVE  s \in G
  <2>1. CASE s = {}
    <3>1. SumOf(s) = 0 /\ SumOf(Promised) \in Nat /\ Promised \cup s = Promised
      BY <1>0, <2>1, SumOfNone, SumsOfWithdrawals DEF SumOf
    <3> QED  BY <3>1
  <2>2. CASE s # {}
    <3>1. PICK w \in s : TRUE
      BY <2>2
    <3>2. (Promised \cup s) \ {w} = Promised \cup (s \ {w})
      BY <1>0, <3>1
    <3>3. SumOf(Promised \cup s) = wdAmount[w] + SumOf(Promised \cup (s \ {w}))
      <4>1. SumOf(Promised \cup s) = wdAmount[w] + SumOf((Promised \cup s) \ {w})
        BY <1>0, <3>1, SumWithout
      <4> QED  BY <3>2, <4>1
    <3>4. SumOf(s) = wdAmount[w] + SumOf(s \ {w})
      BY <1>0, <3>1, SumWithout
    <3>5. s \ {w} \in G
      BY <1>1, <3>1
    <3>6. SumOf(Promised \cup (s \ {w})) = SumOf(Promised) + SumOf(s \ {w})
      BY <3>5
    <3>7. wdAmount[w] \in Nat /\ SumOf(Promised) \in Nat /\ SumOf(s \ {w}) \in Nat
      BY <1>0, <3>1, SumsOfWithdrawals
    <3> QED  BY <3>3, <3>4, <3>6, <3>7
  <2> QED  BY <2>1, <2>2
<1>2. IsFiniteSet(Sent)
  BY <1>0, SumsOfWithdrawals
<1> HIDE DEF G
<1>3. Sent \in G
  BY <1>1, <1>2, SubsetInduction
<1> QED  BY <1>0, <1>3 DEF G

\* A step that leaves the withdrawals and the float alone, and lets nobody
\* pass the cap.
LEMMA AsideInv ==
    ASSUME FloatInv, RestTypeOK', UNCHANGED <<wd, wdAmount, onchain, unseen>>,
           \A h \in Users :
                /\ kind'[h] = "withdrawal" => /\ kind[h] = "withdrawal"
                                              /\ asks'[h] = asks[h]
                /\ hpc'[h] \in OnTheWay => kind'[h] = "withdrawal"
                /\ hpc'[h] = "write" => /\ hpc[h] = "write" /\ asks'[h] = asks[h]
                                        /\ behind'[h] = behind[h]
    PROVE  FloatInv'
<1>1. RowsInv'
  <2>1. UnusedWithdrawals' = UnusedWithdrawals
    BY DEF UnusedWithdrawals
  <2>2. Asking("withdrawal")' \in SUBSET Asking("withdrawal")
    BY DEF Asking
  <2>3. /\ Cardinality(Asking("withdrawal")') <= Cardinality(Asking("withdrawal"))
        /\ Cardinality(Asking("withdrawal")') \in Nat
        /\ Cardinality(Asking("withdrawal")) \in Nat
    <3>1. IsFiniteSet(Asking("withdrawal"))
      BY UsersAreFinite DEF Asking
    <3> QED  BY <2>2, <3>1, PartIsSmaller
  <2>4. Cardinality(UnusedWithdrawals) \in Nat
    BY FloatConstants, PartIsSmaller DEF UnusedWithdrawals
  <2> QED  BY <2>1, <2>3, <2>4 DEF RowsInv, FloatInv
<1>2. Promised' = Promised /\ SumOf(Promised)' = SumOf(Promised)
  BY DEF Promised, SumOf
<1>3. CoverInv'
  <2>1. FloatCovered'
    BY <1>2 DEF FloatCovered, FloatInv, CoverInv, Promised
  <2> QED  BY <1>2, <2>1 DEF CoverInv, FloatInv
<1> QED  BY <1>1, <1>3 DEF FloatInv


\* A withdrawal request comes in while there are rows for all of them.
LEMMA EnterWithdrawalFloat ==
    ASSUME LimitsInv, FloatInv, NEW h \in Users, NEW s \in Sessions \cup {NoSession},
           NEW a \in cast.amounts, EnterWithdrawal(h, s, a)
    PROVE  FloatInv'
<1> USE DEF EnterWithdrawal, Comes, withdrawalVars, supportVars
<1>0. DoorTypeOK /\ RestTypeOK /\ RowsInv /\ CoverInv /\ a \in Amounts
  BY FloatConstants DEF LimitsInv, FloatInv, RestTypeOK
<1>1. RestTypeOK'
  BY <1>0 DEF RestTypeOK
<1>2. RowsInv'
  <2>1. /\ \A u \in Users : hpc'[u] \in OnTheWay => kind'[u] = "withdrawal"
        /\ \A u \in Users : kind'[u] = "withdrawal" => asks'[u] \in Amounts
    BY <1>0 DEF DoorTypeOK, RestTypeOK, RowsInv, OnTheWay, Kinds
  <2>2. UnusedWithdrawals' = UnusedWithdrawals
    BY DEF UnusedWithdrawals
  <2>3. Asking("withdrawal")' \subseteq Asking("withdrawal") \cup {h}
    BY <1>0 DEF Asking, DoorTypeOK
  <2>4. IsFiniteSet(Asking("withdrawal")) /\ Cardinality(UnusedWithdrawals) \in Nat
    BY FloatConstants, UsersAreFinite, PartIsSmaller DEF Asking, UnusedWithdrawals
  <2>5. /\ Cardinality(Asking("withdrawal")') \in Nat
        /\ Cardinality(Asking("withdrawal")) \in Nat
        /\ Cardinality(Asking("withdrawal")') <= Cardinality(Asking("withdrawal")) + 1
    BY <2>3, <2>4, OneMore
  <2>6. Cardinality(UnusedWithdrawals) >= Cardinality(Asking("withdrawal")) + 1
    BY <2>4, <2>5
  <2> QED  BY <2>1, <2>2, <2>4, <2>5, <2>6 DEF RowsInv
<1>3. CoverInv'
  <2>1. UNCHANGED <<wd, wdAmount, onchain, unseen, behind>>
    OBVIOUS
  <2>2. Promised' = Promised /\ SumOf(Promised)' = SumOf(Promised)
    BY <2>1 DEF Promised, SumOf
  <2>3. \A u \in Users : hpc'[u] = "write" => hpc[u] = "write" /\ asks'[u] = asks[u]
    BY <1>0 DEF DoorTypeOK, RestTypeOK
  <2>4. FloatCovered'
    BY <1>0, <2>1, <2>2 DEF FloatCovered, CoverInv, Promised
  <2> HIDE DEF EnterWithdrawal, Comes, withdrawalVars, supportVars
  <2> QED  BY <1>0, <2>1, <2>2, <2>3, <2>4 DEF CoverInv
<1> QED  BY <1>1, <1>2, <1>3 DEF FloatInv

\* The other requests come in.
LEMMA EnterFloat ==
    ASSUME LimitsInv, FloatInv, NEW h \in Users, Enter(h)
    PROVE  FloatInv'
<1>1. CASE \E s \in Sessions \cup {NoSession}, a \in cast.amounts : EnterWithdrawal(h, s, a)
  BY <1>1, EnterWithdrawalFloat
<1>2. CASE \E k \in {"deposit", "support", "resume", "start"},
              s \in Sessions \cup {NoSession}, label \in {"sweep", "resolve", "purge"} :
                Comes(h, k, s, 0, label)
  <2> USE <1>2 DEF Comes, withdrawalVars, supportVars
  <2>1. DoorTypeOK /\ RestTypeOK /\ RowsInv
    BY DEF LimitsInv, FloatInv
  <2>2. RestTypeOK'
    BY <2>1 DEF RestTypeOK
  <2>3. \A u \in Users :
            /\ kind'[u] = "withdrawal" => kind[u] = "withdrawal" /\ asks'[u] = asks[u]
            /\ hpc'[u] \in OnTheWay => kind'[u] = "withdrawal"
            /\ hpc'[u] = "write" => /\ hpc[u] = "write" /\ asks'[u] = asks[u]
                                    /\ behind'[u] = behind[u]
    BY <2>1 DEF DoorTypeOK, RestTypeOK, RowsInv, OnTheWay
  <2>4. UNCHANGED <<wd, wdAmount, onchain, unseen>>
    OBVIOUS
  <2> QED  BY <2>2, <2>3, <2>4, AsideInv
<1> QED
  BY <1>1, <1>2 DEF Enter, EnterDeposit, EnterSupport, EnterResume, EnterStart

\* A request that is answered.
LEMMA AnswerFloat ==
    ASSUME LimitsInv, FloatInv, NEW h \in Users, Answer(h),
           UNCHANGED <<cast, withdrawalVars, restarts>>,
           sess' \in [Sessions -> {"none", "live", "stale", "gone"}],
           case' \in [Sessions -> {"none", "open", "closed"}]
    PROVE  FloatInv'
<1> USE DEF Answer, withdrawalVars
<1>1. DoorTypeOK /\ RestTypeOK /\ RowsInv
  BY DEF LimitsInv, FloatInv
<1>2. RestTypeOK'
  BY <1>1, FloatConstants DEF RestTypeOK
<1>3. \A u \in Users :
        /\ kind'[u] = "withdrawal" => kind[u] = "withdrawal" /\ asks'[u] = asks[u]
        /\ hpc'[u] \in OnTheWay => kind'[u] = "withdrawal"
        /\ hpc'[u] = "write" => /\ hpc[u] = "write" /\ asks'[u] = asks[u]
                                /\ behind'[u] = behind[u]
  BY <1>1 DEF DoorTypeOK, RestTypeOK, RowsInv, OnTheWay
<1> QED  BY <1>2, <1>3, AsideInv

\* A request that goes on without passing the cap.
LEMMA GoesFloat ==
    ASSUME LimitsInv, FloatInv, NEW h \in Users, NEW label,
           label # "write", label \in OnTheWay => kind[h] = "withdrawal",
           hpc' = [hpc EXCEPT ![h] = label], UNCHANGED <<kind, asks, behind>>,
           UNCHANGED <<cast, withdrawalVars, restarts>>,
           sess' \in [Sessions -> {"none", "live", "stale", "gone"}],
           case' \in [Sessions -> {"none", "open", "closed"}],
           seen' \in [Users -> 0..Float]
    PROVE  FloatInv'
<1> USE DEF withdrawalVars
<1>1. DoorTypeOK /\ RestTypeOK /\ RowsInv
  BY DEF LimitsInv, FloatInv
<1>2. RestTypeOK'
  BY <1>1 DEF RestTypeOK
<1>3. \A u \in Users :
        /\ kind'[u] = "withdrawal" => kind[u] = "withdrawal" /\ asks'[u] = asks[u]
        /\ hpc'[u] \in OnTheWay => kind'[u] = "withdrawal"
        /\ hpc'[u] = "write" => /\ hpc[u] = "write" /\ asks'[u] = asks[u]
                                /\ behind'[u] = behind[u]
  BY <1>1 DEF DoorTypeOK, RestTypeOK, RowsInv, OnTheWay
<1> QED  BY <1>2, <1>3, AsideInv


\* The cap: what is asked for fits in what is left of the balance read,
\* and the history remembers what that balance did not show.
LEMMA ReadReservedFloat ==
    ASSUME LimitsInv, FloatInv, NEW h \in Users, ReadReserved(h)
    PROVE  FloatInv'
<1>0. DoorTypeOK /\ RestTypeOK /\ RowsInv /\ CoverInv
  BY DEF LimitsInv, FloatInv
<1>1. CASE asks[h] > Sub(seen[h], SumOf(Reserved)) \div CapParts
  BY <1>0, <1>1, AnswerFloat DEF ReadReserved, RestTypeOK, supportVars
<1>2. CASE ~(asks[h] > Sub(seen[h], SumOf(Reserved)) \div CapParts)
  <2> DEFINE hidden == Sub(seen[h] - onchain, SumOf(Sent))
  <2>1. /\ hpc[h] = "reserve" /\ hpc' = [hpc EXCEPT ![h] = "write"]
        /\ seen' = [seen EXCEPT ![h] = 0] /\ behind' = [behind EXCEPT ![h] = hidden]
        /\ UNCHANGED <<kind, who, asks, cast, sess, wd, wdAmount, due, onchain, synced,
                       unseen, case, restarts>>
    BY <1>2 DEF ReadReserved, withdrawalVars, supportVars, Sent
  <2>2. /\ Promised \in SUBSET Withdrawals /\ Sent \in SUBSET Withdrawals
        /\ Reserved \in SUBSET Withdrawals
    BY DEF Promised, Sent, Reserved
  <2>3. /\ SumOf(Promised) \in Nat /\ SumOf(Sent) \in Nat /\ SumOf(Reserved) \in Nat
        /\ SumOf(Reserved) = SumOf(Promised) + SumOf(Sent)
    BY <1>0, <2>2, SumsOfWithdrawals, ReservedIsBoth
  <2>4. asks[h] \in Nat \ {0} /\ seen[h] \in Nat /\ onchain \in Nat
    BY <1>0, <2>1, RequestNumbers, FloatConstants DEF RowsInv, OnTheWay
  <2>5. /\ hidden \in Nat /\ seen[h] <= onchain + SumOf(Sent) + hidden
    BY <2>3, <2>4 DEF Sub
  <2>6. asks[h] <= Sub(seen[h], SumOf(Reserved))
    <3>1. \A x \in Nat : x \div CapParts \in Nat /\ x \div CapParts <= x
      BY FloatConstants
    <3>2. Sub(seen[h], SumOf(Reserved)) \in Nat
      BY <2>3, <2>4 DEF Sub
    <3> QED  BY <1>2, <2>4, <3>1, <3>2
  <2>7. SumOf(Promised) + asks[h] <= onchain + hidden
    <3>1. asks[h] <= seen[h] - SumOf(Reserved)
      BY <2>3, <2>4, <2>6 DEF Sub
    <3> HIDE DEF hidden
    <3> QED  BY <2>3, <2>4, <2>5, <3>1
  <2> HIDE DEF hidden
  <2>8. RestTypeOK'
    BY <1>0, <2>1, <2>5, FloatConstants DEF RestTypeOK
  <2>9. RowsInv'
    BY <1>0, <2>1 DEF RowsInv, DoorTypeOK, OnTheWay, UnusedWithdrawals, Asking
  <2>10. Promised' = Promised /\ SumOf(Promised)' = SumOf(Promised)
    BY <2>1 DEF Promised, SumOf
  <2>11. CoverInv'
    <3>1. FloatCovered'
      BY <1>0, <2>1, <2>10 DEF CoverInv, FloatCovered, Promised
    <3>2. ASSUME NEW u \in Users, hpc'[u] = "write"
          PROVE  SumOf(Promised) + asks[u] <= onchain + behind'[u]
      BY <1>0, <2>1, <2>7, <3>2 DEF CoverInv, DoorTypeOK, RestTypeOK
    <3> QED  BY <2>1, <2>10, <3>1, <3>2 DEF CoverInv
  <2> QED  BY <2>8, <2>9, <2>11 DEF FloatInv
<1> QED  BY <1>1, <1>2

\* The insert: the promise is one more, and what it overlooked is all that has
\* to be allowed for.
LEMMA InsertWithdrawalFloat ==
    ASSUME LimitsInv, FloatInv, NEW h \in Users, NEW state \in {"funding", "queued"},
           InsertWithdrawal(h, state)
    PROVE  FloatInv'
<1> DEFINE w == CHOOSE x \in UnusedWithdrawals : TRUE
<1>0. DoorTypeOK /\ RestTypeOK /\ RowsInv /\ CoverInv
  BY DEF LimitsInv, FloatInv
<1>1. /\ hpc[h] = "write" /\ wd' = [wd EXCEPT ![w] = state]
      /\ wdAmount' = [wdAmount EXCEPT ![w] = asks[h]] /\ unseen' = behind[h]
      /\ hpc' = [hpc EXCEPT ![h] = "idle"] /\ kind' = [kind EXCEPT ![h] = "none"]
      /\ asks' = [asks EXCEPT ![h] = 0]
      /\ behind' = [u \in Users |-> IF u = h THEN 0
                       ELSE IF hpc[u] = "write" THEN behind[u] + asks[h] ELSE behind[u]]
      /\ UNCHANGED <<cast, sess, due, onchain, synced, case, seen, restarts>>
  BY DEF InsertWithdrawal, supportVars
<1>2. h \in Asking("withdrawal")
  BY <1>0, <1>1 DEF RowsInv, OnTheWay, Asking
<1>3. /\ IsFiniteSet(Asking("withdrawal")) /\ IsFiniteSet(UnusedWithdrawals)
      /\ Cardinality(Asking("withdrawal")) \in Nat /\ Cardinality(UnusedWithdrawals) \in Nat
  BY FloatConstants, UsersAreFinite, PartIsSmaller DEF Asking, UnusedWithdrawals
<1>4. w \in UnusedWithdrawals
  <2>1. Cardinality(Asking("withdrawal")) # 0
    BY <1>2, <1>3, FS_EmptySet
  <2>2. Cardinality(UnusedWithdrawals) # 0
    BY <1>0, <1>3, <2>1 DEF RowsInv
  <2>3. UnusedWithdrawals # {}
    BY <2>2, FS_EmptySet
  <2> QED  BY <2>3
<1> HIDE DEF w
<1>5. w \in Withdrawals /\ wd[w] = "none" /\ w \notin Promised
  BY <1>4 DEF UnusedWithdrawals, Promised
<1>6. \A u \in Users : asks[u] \in Nat /\ behind[u] \in Nat
  BY <1>0, RequestNumbers
<1>7. RestTypeOK'
  BY <1>0, <1>1, <1>5, <1>6 DEF RestTypeOK
<1>8. RowsInv'
  <2>1. /\ \A u \in Users : hpc'[u] \in OnTheWay => kind'[u] = "withdrawal"
        /\ \A u \in Users : kind'[u] = "withdrawal" => asks'[u] \in Amounts
    BY <1>0, <1>1 DEF RowsInv, DoorTypeOK, RestTypeOK, OnTheWay
  <2>2. UnusedWithdrawals' = UnusedWithdrawals \ {w}
    BY <1>0, <1>1, <1>5 DEF UnusedWithdrawals, RestTypeOK
  <2>3. Asking("withdrawal")' = Asking("withdrawal") \ {h}
    BY <1>0, <1>1 DEF Asking, DoorTypeOK
  <2>4. /\ Cardinality(UnusedWithdrawals') = Cardinality(UnusedWithdrawals) - 1
        /\ Cardinality(Asking("withdrawal")') = Cardinality(Asking("withdrawal")) - 1
    BY <1>2, <1>3, <1>4, <2>2, <2>3, FS_RemoveElement
  <2> QED  BY <1>0, <1>3, <2>1, <2>4 DEF RowsInv
<1>9. Promised' = Promised \cup {w} /\ Promised \in SUBSET Withdrawals
  BY <1>0, <1>1, <1>5 DEF Promised, RestTypeOK
<1>10. SumOf(Promised)' = asks[h] + SumOf(Promised)
  <2>1. SumOf(Promised)' = wdAmount'[w] + SumFunctionOnSet(wdAmount', Promised)
    <3>1. IsFiniteSet(Promised)
      BY <1>0, <1>9, SumsOfWithdrawals
    <3>2. \A v \in Promised \cup {w} : wdAmount'[v] \in Nat
      BY <1>0, <1>1, <1>5, <1>6, <1>9, SumsOfWithdrawals DEF RestTypeOK
    <3> QED  BY <1>5, <1>9, <3>1, <3>2, SumAdd DEF SumOf
  <2>2. SumFunctionOnSet(wdAmount', Promised) = SumOf(Promised)
    <3>1. IsFiniteSet(Promised)
      BY <1>0, <1>9, SumsOfWithdrawals
    <3>2. \A v \in Promised : wdAmount'[v] = wdAmount[v]
      BY <1>0, <1>1, <1>5, <1>9 DEF RestTypeOK
    <3> QED  BY <3>1, <3>2, SumSame DEF SumOf
  <2>3. wdAmount'[w] = asks[h]
    BY <1>0, <1>1, <1>5 DEF RestTypeOK
  <2> QED  BY <2>1, <2>2, <2>3
<1>11. SumOf(Promised) \in Nat /\ onchain \in Nat
  BY <1>0, <1>9, SumsOfWithdrawals, RequestNumbers
<1>12. SumOf(Promised) + asks[h] <= onchain + behind[h]
  BY <1>0, <1>1 DEF CoverInv
<1>13. CoverInv'
  <2>1. FloatCovered'
    <3>1. SumOf(Promised)' <= onchain' + unseen'
      BY <1>1, <1>6, <1>10, <1>11, <1>12
    <3> QED  BY <3>1 DEF FloatCovered, Promised
  <2>2. ASSUME NEW u \in Users, hpc'[u] = "write"
        PROVE  SumOf(Promised)' + asks'[u] <= onchain' + behind'[u]
    <3>1. /\ u # h /\ hpc[u] = "write" /\ asks'[u] = asks[u]
          /\ behind'[u] = behind[u] + asks[h]
      BY <1>0, <1>1, <2>2 DEF DoorTypeOK, RestTypeOK
    <3>2. SumOf(Promised) + asks[u] <= onchain + behind[u]
      BY <1>0, <3>1 DEF CoverInv
    <3> QED  BY <1>1, <1>6, <1>10, <1>11, <3>1, <3>2
  <2> QED  BY <2>1, <2>2 DEF CoverInv
<1> QED  BY <1>7, <1>8, <1>13 DEF FloatInv

\* A step beside the requests: what it promises anew or takes from the balance
\* without a promise is seen by no request that has read the reservations.
LEMMA UnseenFloat ==
    ASSUME LimitsInv, FloatInv, RestTypeOK', NEW sats \in Nat,
           UNCHANGED <<hpc, kind, asks>>, UnusedWithdrawals' = UnusedWithdrawals,
           unseen' = unseen + sats,
           \A u \in Users : hpc[u] = "write" => behind'[u] = behind[u] + sats,
           SumOf(Promised)' + onchain <= SumOf(Promised) + onchain' + sats
    PROVE  FloatInv'
<1>0. RestTypeOK /\ RowsInv /\ CoverInv
  BY DEF FloatInv
<1>1. RowsInv'
  BY <1>0 DEF RowsInv, Asking
<1>2. /\ SumOf(Promised) \in Nat /\ onchain \in Nat /\ unseen \in Nat
      /\ \A u \in Users : asks[u] \in Nat /\ behind[u] \in Nat
  BY <1>0, SumsOfWithdrawals, RequestNumbers DEF Promised
<1>3. SumOf(Promised)' \in Nat /\ onchain' \in Nat
  <2>1. Promised' \in SUBSET Withdrawals /\ Amounts \cup {0} \subseteq Nat
    BY FloatConstants DEF Promised
  <2>2. IsFiniteSet(Promised') /\ \A v \in Promised' : wdAmount'[v] \in Nat
    BY <2>1, FloatConstants, FS_Subset DEF RestTypeOK
  <2>3. SumFunctionOnSet(wdAmount', Promised') \in Nat
    BY <2>2, SumNat
  <2> QED  BY <2>3, FloatConstants DEF SumOf, RestTypeOK
<1>4. FloatCovered'
  <2>1. SumOf(Promised) <= onchain + unseen
    BY <1>0 DEF CoverInv, FloatCovered, Promised
  <2>2. SumOf(Promised)' <= onchain' + unseen'
    BY <1>2, <1>3, <2>1
  <2> QED  BY <2>2 DEF FloatCovered, Promised
<1>5. ASSUME NEW u \in Users, hpc'[u] = "write"
      PROVE  SumOf(Promised)' + asks'[u] <= onchain' + behind'[u]
  <2>1. hpc[u] = "write" /\ asks'[u] = asks[u] /\ behind'[u] = behind[u] + sats
    BY <1>5
  <2>2. SumOf(Promised) + asks[u] <= onchain + behind[u]
    BY <1>0, <2>1 DEF CoverInv
  <2> QED  BY <1>2, <1>3, <2>1, <2>2
<1>6. CoverInv'
  BY <1>4, <1>5 DEF CoverInv
<1> QED  BY <1>1, <1>6 DEF FloatInv

\* A promise less, and the amount it takes out of the sum.
LEMMA PromiseKept ==
    ASSUME RestTypeOK, NEW w \in Promised, wdAmount' = wdAmount,
           Promised' = Promised \ {w}
    PROVE  /\ SumOf(Promised) = wdAmount[w] + SumOf(Promised)'
           /\ SumOf(Promised)' \in Nat /\ wdAmount[w] \in Nat
<1>1. Promised \in SUBSET Withdrawals /\ Promised \ {w} \in SUBSET Withdrawals
  BY DEF Promised
<1>2. SumOf(Promised) = wdAmount[w] + SumOf(Promised \ {w})
  BY <1>1, SumWithout
<1>3. SumOf(Promised)' = SumOf(Promised \ {w})
  BY DEF SumOf
<1>4. SumOf(Promised \ {w}) \in Nat /\ wdAmount[w] \in Nat
  BY <1>1, SumsOfWithdrawals
<1> QED  BY <1>2, <1>3, <1>4

\* A withdrawal is funded, given up, or recorded as paid out.
LEMMA MovesFloat ==
    ASSUME LimitsInv, FloatInv, NEW w \in Withdrawals,
           Funded(w) \/ GivenUp(w) \/ Settled(w)
    PROVE  FloatInv'
<1>0. RestTypeOK
  BY DEF FloatInv
<1>1. /\ UNCHANGED <<cast, sess, wdAmount, due, onchain, synced, unseen, case, hpc, kind,
                     asks, seen, behind, restarts>>
      /\ wd[w] # "none" /\ \E next \in {"queued", "done"} : wd' = [wd EXCEPT ![w] = next]
  BY DEF Funded, GivenUp, Settled, WithdrawalMoves, supportVars, requestVars
<1>2. RestTypeOK' /\ UnusedWithdrawals' = UnusedWithdrawals
  BY <1>0, <1>1 DEF RestTypeOK, UnusedWithdrawals
<1>3. /\ SumOf(Promised) \in Nat /\ onchain \in Nat /\ unseen \in Nat
      /\ \A u \in Users : behind[u] \in Nat
  BY <1>0, SumsOfWithdrawals, RequestNumbers DEF Promised
<1>4. SumOf(Promised)' <= SumOf(Promised) /\ SumOf(Promised)' \in Nat
  <2>1. CASE Funded(w) \/ Settled(w)
    <3>1. Promised' = Promised
      BY <1>0, <2>1 DEF Funded, Settled, WithdrawalMoves, Promised, RestTypeOK
    <3> QED  BY <1>1, <1>3, <3>1 DEF SumOf
  <2>2. CASE GivenUp(w)
    <3>1. Promised' = Promised \ {w} /\ w \in Promised
      BY <1>0, <2>2 DEF GivenUp, WithdrawalMoves, Promised, RestTypeOK
    <3>2. SumOf(Promised) = wdAmount[w] + SumOf(Promised)' /\ SumOf(Promised)' \in Nat
          /\ wdAmount[w] \in Nat
      BY <1>0, <1>1, <3>1, PromiseKept
    <3> QED  BY <3>2
  <2> QED  BY <2>1, <2>2
<1>5. /\ unseen' = unseen + 0 /\ \A u \in Users : behind'[u] = behind[u] + 0
      /\ SumOf(Promised)' + onchain <= SumOf(Promised) + onchain' + 0
  BY <1>1, <1>3, <1>4
<1> QED  BY <1>1, <1>2, <1>5, UnseenFloat

\* What send_to takes from the balance.
LEMMA SpendNumbers ==
    ASSUME RestTypeOK, NEW sats \in Nat, Spend(sats)
    PROVE  /\ onchain' \in 0..Float /\ synced' \in 0..Float
           /\ onchain' = onchain - sats /\ onchain \in Nat
  BY RequestNumbers, FloatConstants DEF Spend, RestTypeOK

\* What goes unseen is a number, and so are the sums it goes into.
LEMMA UnseenNumbers ==
    ASSUME RestTypeOK, NEW sats \in Nat, Unseen(sats)
    PROVE  /\ unseen' = unseen + sats /\ unseen' \in Nat /\ behind' \in [Users -> Nat]
           /\ \A u \in Users : hpc[u] = "write" => behind'[u] = behind[u] + sats
  BY RequestNumbers DEF Unseen

\* A payout takes the amount from the balance and from what is promised, and
\* the fee from the balance alone; that of a row given up since, both.
LEMMA PaysOutFloat ==
    ASSUME LimitsInv, FloatInv, NEW w \in Withdrawals, NEW fee \in Fees, PaysOut(w, fee)
    PROVE  FloatInv'
<1>0. RestTypeOK
  BY DEF FloatInv
<1>1. /\ UNCHANGED <<cast, sess, wdAmount, case, hpc, kind, asks, seen, restarts>>
      /\ due' = due \ {w} /\ Spend(wdAmount[w] + fee)
  BY DEF PaysOut, supportVars
<1>2. /\ fee \in Nat /\ wdAmount[w] \in Nat /\ wdAmount[w] + fee \in Nat
      /\ SumOf(Promised) \in Nat
  BY <1>0, SumsOfWithdrawals, FloatConstants DEF Promised
<1>3. /\ onchain' \in 0..Float /\ synced' \in 0..Float
      /\ onchain' = onchain - (wdAmount[w] + fee) /\ onchain \in Nat
  BY <1>0, <1>1, <1>2, SpendNumbers
<1>4. onchain' + (wdAmount[w] + fee) = onchain /\ onchain' \in Nat
  BY <1>2, <1>3, FloatConstants
<1>5. CASE wd[w] = "queued"
  <2>1. wd' = [wd EXCEPT ![w] = "sent"] /\ Unseen(fee)
    BY <1>5 DEF PaysOut
  <2>2. /\ unseen' = unseen + fee /\ unseen' \in Nat /\ behind' \in [Users -> Nat]
        /\ \A u \in Users : hpc[u] = "write" => behind'[u] = behind[u] + fee
    BY <1>0, <1>2, <2>1, UnseenNumbers
  <2>3. RestTypeOK'
    BY <1>0, <1>1, <1>3, <2>1, <2>2 DEF RestTypeOK
  <2>4. /\ UnusedWithdrawals' = UnusedWithdrawals
        /\ Promised' = Promised \ {w} /\ w \in Promised
    BY <1>0, <1>5, <2>1 DEF UnusedWithdrawals, Promised, RestTypeOK
  <2>5. SumOf(Promised) = wdAmount[w] + SumOf(Promised)' /\ SumOf(Promised)' \in Nat
    BY <1>0, <1>1, <2>4, PromiseKept
  <2>6. SumOf(Promised)' + onchain <= SumOf(Promised) + onchain' + fee
    BY <1>2, <1>4, <2>5
  <2> QED  BY <1>1, <1>2, <2>2, <2>3, <2>4, <2>6, UnseenFloat
<1>6. CASE wd[w] # "queued"
  <2>1. wd' = wd /\ Unseen(wdAmount[w] + fee)
    BY <1>6 DEF PaysOut
  <2>2. /\ unseen' = unseen + (wdAmount[w] + fee) /\ unseen' \in Nat
        /\ behind' \in [Users -> Nat]
        /\ \A u \in Users : hpc[u] = "write" => behind'[u] = behind[u] + (wdAmount[w] + fee)
    BY <1>0, <1>2, <2>1, UnseenNumbers
  <2>3. RestTypeOK'
    BY <1>0, <1>1, <1>3, <2>1, <2>2 DEF RestTypeOK
  <2>4. /\ UnusedWithdrawals' = UnusedWithdrawals /\ SumOf(Promised)' = SumOf(Promised)
    BY <1>1, <2>1 DEF UnusedWithdrawals, Promised, SumOf
  <2>5. SumOf(Promised)' + onchain <= SumOf(Promised) + onchain' + (wdAmount[w] + fee)
    BY <1>2, <1>4, <2>4
  <2> QED  BY <1>1, <1>2, <2>2, <2>3, <2>4, <2>5, UnseenFloat
<1> QED  BY <1>5, <1>6

\* A row that is put back in the queue is promised again.
LEMMA RequeuedFloat ==
    ASSUME LimitsInv, FloatInv, NEW w \in Withdrawals, Requeued(w)
    PROVE  FloatInv'
<1>0. RestTypeOK
  BY DEF FloatInv
<1>1. /\ UNCHANGED <<cast, sess, wdAmount, due, onchain, synced, case, hpc, kind, asks,
                     seen, restarts>>
      /\ wd[w] \in {"sent", "done"} /\ wd' = [wd EXCEPT ![w] = "queued"]
      /\ Unseen(wdAmount[w])
  BY DEF Requeued, supportVars
<1>2. /\ wdAmount[w] \in Nat /\ onchain \in Nat
      /\ Promised \in SUBSET Withdrawals /\ SumOf(Promised) \in Nat
      /\ IsFiniteSet(Promised) /\ \A v \in Promised \cup {w} : wdAmount[v] \in Nat
  BY <1>0, SumsOfWithdrawals, RequestNumbers DEF Promised
<1>3. /\ unseen' = unseen + wdAmount[w] /\ unseen' \in Nat /\ behind' \in [Users -> Nat]
      /\ \A u \in Users : hpc[u] = "write" => behind'[u] = behind[u] + wdAmount[w]
  BY <1>0, <1>1, <1>2, UnseenNumbers
<1>4. RestTypeOK'
  BY <1>0, <1>1, <1>3 DEF RestTypeOK
<1>5. /\ UnusedWithdrawals' = UnusedWithdrawals
      /\ Promised' = Promised \cup {w} /\ w \notin Promised
  BY <1>0, <1>1 DEF UnusedWithdrawals, Promised, RestTypeOK
<1>6. SumOf(Promised)' = wdAmount[w] + SumOf(Promised)
  BY <1>1, <1>2, <1>5, SumAdd DEF SumOf
<1>7. SumOf(Promised)' + onchain <= SumOf(Promised) + onchain' + wdAmount[w]
  BY <1>1, <1>2, <1>6
<1> QED  BY <1>1, <1>2, <1>3, <1>4, <1>5, <1>7, UnseenFloat

\* A payment by hand.
LEMMA OperatorPaysFloat ==
    ASSUME LimitsInv, FloatInv, NEW amount \in Amounts, NEW fee \in Fees,
           OperatorPays(amount, fee)
    PROVE  FloatInv'
<1> DEFINE sats == amount + fee
<1>0. RestTypeOK /\ sats \in Nat
  BY FloatConstants DEF FloatInv
<1>1. /\ UNCHANGED <<cast, sess, wd, wdAmount, due, case, hpc, kind, asks, seen, restarts>>
      /\ Spend(sats) /\ Unseen(sats)
  BY DEF OperatorPays, supportVars
<1> HIDE DEF sats
<1>2. /\ onchain' \in 0..Float /\ synced' \in 0..Float
      /\ onchain' = onchain - sats /\ onchain \in Nat
  BY <1>0, <1>1, SpendNumbers
<1>3. /\ unseen' = unseen + sats /\ unseen' \in Nat /\ behind' \in [Users -> Nat]
      /\ \A u \in Users : hpc[u] = "write" => behind'[u] = behind[u] + sats
  BY <1>0, <1>1, UnseenNumbers
<1>4. RestTypeOK'
  BY <1>0, <1>1, <1>2, <1>3 DEF RestTypeOK
<1>5. /\ UnusedWithdrawals' = UnusedWithdrawals
      /\ SumOf(Promised)' = SumOf(Promised) /\ SumOf(Promised) \in Nat
  BY <1>0, <1>1, SumsOfWithdrawals DEF UnusedWithdrawals, Promised, SumOf
<1>6. SumOf(Promised)' + onchain <= SumOf(Promised) + onchain' + sats
  BY <1>0, <1>2, <1>5
<1> QED  BY <1>0, <1>1, <1>3, <1>4, <1>5, <1>6, UnseenFloat

\* The steps of a request before and after the cap.
LEMMA RequestFloat ==
    ASSUME LimitsInv, FloatInv, NEW h \in Users,
           \/ \E done \in BOOLEAN : Purge(h, done) \/ Touch(h, done) \/ InsertDeposit(h, done)
           \/ \E s \in Sessions : CreateSession(h, s)
           \/ Resolve(h) \/ Sweep(h) \/ CountSession(h) \/ CountGlobal(h)
           \/ ReadBalance(h) \/ InsertWithdrawalFails(h)
           \/ CountMessages(h) \/ InsertMessage(h) \/ OpenCase(h)
           \/ GiveUp(h) \/ AssignFails(h)
    PROVE  FloatInv'
<1> USE DEF supportVars, Goes
<1>0. DoorTypeOK /\ KindsInv /\ RowsInv
      /\ sess \in [Sessions -> {"none", "live", "stale", "gone"}]
      /\ case \in [Sessions -> {"none", "open", "closed"}]
      /\ seen \in [Users -> 0..Float] /\ synced \in 0..Float
  BY DEF LimitsInv, FloatInv, RestTypeOK
<1>1. AfterSession[kind[h]] \in OnTheWay /\ kind[h] \in {"deposit", "withdrawal", "support"}
        => kind[h] = "withdrawal"
  BY DEF AfterSession, OnTheWay
<1>2. kind[h] \in {"deposit", "withdrawal", "support"} => AfterSession[kind[h]] # "write"
  BY DEF AfterSession
<1>3. ASSUME NEW done \in BOOLEAN, Purge(h, done)
      PROVE  FloatInv'
  <2>1. /\ sess' \in [Sessions -> {"none", "live", "stale", "gone"}]
        /\ case' \in [Sessions -> {"none", "open", "closed"}]
    BY <1>0, <1>3 DEF Purge
  <2>2. \E label \in {"create", "resolve"} : hpc' = [hpc EXCEPT ![h] = label]
    BY <1>3 DEF Purge
  <2> QED  BY <1>0, <1>3, <2>1, <2>2, GoesFloat DEF Purge, OnTheWay
<1>4. ASSUME NEW done \in BOOLEAN, Touch(h, done)
      PROVE  FloatInv'
  <2>1. sess' \in [Sessions -> {"none", "live", "stale", "gone"}] /\ case' = case
    BY <1>0, <1>4 DEF Touch
  <2>2. CASE kind[h] = "resume"
    BY <1>0, <1>4, <2>1, <2>2, AnswerFloat DEF Touch
  <2>3. CASE kind[h] # "resume"
    <3>1. kind[h] \in {"deposit", "withdrawal", "support"}
      BY <1>0, <1>4, <2>3 DEF Touch, KindsInv, DoorTypeOK, Kinds
    <3> QED  BY <1>0, <1>1, <1>2, <1>4, <2>1, <2>3, <3>1, GoesFloat DEF Touch
  <2> QED  BY <2>2, <2>3
<1>5. CASE Resolve(h)
  <2>0. kind[h] \notin {"start", "none"} /\ UNCHANGED <<sess, case>>
    BY <1>0, <1>5 DEF Resolve, KindsInv
  <2>1. CASE who[h] = NoSession
    <3>1. kind[h] \in {"deposit", "withdrawal", "support"}
      BY <1>0, <2>0, <2>1 DEF KindsInv, DoorTypeOK, Kinds
    <3> QED  BY <1>0, <1>1, <1>2, <1>5, <2>1, <3>1, GoesFloat DEF Resolve
  <2>2. CASE who[h] # NoSession /\ sess[who[h]] = "live"
    BY <1>0, <1>5, <2>2, GoesFloat DEF Resolve, OnTheWay
  <2>3. CASE who[h] # NoSession /\ sess[who[h]] # "live"
    BY <1>0, <1>5, <2>3, AnswerFloat DEF Resolve
  <2> QED  BY <2>1, <2>2, <2>3
<1>6. CASE Sweep(h) \/ CountSession(h) \/ CountGlobal(h) \/ CountMessages(h)
  <2>1. UNCHANGED <<cast, withdrawalVars, restarts, sess, case>>
    BY <1>6 DEF Sweep, CountSession, CountGlobal, CountMessages
  <2>2. \/ Answer(h)
        \/ \E label \in {"resolve", "global", "assign", "message"} : Goes(h, label)
    BY <1>6 DEF Sweep, CountSession, CountGlobal, CountMessages
  <2>3. CASE Answer(h)
    BY <1>0, <2>1, <2>3, AnswerFloat
  <2>4. CASE \E label \in {"resolve", "global", "assign", "message"} : Goes(h, label)
    BY <1>0, <2>1, <2>4, GoesFloat DEF OnTheWay
  <2> QED  BY <2>2, <2>3, <2>4
<1>7. CASE ReadBalance(h)
  <2>1. /\ UNCHANGED <<cast, withdrawalVars, restarts, sess, case, kind, asks, behind>>
        /\ hpc' = [hpc EXCEPT ![h] = "reserve"] /\ kind[h] = "withdrawal"
    BY <1>0, <1>7 DEF ReadBalance, RowsInv, OnTheWay
  <2>2. seen' \in [Users -> 0..Float]
    BY <1>0, <1>7 DEF ReadBalance
  <2> QED  BY <1>0, <2>1, <2>2, GoesFloat
<1>8. CASE InsertMessage(h)
  <2>1. UNCHANGED <<cast, withdrawalVars, restarts, sess, case>>
    BY <1>8 DEF InsertMessage
  <2>2. CASE Exists(who[h])
    BY <1>0, <1>8, <2>1, <2>2, GoesFloat DEF InsertMessage, OnTheWay
  <2>3. CASE ~Exists(who[h])
    BY <1>0, <1>8, <2>1, <2>3, AnswerFloat DEF InsertMessage
  <2> QED  BY <2>2, <2>3
<1>9. CASE OpenCase(h)
  <2>1. case' \in [Sessions -> {"none", "open", "closed"}]
    BY <1>0, <1>9 DEF OpenCase
  <2> QED  BY <1>0, <1>9, <2>1, AnswerFloat DEF OpenCase
<1>10. CASE \/ \E s \in Sessions : CreateSession(h, s)
            \/ \E done \in BOOLEAN : InsertDeposit(h, done)
            \/ InsertWithdrawalFails(h) \/ GiveUp(h) \/ AssignFails(h)
  <2>1. /\ Answer(h) /\ UNCHANGED <<cast, withdrawalVars, restarts, case>>
        /\ sess' \in [Sessions -> {"none", "live", "stale", "gone"}]
    BY <1>0, <1>10 DEF CreateSession, InsertDeposit, InsertWithdrawalFails, GiveUp, AssignFails
  <2> QED  BY <1>0, <2>1, AnswerFloat
<1> QED  BY <1>3, <1>4, <1>5, <1>6, <1>7, <1>8, <1>9, <1>10

\* The rest of the backend, and the process.
LEMMA WorldFloat ==
    ASSUME LimitsInv, FloatInv,
           \/ RefillTask \/ ModeTask \/ Outside \/ UNCHANGED vars
           \/ \E h \in Users : AssignStep(h)
           \/ \E loaded \in BOOLEAN : Restart(loaded)
    PROVE  FloatInv'
<1>0. DoorTypeOK /\ RestTypeOK /\ RowsInv
  BY DEF LimitsInv, FloatInv
<1>1. ASSUME UNCHANGED <<cast, wd, wdAmount, onchain, unseen, hpc, kind, asks, seen,
                         behind, restarts>>,
             due' \subseteq Withdrawals, synced' \in 0..Float,
             sess' \in [Sessions -> {"none", "live", "stale", "gone"}],
             case' \in [Sessions -> {"none", "open", "closed"}]
      PROVE  FloatInv'
  <2>1. RestTypeOK'
    BY <1>0, <1>1 DEF RestTypeOK
  <2> QED  BY <1>0, <1>1, <2>1, AsideInv DEF RowsInv
<1> USE DEF supportVars, requestVars, withdrawalVars, doorVars
<1>2. CASE RefillTask \/ ModeTask \/ UNCHANGED vars \/ \E h \in Users : AssignStep(h)
  <2>1. UNCHANGED doorVars
    BY <1>2 DEF RefillTask, ModeTask, AssignStep, vars
  <2> QED  BY <1>0, <1>1, <2>1 DEF RestTypeOK
<1>3. CASE \/ \E s \in Sessions : SessionAges(s) \/ MessagesAge(s)
           \/ \E s \in Sessions, status \in {"open", "closed"} : SetCaseStatus(s, status)
  <2>1. /\ UNCHANGED <<cast, withdrawalVars, hpc, kind, asks, seen, behind, restarts>>
        /\ sess' \in [Sessions -> {"none", "live", "stale", "gone"}]
        /\ case' \in [Sessions -> {"none", "open", "closed"}]
    BY <1>0, <1>3 DEF SessionAges, MessagesAge, SetCaseStatus, RestTypeOK
  <2> QED  BY <1>0, <1>1, <2>1 DEF RestTypeOK
<1>4. CASE \/ WatcherLists \/ \E d \in Ids : DepositCloses(d)
           \/ \E d \in Ids, next \in {"partial", "confirming", "closed"} :
                WatcherWrites(d, next)
  <2>1. UNCHANGED <<cast, sess, withdrawalVars, supportVars, requestVars, restarts>>
    BY <1>4 DEF WatcherLists, DepositCloses, WatcherWrites
  <2> QED  BY <1>0, <1>1, <2>1 DEF RestTypeOK
<1>5. CASE ListQueued \/ WalletSyncs
  <2>1. /\ UNCHANGED <<cast, sess, wd, wdAmount, onchain, unseen, case, hpc, kind, asks,
                       seen, behind, restarts>>
        /\ due' \subseteq Withdrawals /\ synced' \in 0..Float
    BY <1>0, <1>5 DEF ListQueued, WalletSyncs, RestTypeOK
  <2> QED  BY <1>0, <1>1, <2>1 DEF RestTypeOK
<1>7. CASE \/ \E w \in Withdrawals : Funded(w) \/ GivenUp(w) \/ Settled(w) \/ Requeued(w)
           \/ \E fee \in Fees : \/ \E w \in Withdrawals : PaysOut(w, fee)
                                \/ \E sats \in Amounts : OperatorPays(sats, fee)
  BY <1>7, MovesFloat, RequeuedFloat, PaysOutFloat, OperatorPaysFloat
<1>6. CASE \E loaded \in BOOLEAN : Restart(loaded)
  <2> USE <1>6 DEF Restart
  <2>1. RestTypeOK'
    BY <1>0, FloatConstants DEF RestTypeOK
  <2>2. \A u \in Users : kind'[u] = "none" /\ hpc'[u] = "idle"
    OBVIOUS
  <2>3. UNCHANGED <<wd, wdAmount, onchain, unseen>>
    OBVIOUS
  <2> HIDE <1>6 DEF Restart
  <2> QED  BY <2>1, <2>2, <2>3, AsideInv DEF OnTheWay
<1> QED  BY <1>2, <1>3, <1>4, <1>5, <1>6, <1>7 DEF Outside

\* Every step keeps the float covered.
LEMMA FloatNext == LimitsInv /\ FloatInv /\ [Next]_vars => FloatInv'
<1> SUFFICES ASSUME LimitsInv, FloatInv, [Next]_vars PROVE FloatInv'
  OBVIOUS
<1>1. ASSUME NEW h \in Users, RequestStep(h)
      PROVE  FloatInv'
  BY <1>1, RequestFloat, ReadReservedFloat, InsertWithdrawalFloat, WorldFloat
  DEF RequestStep
<1>2. ASSUME NEW h \in Users, Enter(h) \/ GiveUp(h) \/ AssignFails(h)
      PROVE  FloatInv'
  BY <1>2, EnterFloat, RequestFloat
<1>3. CASE \/ RefillTask \/ ModeTask \/ Outside \/ UNCHANGED vars
           \/ \E loaded \in BOOLEAN : Restart(loaded)
  BY <1>3, WorldFloat
<1> QED  BY <1>1, <1>2, <1>3 DEF Next

\* At the start there is no withdrawal.
LEMMA FloatInit == Init => FloatInv
<1> SUFFICES ASSUME Init PROVE FloatInv
  OBVIOUS
<1> USE FloatConstants DEF Init
<1>1. RestTypeOK
  BY DEF RestTypeOK
<1>2. RowsInv
  <2>1. Asking("withdrawal") = {} /\ IsFiniteSet(UnusedWithdrawals)
    BY PartIsSmaller DEF Asking, UnusedWithdrawals
  <2>2. /\ Cardinality(Asking("withdrawal")) = 0 /\ Cardinality(UnusedWithdrawals) \in Nat
    BY <2>1, FS_EmptySet, FS_CardinalityType
  <2> QED  BY <2>2 DEF RowsInv, OnTheWay
<1>3. CoverInv
  <2>1. Promised = {}
    BY DEF Promised
  <2>2. SumOf(Promised) = 0
    BY <2>1, SumOfNone DEF SumOf
  <2> QED  BY <2>2 DEF CoverInv, FloatCovered, Promised
<1> QED  BY <1>1, <1>2, <1>3 DEF FloatInv

\* The inductive invariant behind the float: types, rows for those who will
\* insert one, and the cover of what is promised and about to be.
THEOREM FloatInvariance == Spec => []FloatInv
  BY FloatInit, FloatNext, RoomInvariance, PTL DEF Spec

\* FloatCovered (request_withdrawal, reserved_onchain_withdrawal_sats): the
\* withdrawals still to be paid are covered by the on-chain balance, short only
\* of what the last accepted request could not see and of what was paid or
\* reserved past the cap since.
THEOREM FloatIsCovered == Spec => []FloatCovered
<1>1. FloatInv => FloatCovered
  BY DEF FloatInv, CoverInv
<1> QED  BY <1>1, FloatInvariance, PTL

\* FdTypeOK: every variable of the composition keeps its type.
THEOREM DoorTypes == Spec => []FdTypeOK
<1>1. PoolInv /\ ModeInv /\ LimitsInv /\ FloatInv => FdTypeOK
  BY DEF PoolInv, ModeInv, LimitsInv, DoorTypeOK, FloatInv, RestTypeOK, FdTypeOK
<1> QED
  BY <1>1, UsesPool, PoolInvariance, UsesMode, ModeInvariance, RoomInvariance,
     FloatInvariance, PTL
================================================================================
