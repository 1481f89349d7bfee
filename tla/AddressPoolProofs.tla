--------------------------- MODULE AddressPoolProofs ---------------------------
(***************************************************************************)
(* AddressPool keeps its types and never gives an address out twice, for   *)
(* any number of requests, any target and any number of addresses.         *)
(*                                                                         *)
(* AddressNotShared alone is not inductive: a request that has claimed an  *)
(* address and has not yet written it into its deposit must find its claim *)
(* still there.  The conditional update of claim_address is what keeps it. *)
(***************************************************************************)
EXTENDS AddressPool, FiniteSetTheorems, TLAPS

\* Who is where: only requests assign, and one that does has its id.
CallersInv ==
    /\ ppc[Refill] \notin {"fetch", "claim", "got"}
    /\ \A u \in Users : ppc[u] # "rest" => asking[u] \in Ids
    /\ \A u \in Fillers : ppc[u] \in {"claim", "got"} => candidate[u] \in Indexes

\* A claim that is not yet written into its deposit is in the table.
ClaimsHeld ==
    \A u \in Fillers : ppc[u] = "got" =>
        /\ address[candidate[u]] = "allocated"
        /\ owner[candidate[u]] = asking[u]

PoolInv == PoolTypeOK /\ CallersInv /\ ClaimsHeld /\ AddressNotShared

--------------------------------------------------------------------------------

\* What the constants give: numbers, and absent values that are no values.
LEMMA PoolConstants ==
    /\ Target \in Nat /\ Target > 0 /\ MaxIndex \in Nat
    /\ Refill \in Fillers /\ Refill \notin Users /\ Users \subseteq Fillers
    /\ NoId \notin Ids /\ NoIndex \notin Indexes /\ 0 \in Indexes
  BY PoolAssumption DEF Fillers, NoIndex, Indexes

\* The available addresses are finitely many.
LEMMA FreeIsFinite ==
    PoolTypeOK => Cardinality(Free) \in Nat
<1>1. IsFiniteSet(Indexes)
  BY PoolConstants, FS_Interval DEF Indexes
<1>2. IsFiniteSet(Free)
  BY <1>1, FS_Subset DEF Free
<1> QED  BY <1>2, FS_CardinalityType

\* The start of the process.
LEMMA PoolInitInv == PoolInit => PoolInv
<1> SUFFICES ASSUME PoolInit PROVE PoolInv
  OBVIOUS
<1> PICK used \in 0..Target, d \in Ids : PoolInitFrom(used, d)
  BY DEF PoolInit
<1> USE PoolConstants DEF PoolInitFrom
<1>1. PoolTypeOK
  BY DEF PoolTypeOK, NoIndex
<1>2. CallersInv
  BY DEF CallersInv, Fillers
<1>3. ClaimsHeld
  BY DEF ClaimsHeld
<1>4. AddressNotShared
  BY DEF AddressNotShared, NoIndex
<1> QED  BY <1>1, <1>2, <1>3, <1>4 DEF PoolInv

--------------------------------------------------------------------------------
(***************************************************************************)
(* One lemma per action.                                                   *)
(***************************************************************************)

\* A caller that stops where it is leaves the table as it was.
LEMMA ResetInv ==
    ASSUME PoolInv, NEW u \in Fillers, Reset(u), UNCHANGED tableVars
    PROVE  PoolInv'
<1> USE PoolConstants DEF PoolInv, Reset, Goto, tableVars
<1>1. PoolTypeOK'
  BY DEF PoolTypeOK, NoIndex
<1>2. CallersInv'
  BY DEF PoolTypeOK, CallersInv, Fillers
<1>3. ClaimsHeld'
  BY DEF PoolTypeOK, ClaimsHeld
<1>4. AddressNotShared'
  BY DEF AddressNotShared
<1> QED  BY <1>1, <1>2, <1>3, <1>4

\* A request begins to assign.
LEMMA BeginAssignInv ==
    ASSUME PoolInv, NEW u \in Users, NEW d \in Ids, BeginAssign(u, d)
    PROVE  PoolInv'
<1> USE PoolConstants DEF PoolInv, BeginAssign, Goto, tableVars, fillVars
<1>1. PoolTypeOK'
  BY DEF PoolTypeOK
<1>2. CallersInv'
  BY DEF PoolTypeOK, CallersInv
<1>3. ClaimsHeld'
  BY DEF PoolTypeOK, ClaimsHeld
<1>4. AddressNotShared'
  BY DEF AddressNotShared
<1> QED  BY <1>1, <1>2, <1>3, <1>4

\* The candidate is an available address, which may be gone when it is claimed.
LEMMA FetchAvailableInv ==
    ASSUME PoolInv, NEW u \in Fillers, FetchAvailable(u)
    PROVE  PoolInv'
<1> USE PoolConstants DEF PoolInv, FetchAvailable, Goto, tableVars, fillVars
<1>1. PoolTypeOK'
  BY DEF PoolTypeOK, Free
<1>2. CallersInv'
  BY DEF PoolTypeOK, CallersInv, Free, Fillers
<1>3. ClaimsHeld'
  BY DEF PoolTypeOK, ClaimsHeld
<1>4. AddressNotShared'
  BY DEF AddressNotShared
<1> QED  BY <1>1, <1>2, <1>3, <1>4

\* Only an available address is claimed, so it is nobody's: neither written
\* into a deposit nor claimed by another request.
LEMMA AllocateInv ==
    ASSUME PoolInv, NEW u \in Fillers, ppc[u] = "claim",
           address[candidate[u]] = "available",
           Allocate(candidate[u], asking[u]), given' = given
    PROVE  /\ address' \in [Indexes -> {"none", "available", "allocated"}]
           /\ owner' \in [Indexes -> Ids \cup {NoId}]
           /\ \A v \in Fillers : ppc[v] = "got" =>
                /\ address'[candidate[v]] = "allocated"
                /\ owner'[candidate[v]] = asking[v]
           /\ address'[candidate[u]] = "allocated"
           /\ owner'[candidate[u]] = asking[u]
           /\ AddressNotShared'
<1> USE DEF PoolInv, Allocate
<1>1. candidate[u] \in Indexes
  BY DEF CallersInv
<1>2. /\ address' \in [Indexes -> {"none", "available", "allocated"}]
      /\ owner' \in [Indexes -> Ids \cup {NoId}]
      /\ address'[candidate[u]] = "allocated"
      /\ owner'[candidate[u]] = asking[u]
  BY <1>1 DEF PoolTypeOK
<1>3. ASSUME NEW v \in Fillers, ppc[v] = "got"
      PROVE  /\ address'[candidate[v]] = "allocated"
             /\ owner'[candidate[v]] = asking[v]
  <2>1. candidate[v] \in Indexes /\ candidate[v] # candidate[u]
    BY <1>3 DEF CallersInv, ClaimsHeld
  <2> QED  BY <1>1, <1>3, <2>1 DEF ClaimsHeld, PoolTypeOK
<1>4. AddressNotShared'
  <2> SUFFICES ASSUME NEW d \in Ids, given[d] # NoIndex
               PROVE  address'[given[d]] = "allocated" /\ owner'[given[d]] = d
    BY DEF AddressNotShared
  <2>1. given[d] \in Indexes /\ given[d] # candidate[u]
    BY DEF AddressNotShared, PoolTypeOK
  <2> QED  BY <1>1, <2>1 DEF AddressNotShared, PoolTypeOK
<1> QED  BY <1>2, <1>3, <1>4

\* The claim takes effect, or another request was faster.
LEMMA ClaimAddressInv ==
    ASSUME PoolInv, NEW u \in Fillers, ClaimAddress(u)
    PROVE  PoolInv'
<1> USE PoolConstants DEF ClaimAddress, Goto, fillVars
<1>1. CASE address[candidate[u]] = "available"
  <2>1. /\ address' \in [Indexes -> {"none", "available", "allocated"}]
        /\ owner' \in [Indexes -> Ids \cup {NoId}]
        /\ \A v \in Fillers : ppc[v] = "got" =>
             /\ address'[candidate[v]] = "allocated"
             /\ owner'[candidate[v]] = asking[v]
        /\ address'[candidate[u]] = "allocated"
        /\ owner'[candidate[u]] = asking[u]
        /\ AddressNotShared'
    BY <1>1, AllocateInv
  <2>2. PoolTypeOK'
    BY <1>1, <2>1 DEF PoolInv, PoolTypeOK
  <2>3. CallersInv'
    BY <1>1 DEF PoolInv, PoolTypeOK, CallersInv
  <2>4. ClaimsHeld'
    BY <1>1, <2>1 DEF PoolInv, PoolTypeOK, ClaimsHeld
  <2> QED  BY <2>1, <2>2, <2>3, <2>4 DEF PoolInv
<1>2. CASE address[candidate[u]] # "available"
  <2> USE <1>2 DEF PoolInv
  <2>1. PoolTypeOK'
    BY DEF PoolTypeOK
  <2>2. CallersInv'
    BY DEF PoolTypeOK, CallersInv
  <2>3. ClaimsHeld'
    BY DEF PoolTypeOK, ClaimsHeld
  <2>4. AddressNotShared'
    BY DEF AddressNotShared
  <2> QED  BY <2>1, <2>2, <2>3, <2>4
<1> QED  BY <1>1, <1>2

\* The claim takes effect and nobody hears of it: the address is lost.
LEMMA ClaimLostInv ==
    ASSUME PoolInv, NEW u \in Fillers, ClaimLost(u)
    PROVE  PoolInv'
<1> USE PoolConstants DEF ClaimLost, Reset, Goto
<1>1. /\ address' \in [Indexes -> {"none", "available", "allocated"}]
      /\ owner' \in [Indexes -> Ids \cup {NoId}]
      /\ \A v \in Fillers : ppc[v] = "got" =>
           /\ address'[candidate[v]] = "allocated"
           /\ owner'[candidate[v]] = asking[v]
      /\ AddressNotShared'
  BY AllocateInv
<1>2. PoolTypeOK'
  BY <1>1 DEF PoolInv, PoolTypeOK, NoIndex
<1>3. CallersInv'
  BY DEF PoolInv, PoolTypeOK, CallersInv, Fillers
<1>4. ClaimsHeld'
  BY <1>1 DEF PoolInv, PoolTypeOK, ClaimsHeld
<1> QED  BY <1>1, <1>2, <1>3, <1>4 DEF PoolInv

\* The address goes into the deposit it was claimed for.
LEMMA AssignedInv ==
    ASSUME PoolInv, NEW u \in Fillers, Assigned(u)
    PROVE  PoolInv'
<1> USE PoolConstants DEF PoolInv, Assigned, Reset, Goto
<1>1. PoolTypeOK'
  <2>1. given' \in [Ids -> Indexes \cup {NoIndex}]
    <3>1. candidate[u] \in Indexes
      BY DEF CallersInv
    <3> QED  BY <3>1 DEF PoolTypeOK
  <2>2. /\ ppc' \in [Fillers -> {"rest", "fetch", "claim", "got", "count", "max", "insert"}]
        /\ asking' \in [Fillers -> Ids \cup {NoId}]
        /\ candidate' \in [Fillers -> Indexes \cup {NoIndex}]
    BY DEF PoolTypeOK
  <2>3. /\ available' \in [Fillers -> 0..Target]
        /\ nextIndex' \in [Fillers -> 0..MaxIndex + 1]
    BY DEF PoolTypeOK
  <2> QED  BY <2>1, <2>2, <2>3 DEF PoolTypeOK
<1>2. CallersInv'
  BY DEF PoolTypeOK, CallersInv, Fillers
<1>3. ClaimsHeld'
  BY DEF PoolTypeOK, ClaimsHeld
<1>4. AddressNotShared'
  <2> SUFFICES ASSUME NEW d \in Ids, given'[d] # NoIndex
               PROVE  address[given'[d]] = "allocated" /\ owner[given'[d]] = d
    BY DEF AddressNotShared
  <2>1. CASE d = asking[u]
    BY <2>1 DEF ClaimsHeld, PoolTypeOK
  <2>2. CASE d # asking[u]
    BY <2>2 DEF AddressNotShared, PoolTypeOK
  <2> QED  BY <2>1, <2>2
<1> QED  BY <1>1, <1>2, <1>3, <1>4

\* ensure_capacity looks at the table.
LEMMA CountingInv ==
    ASSUME PoolInv, NEW u \in Fillers,
           BeginRefill \/ CountAvailable(u) \/ ReadMaxIndex(u)
    PROVE  PoolInv'
<1> USE PoolConstants DEF PoolInv, BeginRefill, CountAvailable, ReadMaxIndex,
                          Filled, Goto, tableVars, fillVars
<1>0. Cardinality(Free) \in Nat
  BY FreeIsFinite
<1>1. PoolTypeOK'
  BY <1>0 DEF PoolTypeOK
<1>2. CallersInv'
  BY DEF PoolTypeOK, CallersInv, Fillers
<1>3. ClaimsHeld'
  BY DEF PoolTypeOK, ClaimsHeld
<1>4. AddressNotShared'
  BY DEF AddressNotShared
<1> QED  BY <1>1, <1>2, <1>3, <1>4

\* A new address is one that had no row, so nobody's either.
LEMMA DeriveInv ==
    ASSUME PoolInv, NEW i \in Indexes, address[i] = "none",
           Derive(i), UNCHANGED <<owner, given>>
    PROVE  /\ address' \in [Indexes -> {"none", "available", "allocated"}]
           /\ \A j \in Indexes : address[j] = "allocated" => address'[j] = "allocated"
           /\ AddressNotShared'
  BY DEF PoolInv, PoolTypeOK, Derive, AddressNotShared, Indexes, NoIndex

\* One turn of ensure_capacity's loop, with or without a new row.
LEMMA InsertAddressInv ==
    ASSUME PoolInv, NEW u \in Fillers, InsertAddress(u)
    PROVE  PoolInv'
<1> USE PoolConstants DEF InsertAddress, Filled, Goto
<1>1. nextIndex[u] \in Indexes
  BY DEF PoolInv, PoolTypeOK, Indexes
<1>2. /\ address' \in [Indexes -> {"none", "available", "allocated"}]
      /\ \A j \in Indexes : address[j] = "allocated" => address'[j] = "allocated"
      /\ AddressNotShared'
  <2>1. CASE address[nextIndex[u]] = "none"
    BY <1>1, <2>1, DeriveInv
  <2>2. CASE address[nextIndex[u]] # "none"
    BY <2>2 DEF PoolInv, PoolTypeOK, AddressNotShared
  <2> QED  BY <2>1, <2>2
<1>3. PoolTypeOK'
  <2>1. available[u] \in 0..Target /\ nextIndex[u] \in 0..MaxIndex
    BY <1>1 DEF PoolInv, PoolTypeOK, Indexes
  <2>2. ppc' \in [Fillers -> {"rest", "fetch", "claim", "got", "count", "max", "insert"}]
    BY DEF PoolInv, PoolTypeOK
  <2>3. available' \in [Fillers -> 0..Target]
    BY <2>1 DEF PoolInv, PoolTypeOK
  <2>4. nextIndex' \in [Fillers -> 0..MaxIndex + 1]
    BY <2>1 DEF PoolInv, PoolTypeOK
  <2> QED  BY <1>2, <2>2, <2>3, <2>4 DEF PoolInv, PoolTypeOK
<1>4. CallersInv'
  BY DEF PoolInv, PoolTypeOK, CallersInv, Fillers
<1>5. ClaimsHeld'
  BY <1>2 DEF PoolInv, PoolTypeOK, CallersInv, ClaimsHeld
<1> QED  BY <1>2, <1>3, <1>4, <1>5 DEF PoolInv

\* The row is inserted and nobody hears of it.
LEMMA InsertLostInv ==
    ASSUME PoolInv, NEW u \in Fillers, InsertLost(u)
    PROVE  PoolInv'
<1> USE PoolConstants DEF InsertLost, Reset, Goto
<1>1. nextIndex[u] \in Indexes
  BY DEF PoolInv, PoolTypeOK, Indexes
<1>2. /\ address' \in [Indexes -> {"none", "available", "allocated"}]
      /\ \A j \in Indexes : address[j] = "allocated" => address'[j] = "allocated"
      /\ AddressNotShared'
  BY <1>1, DeriveInv
<1>3. PoolTypeOK'
  BY <1>2 DEF PoolInv, PoolTypeOK, NoIndex
<1>4. CallersInv'
  BY DEF PoolInv, PoolTypeOK, CallersInv, Fillers
<1>5. ClaimsHeld'
  BY <1>2 DEF PoolInv, PoolTypeOK, CallersInv, ClaimsHeld
<1> QED  BY <1>2, <1>3, <1>4, <1>5 DEF PoolInv

\* The process ends.
LEMMA PoolRestartInv ==
    ASSUME PoolInv, PoolRestart
    PROVE  PoolInv'
<1> USE PoolConstants DEF PoolInv, PoolRestart, tableVars
<1>1. PoolTypeOK'
  BY DEF PoolTypeOK, NoIndex
<1>2. CallersInv'
  BY DEF CallersInv, Fillers
<1>3. ClaimsHeld'
  BY DEF ClaimsHeld
<1>4. AddressNotShared'
  BY DEF AddressNotShared
<1> QED  BY <1>1, <1>2, <1>3, <1>4

\* Every step of the pool keeps the invariant.
LEMMA PoolNextInv == PoolInv /\ [PoolNext]_poolVars => PoolInv'
<1> SUFFICES ASSUME PoolInv, [PoolNext]_poolVars PROVE PoolInv'
  OBVIOUS
<1>1. CASE UNCHANGED poolVars
  BY <1>1 DEF poolVars, tableVars, fillVars, PoolInv, PoolTypeOK, CallersInv,
              ClaimsHeld, AddressNotShared
<1>2. CASE \E u \in Users, d \in Ids : BeginAssign(u, d)
  BY <1>2, BeginAssignInv
<1>3. CASE BeginRefill
  BY <1>3, CountingInv, PoolConstants
<1>4. ASSUME NEW u \in Fillers, PoolStep(u) \/ PoolGivesUp(u) \/ Assigned(u)
      PROVE  PoolInv'
  <2>1. CASE FetchAvailable(u)
    BY <2>1, FetchAvailableInv
  <2>2. CASE ClaimAddress(u)
    BY <2>2, ClaimAddressInv
  <2>3. CASE CountAvailable(u) \/ ReadMaxIndex(u)
    BY <2>3, CountingInv
  <2>4. CASE InsertAddress(u)
    BY <2>4, InsertAddressInv
  <2>5. CASE PoolFails(u)
    BY <2>5, ResetInv DEF PoolFails
  <2>6. CASE ClaimLost(u)
    BY <2>6, ClaimLostInv
  <2>7. CASE InsertLost(u)
    BY <2>7, InsertLostInv
  <2>8. CASE Assigned(u)
    BY <2>8, AssignedInv
  <2> QED  BY <1>4, <2>1, <2>2, <2>3, <2>4, <2>5, <2>6, <2>7, <2>8
           DEF PoolStep, PoolGivesUp
<1>5. CASE PoolRestart
  BY <1>5, PoolRestartInv
<1> QED  BY <1>1, <1>2, <1>3, <1>4, <1>5 DEF PoolNext

--------------------------------------------------------------------------------

\* The inductive invariant holds in every reachable state of the pool: types,
\* who assigns, claims held, addresses not shared.
THEOREM PoolInvariance == PoolSpec => []PoolInv
  BY PoolInitInv, PoolNextInv, PTL DEF PoolSpec

\* AddressNotShared (assign_address, claim_address): an address given to a
\* deposit stays that deposit's.
THEOREM AddressesAreNotShared == PoolSpec => []AddressNotShared
<1>1. PoolInv => AddressNotShared
  BY DEF PoolInv
<1> QED  BY <1>1, PoolInvariance, PTL
================================================================================
