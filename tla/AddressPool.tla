------------------------------ MODULE AddressPool ------------------------------
(***************************************************************************)
(* The pool of deposit addresses (address.rs, the addresses table of       *)
(* db.rs).  A deposit request takes the available address with the lowest  *)
(* derivation index; when there is none, and once a minute, addresses are  *)
(* derived until the target is available again.                            *)
(*                                                                         *)
(* Requests and the refill task run at the same time and share nothing but *)
(* the table: every action below is one statement.  What one of them read  *)
(* may be out of date when it writes.                                      *)
(***************************************************************************)
EXTENDS Naturals, FiniteSets

CONSTANTS
    Users,      \* requests that assign an address
    Refill,     \* the refill task of main, the startup included
    Ids,        \* ids of deposits; a request makes up a new one
    Target,     \* ADDRESS_POOL_TARGET, at least 1 (AddressPool::new)
    MaxIndex,   \* bound: the highest derivation index
    NoId        \* absent value

Indexes == 0..MaxIndex
NoIndex == MaxIndex + 1
Fillers == Users \cup {Refill}

ASSUME PoolAssumption ==
    /\ Target \in Nat \ {0} /\ MaxIndex \in Nat
    /\ Refill \notin Users /\ NoId \notin Ids

VARIABLES
    address,    \* state of the row of each derived address
    owner,      \* its deposit_id
    given,      \* the address a deposit was given, to keep in its own row
    ppc,        \* where each caller is
    asking,     \* deposit id an assignment is for
    available,  \* ensure_capacity's count of available addresses
    nextIndex,  \* ensure_capacity's next derivation index
    candidate   \* the address assign_address fetched

tableVars == <<address, owner, given>>
fillVars  == <<available, nextIndex>>
poolVars  == <<tableVars, ppc, asking, fillVars, candidate>>

Free == {i \in Indexes : address[i] = "available"}
Derived == {i \in Indexes : address[i] # "none"}

\* The process some time after its first ensure_capacity: deposits have taken
\* the addresses below an index, the first of them the deposit d.
PoolInitFrom(used, d) ==
    /\ address = [i \in Indexes |-> IF i < used THEN "allocated"
                                    ELSE IF i < Target THEN "available" ELSE "none"]
    /\ owner = [i \in Indexes |-> IF i = 0 /\ i < used THEN d ELSE NoId]
    /\ given = [e \in Ids |-> IF e = d /\ 0 < used THEN 0 ELSE NoIndex]
    /\ ppc = [u \in Fillers |-> "rest"] /\ asking = [u \in Fillers |-> NoId]
    /\ available = [u \in Fillers |-> 0] /\ nextIndex = [u \in Fillers |-> 0]
    /\ candidate = [u \in Fillers |-> NoIndex]

PoolInit == \E used \in 0..Target, d \in Ids : PoolInitFrom(used, d)

Goto(u, label) == ppc' = [ppc EXCEPT ![u] = label]

--------------------------------------------------------------------------------
(***************************************************************************)
(* assign_address.                                                         *)
(***************************************************************************)

\* The deposit id is new: a UUID no row and no other request has.
BeginAssign(u, d) ==
    /\ ppc[u] = "rest" /\ u # Refill
    /\ \A i \in Indexes : owner[i] # d
    /\ \A v \in Fillers : asking[v] # d
    /\ Goto(u, "fetch") /\ asking' = [asking EXCEPT ![u] = d]
    /\ UNCHANGED <<tableVars, fillVars, candidate>>

\* fetch_available_address: the lowest index, or none.
FetchAvailable(u) ==
    /\ ppc[u] = "fetch"
    /\ IF Free = {}
       THEN Goto(u, "count") /\ UNCHANGED candidate
       ELSE /\ Goto(u, "claim")
            /\ \E i \in Free : /\ \A j \in Free : i <= j
                               /\ candidate' = [candidate EXCEPT ![u] = i]
    /\ UNCHANGED <<tableVars, asking, fillVars>>

Allocate(i, d) ==
    /\ address' = [address EXCEPT ![i] = "allocated"]
    /\ owner' = [owner EXCEPT ![i] = d]

\* Mutated form of ClaimAddress: the update does not look at the state.
ClaimAnyway(u) ==
    /\ ppc[u] = "claim" /\ Allocate(candidate[u], asking[u]) /\ Goto(u, "got")
    /\ UNCHANGED <<given, asking, fillVars, candidate>>

\* claim_address takes it only while it is available; otherwise another
\* request was faster and the loop starts over.
ClaimAddress(u) ==
    /\ ppc[u] = "claim"
    /\ IF address[candidate[u]] = "available"
       THEN /\ Allocate(candidate[u], asking[u]) /\ Goto(u, "got")
            /\ UNCHANGED candidate
       ELSE /\ UNCHANGED <<address, owner>> /\ Goto(u, "fetch")
            /\ candidate' = [candidate EXCEPT ![u] = NoIndex]
    /\ UNCHANGED <<given, asking, fillVars>>

Reset(u) ==
    /\ Goto(u, "rest") /\ asking' = [asking EXCEPT ![u] = NoId]
    /\ available' = [available EXCEPT ![u] = 0]
    /\ nextIndex' = [nextIndex EXCEPT ![u] = 0]
    /\ candidate' = [candidate EXCEPT ![u] = NoIndex]

\* The request has its address.
Assigned(u) ==
    /\ ppc[u] = "got"
    /\ given' = [given EXCEPT ![asking[u]] = candidate[u]]
    /\ Reset(u) /\ UNCHANGED <<address, owner>>

--------------------------------------------------------------------------------
(***************************************************************************)
(* ensure_capacity, from the refill task or from an assignment.            *)
(***************************************************************************)

BeginRefill ==
    /\ ppc[Refill] = "rest" /\ Goto(Refill, "count")
    /\ UNCHANGED <<tableVars, asking, fillVars, candidate>>

\* The task sleeps again, an assignment goes on with its loop.
Filled(u) == Goto(u, IF u = Refill THEN "rest" ELSE "fetch")

\* Mutated form of CountAvailable: a full pool is filled all the same.
CountOnly(u) ==
    /\ ppc[u] = "count" /\ Goto(u, "max")
    /\ available' = [available EXCEPT ![u] = Cardinality(Free)]
    /\ UNCHANGED <<tableVars, asking, nextIndex, candidate>>

\* count_available_addresses.
CountAvailable(u) ==
    /\ ppc[u] = "count"
    /\ IF Cardinality(Free) >= Target
       THEN Filled(u) /\ UNCHANGED available
       ELSE /\ Goto(u, "max")
            /\ available' = [available EXCEPT ![u] = Cardinality(Free)]
    /\ UNCHANGED <<tableVars, asking, nextIndex, candidate>>

\* max_derivation_index: one more than the highest, 0 for an empty table.
ReadMaxIndex(u) ==
    /\ ppc[u] = "max" /\ Goto(u, "insert")
    /\ \E n \in 0..MaxIndex + 1 :
        /\ \A i \in Derived : i < n
        /\ n = 0 \/ n - 1 \in Derived
        /\ nextIndex' = [nextIndex EXCEPT ![u] = n]
    /\ UNCHANGED <<tableVars, asking, available, candidate>>

Derive(i) == address' = [address EXCEPT ![i] = "available"]

\* Mutated form of InsertAddress: an address that is there already is tried
\* again.
InsertStubborn(u) ==
    /\ ppc[u] = "insert" /\ nextIndex[u] <= MaxIndex
    /\ IF address[nextIndex[u]] # "none"
       THEN UNCHANGED <<address, ppc, fillVars>>
       ELSE /\ Derive(nextIndex[u])
            /\ IF available[u] + 1 < Target
               THEN /\ available' = [available EXCEPT ![u] = @ + 1]
                    /\ nextIndex' = [nextIndex EXCEPT ![u] = @ + 1]
                    /\ UNCHANGED ppc
               ELSE /\ available' = [available EXCEPT ![u] = 0]
                    /\ nextIndex' = [nextIndex EXCEPT ![u] = 0]
                    /\ Filled(u)
    /\ UNCHANGED <<owner, given, asking, candidate>>

\* Mutated form of InsertAddress: what was inserted is not counted.
InsertUncounted(u) ==
    /\ ppc[u] = "insert" /\ nextIndex[u] <= MaxIndex
    /\ address' = [address EXCEPT ![nextIndex[u]] =
                    IF @ = "none" THEN "available" ELSE @]
    /\ nextIndex' = [nextIndex EXCEPT ![u] = @ + 1]
    /\ UNCHANGED <<owner, given, ppc, asking, available, candidate>>

\* One turn of the loop: insert_address, ON CONFLICT(address) DO NOTHING.
\* A conflict means another caller derived the index; the next one is tried.
InsertAddress(u) ==
    /\ ppc[u] = "insert" /\ nextIndex[u] <= MaxIndex
    /\ LET new == address[nextIndex[u]] = "none"
           count == IF new THEN available[u] + 1 ELSE available[u]
       IN   /\ IF new THEN Derive(nextIndex[u]) ELSE UNCHANGED address
            /\ IF count < Target
               THEN /\ available' = [available EXCEPT ![u] = count]
                    /\ nextIndex' = [nextIndex EXCEPT ![u] = @ + 1]
                    /\ UNCHANGED ppc
               ELSE /\ available' = [available EXCEPT ![u] = 0]
                    /\ nextIndex' = [nextIndex EXCEPT ![u] = 0]
                    /\ Filled(u)
    /\ UNCHANGED <<owner, given, asking, candidate>>

--------------------------------------------------------------------------------
(***************************************************************************)
(* A statement fails: the caller gives up.  Its answer may have been lost  *)
(* after the statement took effect.                                        *)
(***************************************************************************)

PoolFails(u) ==
    /\ ppc[u] \in {"fetch", "claim", "count", "max", "insert"}
    /\ Reset(u) /\ UNCHANGED tableVars

ClaimLost(u) ==
    /\ ppc[u] = "claim" /\ address[candidate[u]] = "available"
    /\ Allocate(candidate[u], asking[u])
    /\ Reset(u) /\ UNCHANGED given

InsertLost(u) ==
    /\ ppc[u] = "insert" /\ nextIndex[u] <= MaxIndex
    /\ address[nextIndex[u]] = "none" /\ Derive(nextIndex[u])
    /\ Reset(u) /\ UNCHANGED <<owner, given>>

PoolGivesUp(u) == PoolFails(u) \/ ClaimLost(u) \/ InsertLost(u)

PoolStep(u) ==
    \/ FetchAvailable(u) \/ ClaimAddress(u)
    \/ CountAvailable(u) \/ ReadMaxIndex(u) \/ InsertAddress(u)

\* The process ends; the table stays.
PoolRestart ==
    /\ ppc' = [u \in Fillers |-> "rest"] /\ asking' = [u \in Fillers |-> NoId]
    /\ available' = [u \in Fillers |-> 0] /\ nextIndex' = [u \in Fillers |-> 0]
    /\ candidate' = [u \in Fillers |-> NoIndex]
    /\ UNCHANGED tableVars

PoolNext ==
    \/ \E u \in Users, d \in Ids : BeginAssign(u, d)
    \/ BeginRefill
    \/ \E u \in Fillers : PoolStep(u) \/ PoolGivesUp(u) \/ Assigned(u)
    \/ PoolRestart

PoolSpec == PoolInit /\ [][PoolNext]_poolVars

--------------------------------------------------------------------------------
(***************************************************************************)
(* Properties.                                                             *)
(***************************************************************************)

PoolTypeOK ==
    /\ address \in [Indexes -> {"none", "available", "allocated"}]
    /\ owner \in [Indexes -> Ids \cup {NoId}]
    /\ given \in [Ids -> Indexes \cup {NoIndex}]
    /\ ppc \in [Fillers -> {"rest", "fetch", "claim", "got", "count", "max", "insert"}]
    /\ asking \in [Fillers -> Ids \cup {NoId}]
    /\ available \in [Fillers -> 0..Target]
    /\ nextIndex \in [Fillers -> 0..MaxIndex + 1]
    /\ candidate \in [Fillers -> Indexes \cup {NoIndex}]

\* An address given to a deposit stays that deposit's: its row says so and it
\* is never available again, so no other deposit waits for the same payment
\* (assign_address, claim_address).
AddressNotShared ==
    \A d \in Ids : given[d] # NoIndex =>
        address[given[d]] = "allocated" /\ owner[given[d]] = d
================================================================================
