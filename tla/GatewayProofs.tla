----------------------------- MODULE GatewayProofs -----------------------------
(* Proofs about Gateway, for any number of workers, providers, slots, retries   *)
(* and fetches.                                                                 *)
EXTENDS Gateway, FiniteSetTheorems, TLAPS

\* The types in three parts; the size of the semaphore follows from SlotsAccounted.
WorkerType ==
  /\ entries \in 0 .. Entries /\ stop \in BOOLEAN
  /\ pc \in [Workers -> {"idle", "ready", "slot", "token", "calling", "logging", "sleeping"}]
  /\ left \in [Workers -> 0 .. VisitCost]
  /\ attempt \in [Workers -> 0 .. MaxRetries]
  /\ outcome \in [Workers -> Outcome \cup {"none"}]
  /\ counted \in Nat

PlaceType ==
  /\ at \in [Workers -> 0 .. Providers]
  /\ \A w \in Workers : pc[w] \notin {"idle", "ready"} => at[w] \in Provider

LimitType ==
  /\ free \in Nat /\ tokens \in 0 .. Capacity
  /\ failures \in [Provider -> 0 .. FailMax]
  /\ circuit \in [Provider -> {"closed", "open", "half_open"}]
  /\ calls \in [Provider -> Nat]

\* Who is inside the limiter's slot.
Inside == {w \in Workers : pc[w] \in {"token", "calling"}}

GatewayInv == WorkerType /\ PlaceType /\ LimitType /\ SlotsAccounted

\* The workers inside are never more than the slots taken, which bounds the free ones.
LEMMA InvTypes == GatewayInv => TypeOK
  <1> SUFFICES ASSUME GatewayInv PROVE TypeOK
    OBVIOUS
  <1>1. Cardinality(Inside) \in Nat
    BY FS_Subset, FS_CardinalityType, GatewayAssumption DEF Inside, GatewayAssumption
  <1>2. free \in 0 .. MaxSlots
    BY <1>1, GatewayAssumption DEF GatewayAssumption, GatewayInv, SlotsAccounted, LimitType, Inside
  <1> QED
    BY <1>2 DEF GatewayInv, WorkerType, PlaceType, LimitType, TypeOK

\* An idle slice has all its slots.
LEMMA GatewayInit == Init => GatewayInv
  <1> SUFFICES ASSUME Init PROVE GatewayInv
    OBVIOUS
  <1> USE GatewayAssumption DEF GatewayAssumption, Init
  <1>1. stop \in BOOLEAN
    BY Zenon
  <1>2. WorkerType
    BY <1>1 DEF WorkerType
  <1>3. PlaceType /\ LimitType
    BY DEF PlaceType, LimitType
  <1>4. Inside = {}
    BY DEF Inside
  <1>5. SlotsAccounted
    BY <1>4, FS_EmptySet DEF SlotsAccounted, Inside
  <1> QED
    BY <1>2, <1>3, <1>5 DEF GatewayInv

-------------------------------------------------------------------------------
\* A step that moves nobody into or out of a slot keeps the account.
LEMMA NobodyMoves ==
  ASSUME SlotsAccounted, Inside' = Inside, free' = free
  PROVE  SlotsAccounted'
  BY DEF SlotsAccounted, Inside

\* A worker that enters takes a slot.
LEMMA OneEnters ==
  ASSUME SlotsAccounted, LimitType, NEW w \in Workers, w \notin Inside,
         Inside' = Inside \cup {w}, free' = free - 1
  PROVE  SlotsAccounted'
  <1>1. IsFiniteSet(Inside)
    BY FS_Subset, GatewayAssumption DEF Inside, GatewayAssumption
  <1>2. Cardinality(Inside') = Cardinality(Inside) + 1 /\ Cardinality(Inside) \in Nat
    BY <1>1, FS_AddElement, FS_CardinalityType
  <1> QED
    BY <1>2 DEF SlotsAccounted, Inside, LimitType

\* A worker that leaves gives it back.
LEMMA OneLeaves ==
  ASSUME SlotsAccounted, LimitType, NEW w \in Workers, w \in Inside,
         Inside' = Inside \ {w}, free' = free + 1
  PROVE  SlotsAccounted'
  <1>1. IsFiniteSet(Inside)
    BY FS_Subset, GatewayAssumption DEF Inside, GatewayAssumption
  <1>2. Cardinality(Inside') = Cardinality(Inside) - 1 /\ Cardinality(Inside) \in Nat
    BY <1>1, FS_RemoveElement, FS_CardinalityType
  <1> QED
    BY <1>2 DEF SlotsAccounted, Inside, LimitType

\* A worker that goes down the waterfall is at a provider, or its visit is over.
LEMMA DescendTypes ==
  ASSUME WorkerType, PlaceType, NEW w \in Workers, NEW i \in 1 .. Providers + 1, Descend(w, i)
  PROVE  /\ PlaceType'
         /\ pc' \in
              [Workers -> {"idle", "ready", "slot", "token", "calling", "logging", "sleeping"}]
         /\ left' \in [Workers -> 0 .. VisitCost]
         /\ attempt' \in [Workers -> 0 .. MaxRetries]
         /\ outcome' \in [Workers -> Outcome \cup {"none"}]
         /\ pc'[w] \notin {"token", "calling"}
         /\ \A v \in Workers \ {w} : pc'[v] = pc[v]
  <1> USE GatewayAssumption DEF GatewayAssumption, WorkerType, PlaceType, Provider
  <1>1. CASE EndVisit(w)
    BY <1>1 DEF Descend, EndVisit
  <1>2. ASSUME NEW p \in i .. Providers,
               at' = [at EXCEPT ![w] = p], attempt' = [attempt EXCEPT ![w] = 0],
               outcome' = [outcome EXCEPT ![w] = "none"], pc' = [pc EXCEPT ![w] = "slot"],
               UNCHANGED left
        PROVE  /\ PlaceType'
               /\ pc' \in [Workers -> {"idle", "ready", "slot", "token", "calling", "logging",
                                       "sleeping"}]
               /\ left' \in [Workers -> 0 .. VisitCost]
               /\ attempt' \in [Workers -> 0 .. MaxRetries]
               /\ outcome' \in [Workers -> Outcome \cup {"none"}]
               /\ pc'[w] \notin {"token", "calling"}
               /\ \A v \in Workers \ {w} : pc'[v] = pc[v]
    BY <1>2
  <1> QED
    BY <1>1, <1>2 DEF Descend, EndVisit

\* A failure on record keeps the breakers what they are.
LEMMA FailureTypes ==
  ASSUME LimitType, NEW p \in Provider, RecordFailure(p)
  PROVE  /\ failures' \in [Provider -> 0 .. FailMax]
         /\ circuit' \in [Provider -> {"closed", "open", "half_open"}]
         /\ calls' \in [Provider -> Nat]
  BY GatewayAssumption DEF GatewayAssumption, LimitType, RecordFailure, Open

\* What a worker does outside the limiter keeps the invariant.
LEMMA VisitKeeps ==
  ASSUME GatewayInv, NEW w \in Workers, Begin(w) \/ StopSlice(w) \/ Fetch(w) \/ Wake(w)
  PROVE  GatewayInv'
  <1> USE GatewayAssumption DEF GatewayAssumption, GatewayInv, visitVars, tryVars,
                limitVars, breakerVars
  <1>1. CASE Begin(w) \/ StopSlice(w) \/ Wake(w)
    <2>1. WorkerType' /\ PlaceType' /\ LimitType'
      <3>1. CASE Begin(w)
        BY <3>1 DEF Begin, WorkerType, PlaceType, LimitType
      <3>2. CASE StopSlice(w)
        <4>1. stop' \in BOOLEAN
          BY <3>2, Zenon DEF StopSlice
        <4> QED
          BY <3>2, <4>1 DEF StopSlice, WorkerType, PlaceType, LimitType
      <3>3. CASE Wake(w)
        BY <3>3 DEF Wake, WorkerType, PlaceType, LimitType
      <3> QED
        BY <1>1, <3>1, <3>2, <3>3
    <2>2. Inside' = Inside /\ free' = free
      BY <1>1 DEF Begin, StopSlice, Wake, Inside, WorkerType
    <2> QED
      BY <2>1, <2>2, NobodyMoves
  <1>2. CASE Fetch(w)
    <2>1. /\ PlaceType'
          /\ pc' \in
               [Workers -> {"idle", "ready", "slot", "token", "calling", "logging", "sleeping"}]
          /\ left' \in [Workers -> 0 .. VisitCost]
          /\ attempt' \in [Workers -> 0 .. MaxRetries]
          /\ outcome' \in [Workers -> Outcome \cup {"none"}]
          /\ pc'[w] \notin {"token", "calling"}
          /\ \A v \in Workers \ {w} : pc'[v] = pc[v]
      BY <1>2, DescendTypes DEF Fetch
    <2>2. WorkerType' /\ LimitType'
      BY <1>2, <2>1 DEF Fetch, WorkerType, LimitType
    <2>3. Inside' = Inside /\ free' = free
      BY <1>2, <2>1 DEF Fetch, Inside, WorkerType
    <2> QED
      BY <2>1, <2>2, <2>3, NobodyMoves
  <1> QED
    BY <1>1, <1>2

\* So do the slot, the token and the answer of a call.
LEMMA LimiterKeeps ==
  ASSUME GatewayInv, NEW w \in Workers,
         \/ AcquireSlot(w) \/ AcquireToken(w) \/ RespondMalformed(w) \/ Cancel(w)
         \/ \E result \in Outcome : Respond(w, result)
  PROVE  GatewayInv'
  <1> USE GatewayAssumption DEF GatewayAssumption, GatewayInv, visitVars, tryVars,
                limitVars, breakerVars
  <1>1. CASE AcquireSlot(w)
    <2>1. WorkerType' /\ PlaceType' /\ LimitType'
      BY <1>1 DEF AcquireSlot, WorkerType, PlaceType, LimitType
    <2>2. w \notin Inside /\ Inside' = Inside \cup {w} /\ free' = free - 1
      BY <1>1 DEF AcquireSlot, Inside, WorkerType
    <2> QED
      BY <2>1, <2>2, OneEnters
  <1>2. CASE AcquireToken(w)
    <2>1. WorkerType' /\ PlaceType'
      BY <1>2 DEF AcquireToken, WorkerType, PlaceType
    <2>2. LimitType'
      BY <1>2 DEF AcquireToken, LimitType, PlaceType
    <2>3. Inside' = Inside /\ free' = free
      BY <1>2 DEF AcquireToken, Inside, WorkerType
    <2> QED
      BY <2>1, <2>2, <2>3, NobodyMoves
  <1>3. ASSUME NEW result \in Outcome, Respond(w, result) PROVE GatewayInv'
    <2>1. WorkerType' /\ PlaceType'
      BY <1>3 DEF Respond, WorkerType, PlaceType
    <2>2. at[w] \in Provider
      BY <1>3 DEF Respond, PlaceType
    <2>3. LimitType'
      <3>1. CASE result = "ok"
        BY <1>3, <2>2, <3>1 DEF Respond, RecordSuccess, LimitType
      <3>2. CASE result # "ok"
        BY <1>3, <3>2 DEF Respond, LimitType
      <3> QED
        BY <3>1, <3>2
    <2>4. w \in Inside /\ Inside' = Inside \ {w} /\ free' = free + 1
      BY <1>3 DEF Respond, Inside, WorkerType
    <2> QED
      BY <2>1, <2>3, <2>4, OneLeaves
  <1>4. CASE RespondMalformed(w)
    <2>1. WorkerType' /\ PlaceType' /\ LimitType'
      BY <1>4 DEF RespondMalformed, EndVisit, WorkerType, PlaceType, LimitType
    <2>2. w \in Inside /\ Inside' = Inside \ {w} /\ free' = free + 1
      BY <1>4 DEF RespondMalformed, EndVisit, Inside, WorkerType
    <2> QED
      BY <2>1, <2>2, OneLeaves
  <1>5. CASE Cancel(w)
    <2>1. WorkerType' /\ PlaceType' /\ LimitType'
      BY <1>5 DEF Cancel, EndVisit, WorkerType, PlaceType, LimitType
    <2>2. CASE Holds(w)
      <3>1. w \in Inside /\ Inside' = Inside \ {w} /\ free' = free + 1
        BY <1>5, <2>2 DEF Cancel, EndVisit, Inside, WorkerType, Holds
      <3> QED
        BY <2>1, <3>1, OneLeaves
    <2>3. CASE ~Holds(w)
      <3>1. Inside' = Inside /\ free' = free
        BY <1>5, <2>3 DEF Cancel, EndVisit, Inside, WorkerType, Holds
      <3> QED
        BY <2>1, <3>1, NobodyMoves
    <2> QED
      BY <2>2, <2>3
  <1> QED
    BY <1>1, <1>2, <1>3, <1>4, <1>5

\* So does what a logged call leads to.
LEMMA SettleKeeps ==
  ASSUME GatewayInv, NEW w \in Workers, Settle(w)
  PROVE  GatewayInv'
  <1> USE GatewayAssumption DEF GatewayAssumption, GatewayInv, visitVars, tryVars,
                limitVars, breakerVars
  <1>1. pc[w] = "logging" /\ at[w] \in Provider
    BY DEF Settle, Succeed, Deny, LoseQuota, Fail, PlaceType
  <1>2. at[w] + 1 \in 1 .. Providers + 1
    BY <1>1 DEF Provider
  <1>3. CASE Succeed(w)
    <2>1. counted' \in Nat
      BY <1>3 DEF Succeed, Logged, WorkerType
    <2>2. WorkerType' /\ PlaceType' /\ LimitType'
      BY <1>3, <2>1 DEF Succeed, EndVisit, WorkerType, PlaceType, LimitType
    <2>3. Inside' = Inside /\ free' = free
      BY <1>3 DEF Succeed, EndVisit, Inside, WorkerType
    <2> QED
      BY <2>2, <2>3, NobodyMoves
  <1>4. CASE Deny(w)
    <2>1. WorkerType' /\ PlaceType' /\ LimitType'
      BY <1>4 DEF Deny, EndVisit, WorkerType, PlaceType, LimitType
    <2>2. Inside' = Inside /\ free' = free
      BY <1>4 DEF Deny, EndVisit, Inside, WorkerType
    <2> QED
      BY <2>1, <2>2, NobodyMoves
  <1>5. ASSUME Descend(w, at[w] + 1), UNCHANGED <<entries, stop, counted>> PROVE
               /\ WorkerType' /\ PlaceType' /\ Inside' = Inside
    <2>1. /\ PlaceType'
          /\ pc' \in
               [Workers -> {"idle", "ready", "slot", "token", "calling", "logging", "sleeping"}]
          /\ left' \in [Workers -> 0 .. VisitCost]
          /\ attempt' \in [Workers -> 0 .. MaxRetries]
          /\ outcome' \in [Workers -> Outcome \cup {"none"}]
          /\ pc'[w] \notin {"token", "calling"}
          /\ \A v \in Workers \ {w} : pc'[v] = pc[v]
      BY <1>2, <1>5, DescendTypes
    <2>2. WorkerType'
      BY <1>5, <2>1 DEF WorkerType
    <2>3. Inside' = Inside
      BY <1>1, <2>1 DEF Inside
    <2> QED
      BY <2>1, <2>2, <2>3
  <1>6. CASE LoseQuota(w)
    <2>1. LimitType'
      BY <1>1, <1>6 DEF LoseQuota, Open, LimitType
    <2>2. WorkerType' /\ PlaceType' /\ Inside' = Inside
      BY <1>5, <1>6 DEF LoseQuota
    <2>3. free' = free
      BY <1>6 DEF LoseQuota
    <2> QED
      BY <2>1, <2>2, <2>3, NobodyMoves
  <1>7. CASE Fail(w)
    <2>1. LimitType'
      <3>1. free' = free /\ tokens' = tokens
        BY <1>7 DEF Fail
      <3>2. CASE RecordFailure(at[w])
        BY <1>1, <3>1, <3>2, FailureTypes DEF LimitType
      <3>3. CASE UNCHANGED breakerVars
        BY <3>1, <3>3 DEF LimitType
      <3> QED
        BY <1>7, <3>2, <3>3 DEF Fail
    <2>2. WorkerType' /\ PlaceType' /\ Inside' = Inside
      <3>1. CASE MayRetry(w) /\ Sleep(w)
        <4>1. WorkerType'
          BY <1>7, <3>1 DEF Fail, Sleep, MayRetry, WorkerType
        <4>2. PlaceType'
          BY <1>1, <1>7, <3>1 DEF Fail, Sleep, PlaceType, WorkerType
        <4>3. Inside' = Inside
          BY <1>1, <3>1 DEF Sleep, Inside, WorkerType
        <4> QED
          BY <4>1, <4>2, <4>3
      <3>2. CASE Descend(w, at[w] + 1)
        BY <1>5, <1>7, <3>2 DEF Fail
      <3> QED
        BY <1>7, <3>1, <3>2 DEF Fail
    <2>3. free' = free
      BY <1>7 DEF Fail
    <2> QED
      BY <2>1, <2>2, <2>3, NobodyMoves
  <1> QED
    BY <1>3, <1>4, <1>6, <1>7 DEF Settle

\* So does every step.
LEMMA GatewayNext == GatewayInv /\ [Next]_vars => GatewayInv'
  <1> SUFFICES ASSUME GatewayInv, [Next]_vars PROVE GatewayInv'
    OBVIOUS
  <1> USE DEF visitVars, tryVars, limitVars, breakerVars
  <1>1. CASE Refill \/ (\E p \in Provider : CoolDown(p)) \/ UNCHANGED vars
    <2>1. WorkerType' /\ PlaceType'
      BY <1>1 DEF Refill, CoolDown, vars, GatewayInv, WorkerType, PlaceType
    <2>2. LimitType'
      BY <1>1, GatewayAssumption
      DEF GatewayAssumption, Refill, CoolDown, vars, GatewayInv, LimitType
    <2>3. Inside' = Inside /\ free' = free
      BY <1>1 DEF Refill, CoolDown, vars, Inside
    <2> QED
      BY <2>1, <2>2, <2>3, NobodyMoves DEF GatewayInv
  <1> QED
    BY <1>1, VisitKeeps, LimiterKeeps, SettleKeeps DEF Next, Step

\* The types of the gateway's state: retries and fetches stay within their bounds.
THEOREM GatewayTypeCorrect == Spec => []TypeOK
  <1> QED
    BY GatewayInit, GatewayNext, InvTypes, PTL DEF Spec

\* No slot leaks and none is released twice, for any number of workers and slots.
THEOREM NoSlotLeaks == Spec => []SlotsAccounted
  <1>1. GatewayInv => SlotsAccounted
    BY DEF GatewayInv
  <1> QED
    BY <1>1, GatewayInit, GatewayNext, PTL DEF Spec

-------------------------------------------------------------------------------
\* A breaker that has counted FailMax failures is open or half open: every step keeps it so.
LEMMA BreakerNext == TypeOK /\ PlaceType /\ BreakerCoherent /\ [Next]_vars => BreakerCoherent'
  <1> SUFFICES ASSUME TypeOK, PlaceType, BreakerCoherent, [Next]_vars PROVE BreakerCoherent'
    OBVIOUS
  <1> USE GatewayAssumption DEF GatewayAssumption, TypeOK, BreakerCoherent, visitVars, tryVars,
                                limitVars, breakerVars
  <1>1. ASSUME UNCHANGED <<failures, circuit>> PROVE BreakerCoherent'
    BY <1>1
  <1>2. ASSUME NEW w \in Workers,
               \/ Begin(w) \/ StopSlice(w) \/ Fetch(w) \/ AcquireSlot(w) \/ AcquireToken(w)
               \/ RespondMalformed(w) \/ Succeed(w) \/ Deny(w) \/ Wake(w) \/ Cancel(w)
        PROVE  BreakerCoherent'
    BY <1>1, <1>2 DEF Begin, StopSlice, Fetch, AcquireSlot, AcquireToken, RespondMalformed,
                      Succeed, Deny, Wake, Cancel
  <1>3. ASSUME NEW w \in Workers, NEW result \in Outcome, Respond(w, result)
        PROVE  BreakerCoherent'
    BY <1>3 DEF Respond, RecordSuccess
  <1>4. ASSUME NEW w \in Workers, LoseQuota(w) PROVE BreakerCoherent'
    BY <1>4 DEF LoseQuota, Open
  <1>5. ASSUME NEW w \in Workers, Fail(w) PROVE BreakerCoherent'
    <2>1. CASE RecordFailure(at[w])
      BY <2>1 DEF RecordFailure, Open
    <2>2. CASE UNCHANGED breakerVars
      BY <1>1, <2>2
    <2> QED
      BY <1>5, <2>1, <2>2 DEF Fail
  <1>6. CASE Refill \/ (\E p \in Provider : CoolDown(p)) \/ UNCHANGED vars
    BY <1>6 DEF Refill, CoolDown, vars
  <1> QED
    BY <1>2, <1>3, <1>4, <1>5, <1>6 DEF Next, Step, Settle

\* A closed circuit is one that has not failed too often.
THEOREM ClosedCircuitsAreTrusted == Spec => []BreakerCoherent
  <1>1. Init => BreakerCoherent
    BY GatewayAssumption DEF GatewayAssumption, Init, BreakerCoherent
  <1>2. GatewayInv => TypeOK /\ PlaceType
    BY InvTypes DEF GatewayInv
  <1> QED
    BY <1>1, <1>2, GatewayInit, GatewayNext, BreakerNext, PTL DEF Spec

-------------------------------------------------------------------------------
(* The request budget.  Sums over the workers are counted as sets of pairs.     *)

\* The fetches that all visits together may make, and those that are left of them.
AllFetches == Workers \X (1 .. VisitCost)
Due == {f \in AllFetches : f[2] <= left[f[1]]}

\* A worker on a visit has a fetch left, and no more are counted or due than the budget and a
\* visit of each worker.
BudgetInv ==
  /\ \A w \in Workers : pc[w] # "idle" => left[w] > 0
  /\ counted + Cardinality(Due) < Budget + Cardinality(Workers) * VisitCost

\* A set of pairs of a worker and a number is no larger than the product.
LEMMA PairsBound ==
  ASSUME NEW n \in Nat, NEW S \in SUBSET (Workers \X (1 .. n))
  PROVE  /\ IsFiniteSet(S) /\ Cardinality(S) \in Nat
         /\ Cardinality(Workers) * n \in Nat
         /\ Cardinality(S) <= Cardinality(Workers) * n
  <1>1. IsFiniteSet(1 .. n) /\ Cardinality(1 .. n) = n
    BY FS_Interval
  <1>2. IsFiniteSet(Workers) /\ Cardinality(Workers) \in Nat
    BY FS_CardinalityType, GatewayAssumption DEF GatewayAssumption
  <1>3. /\ IsFiniteSet(Workers \X (1 .. n))
        /\ Cardinality(Workers \X (1 .. n)) = Cardinality(Workers) * n
    BY <1>1, <1>2, FS_Product
  <1>4. Cardinality(Workers) * n \in Nat
    BY <1>2
  <1> QED
    BY <1>3, <1>4, FS_Subset, FS_CardinalityType

\* Taking an element away.
LEMMA PairTaken ==
  ASSUME NEW n \in Nat, NEW S \in SUBSET (Workers \X (1 .. n)), NEW f \in S,
         NEW T \in SUBSET (S \ {f})
  PROVE  Cardinality(T) + 1 <= Cardinality(S)
  <1>1. IsFiniteSet(S) /\ Cardinality(S) \in Nat
    BY PairsBound
  <1>2. IsFiniteSet(S \ {f}) /\ Cardinality(S \ {f}) = Cardinality(S) - 1
    BY <1>1, FS_RemoveElement
  <1>3. Cardinality(T) <= Cardinality(S \ {f}) /\ IsFiniteSet(T)
    BY <1>2, FS_Subset
  <1> QED
    BY <1>1, <1>2, <1>3, FS_CardinalityType

\* Every fetch that is counted was due; a visit begins below the budget.
LEMMA BudgetNext == TypeOK /\ BudgetInv /\ [Next]_vars => BudgetInv'
  <1> SUFFICES ASSUME TypeOK, BudgetInv, [Next]_vars PROVE BudgetInv'
    OBVIOUS
  <1> USE DEF visitVars, tryVars, limitVars, breakerVars
  <1>0. /\ VisitCost \in Nat /\ Budget \in Nat /\ counted \in Nat
        /\ pc \in [Workers -> {"idle", "ready", "slot", "token", "calling", "logging", "sleeping"}]
        /\ left \in [Workers -> 0 .. VisitCost]
    BY GatewayAssumption DEF GatewayAssumption, TypeOK
  <1>b. /\ Due \in SUBSET AllFetches /\ Due' \in SUBSET AllFetches
        /\ IsFiniteSet(Due) /\ Cardinality(Due) \in Nat /\ Cardinality(Due') \in Nat
        /\ Cardinality(Due') <= Cardinality(Workers) * VisitCost
        /\ Cardinality(Workers) * VisitCost \in Nat
    <2>1. Due \in SUBSET AllFetches /\ Due' \in SUBSET AllFetches
      BY DEF Due, AllFetches
    <2> QED
      BY <1>0, <2>1, PairsBound DEF AllFetches
  <1>1. ASSUME \A w \in Workers : left'[w] \in 0 .. left[w], counted' = counted,
               \A w \in Workers : pc'[w] # "idle" => left'[w] > 0
        PROVE  BudgetInv'
    <2>1. Due' \in SUBSET Due
      BY <1>0, <1>1 DEF Due, AllFetches
    <2>2. Cardinality(Due') <= Cardinality(Due)
      BY <1>b, <2>1, FS_Subset
    <2> QED
      BY <1>0, <1>1, <1>b, <2>2 DEF BudgetInv
  <1>2. ASSUME NEW w \in Workers, Begin(w) PROVE BudgetInv'
    <2>1. counted < Budget /\ counted' = counted
      BY <1>0, <1>2 DEF Begin, BudgetExhausted
    <2>2. \A v \in Workers : pc'[v] # "idle" => left'[v] > 0
      BY <1>0, <1>2, GatewayAssumption DEF Begin, BudgetInv, GatewayAssumption
    <2> QED
      BY <1>0, <1>b, <2>1, <2>2 DEF BudgetInv
  <1>3. ASSUME NEW w \in Workers, Succeed(w) PROVE BudgetInv'
    <2>1. /\ pc[w] # "idle" /\ left[w] \in 1 .. VisitCost
          /\ counted' \in {counted, counted + 1}
      BY <1>0, <1>3 DEF Succeed, Logged, BudgetInv
    <2>2. left'[w] < left[w] /\ \A v \in Workers \ {w} : left'[v] = left[v]
      BY <1>0, <1>3, <2>1 DEF Succeed, EndVisit
    <2>3. \A v \in Workers : pc'[v] # "idle" => left'[v] > 0
      BY <1>0, <1>3, <2>1 DEF Succeed, EndVisit, BudgetInv
    <2>4. <<w, left[w]>> \in Due
      BY <1>0, <2>1 DEF Due, AllFetches
    <2>5. Due' \in SUBSET (Due \ {<<w, left[w]>>})
      <3>1. \A f \in Due' : f \in AllFetches /\ f[2] <= left'[f[1]] /\ f[1] \in Workers /\ f[2] \in 1 .. VisitCost
        BY DEF Due, AllFetches
      <3>2. left' \in [Workers -> 0 .. VisitCost]
        BY <1>0, <1>3, <2>1 DEF Succeed, EndVisit
      <3>3. \A f \in Due' : f[2] <= left[f[1]] /\ (f[1] = w => f[2] < left[w])
        BY <1>0, <2>1, <2>2, <3>1, <3>2
      <3> QED
        BY <3>1, <3>3 DEF Due
    <2>6. Cardinality(Due') + 1 <= Cardinality(Due)
      BY <1>0, <1>b, <2>4, <2>5, PairTaken DEF AllFetches
    <2> QED
      BY <1>0, <1>b, <2>1, <2>3, <2>6 DEF BudgetInv
  <1>4. ASSUME NEW w \in Workers, NEW i, Descend(w, i), counted' = counted, pc[w] # "idle"
        PROVE  BudgetInv'
    BY <1>0, <1>1, <1>4 DEF Descend, EndVisit, BudgetInv
  <1>5. ASSUME NEW w \in Workers, Fetch(w) \/ LoseQuota(w) PROVE BudgetInv'
    BY <1>4, <1>5 DEF Fetch, LoseQuota
  <1>6. ASSUME NEW w \in Workers, Fail(w) PROVE BudgetInv'
    <2>1. CASE Sleep(w)
      BY <1>0, <1>1, <1>6, <2>1 DEF Fail, Sleep, BudgetInv
    <2>2. CASE Descend(w, at[w] + 1)
      BY <1>4, <1>6, <2>2 DEF Fail
    <2> QED
      BY <1>6, <2>1, <2>2 DEF Fail
  <1>7. ASSUME NEW w \in Workers, RespondMalformed(w) \/ Deny(w) \/ Cancel(w) PROVE BudgetInv'
    BY <1>0, <1>1, <1>7 DEF RespondMalformed, Deny, Cancel, EndVisit, BudgetInv
  <1>8. ASSUME NEW w \in Workers,
               \/ StopSlice(w) \/ AcquireSlot(w) \/ AcquireToken(w) \/ Wake(w)
               \/ \E result \in Outcome : Respond(w, result)
        PROVE  BudgetInv'
    BY <1>0, <1>1, <1>8 DEF StopSlice, AcquireSlot, AcquireToken, Wake, Respond, BudgetInv
  <1>9. CASE Refill \/ (\E p \in Provider : CoolDown(p)) \/ UNCHANGED vars
    BY <1>0, <1>1, <1>9 DEF Refill, CoolDown, vars, BudgetInv
  <1> QED
    BY <1>2, <1>3, <1>5, <1>6, <1>7, <1>8, <1>9 DEF Next, Step, Settle

\* The request budget is a check made before a visit and spent by it, by all workers at once: it
\* is overdrawn by less than a visit of each, for any number of workers and any budget.
THEOREM BudgetIsBounded == Spec => []BudgetBound
  <1>1. Init => BudgetInv
    <2> SUFFICES ASSUME Init PROVE BudgetInv
      OBVIOUS
    <2>1. Due = {}
      BY DEF Due, AllFetches, Init
    <2>2. Cardinality(Workers) * VisitCost \in Nat /\ Budget \in Nat \ {0}
      BY PairsBound, GatewayAssumption DEF GatewayAssumption
    <2> QED
      BY <2>1, <2>2, FS_EmptySet DEF BudgetInv, Init
  <1>2. TypeOK /\ BudgetInv => BudgetBound
    <2> SUFFICES ASSUME TypeOK, BudgetInv PROVE BudgetBound
      OBVIOUS
    <2>1. Cardinality(Due) \in Nat /\ Cardinality(Workers) * VisitCost \in Nat
      BY PairsBound, GatewayAssumption DEF Due, AllFetches, GatewayAssumption
    <2> QED
      BY <2>1, GatewayAssumption DEF BudgetInv, BudgetBound, TypeOK, GatewayAssumption
  <1> QED
    BY <1>1, <1>2, BudgetNext, GatewayTypeCorrect, PTL DEF Spec

-------------------------------------------------------------------------------
(* An open circuit.                                                             *)

\* The calls a worker may yet begin at the provider it is trying.
Tries == Workers \X (1 .. MaxRetries + 1)
Last(w) == IF pc[w] \in {"calling", "logging"} THEN MaxRetries ELSE MaxRetries + 1
Trying(w, p) == at[w] = p /\ pc[w] \in {"slot", "token", "calling", "logging", "sleeping"}
Owed(p) == {f \in Tries : Trying(f[1], p) /\ attempt[f[1]] + f[2] <= Last(f[1])}

\* The calls begun since a circuit opened and those still owed to it are no more than all that
\* the workers could have been owed when it did.
SpareInv ==
  \A p \in Provider :
    /\ circuit[p] = "open" => calls[p] + Cardinality(Owed(p)) <= Cardinality(Workers) * (MaxRetries + 1)
    /\ circuit[p] # "open" => calls[p] = 0

\* What is owed to a provider is bounded at all times.
LEMMA OwedBound ==
  ASSUME NEW S \in SUBSET Tries
  PROVE  /\ IsFiniteSet(S) /\ Cardinality(S) \in Nat
         /\ Cardinality(Workers) * (MaxRetries + 1) \in Nat
         /\ Cardinality(S) <= Cardinality(Workers) * (MaxRetries + 1)
  BY PairsBound, GatewayAssumption DEF Tries, GatewayAssumption

\* While a circuit stays open, it is owed no more than before.
LEMMA OwedShrinks ==
  ASSUME TypeOK, TypeOK', NEW p \in Provider, NEW w \in Workers,
         \A v \in Workers \ {w} : pc'[v] = pc[v] /\ at'[v] = at[v] /\ attempt'[v] = attempt[v],
         \/ ~Trying(w, p)'
         \/ Trying(w, p) /\ Last(w)' - attempt'[w] <= Last(w) - attempt[w]
  PROVE  Owed(p)' \in SUBSET Owed(p)
  <1>1. /\ MaxRetries \in Nat
        /\ attempt \in [Workers -> 0 .. MaxRetries] /\ attempt' \in [Workers -> 0 .. MaxRetries]
    BY GatewayAssumption DEF GatewayAssumption, TypeOK
  <1>2. Last(w) \in Nat /\ Last(w)' \in Nat
    BY <1>1 DEF Last
  <1>3. SUFFICES ASSUME NEW f \in Tries, Trying(f[1], p)', attempt'[f[1]] + f[2] <= Last(f[1])'
                 PROVE  Trying(f[1], p) /\ attempt[f[1]] + f[2] <= Last(f[1])
    BY DEF Owed
  <1>4. f[1] \in Workers /\ f[2] \in Nat
    BY <1>1 DEF Tries
  <1>5. CASE f[1] = w
    <2>1. Trying(w, p)' /\ attempt'[w] + f[2] <= Last(w)'
      BY <1>3, <1>5 DEF Trying, Last
    <2> QED
      BY <1>1, <1>2, <1>4, <1>5, <2>1
  <1>6. CASE f[1] # w
    BY <1>3, <1>4, <1>6 DEF Trying, Last
  <1> QED
    BY <1>5, <1>6

\* The step of a worker keeps the account of one provider, if it neither sends the worker to an
\* open circuit nor begins a call there, and counts calls anew when the circuit opens.
LEMMA SpareKept ==
  ASSUME TypeOK, TypeOK', SpareInv, NEW p \in Provider,
         circuit'[p] = "open" /\ circuit[p] = "open" => calls'[p] = calls[p] /\ Owed(p)' \in SUBSET Owed(p),
         circuit'[p] = "open" /\ circuit[p] # "open" => calls'[p] = 0,
         circuit'[p] # "open" => calls'[p] = 0
  PROVE  /\ circuit'[p] = "open" =>
               calls'[p] + Cardinality(Owed(p)') <= Cardinality(Workers) * (MaxRetries + 1)
         /\ circuit'[p] # "open" => calls'[p] = 0
  <1>1. Owed(p) \in SUBSET Tries /\ Owed(p)' \in SUBSET Tries /\ calls[p] \in Nat
    BY DEF Owed, Tries, TypeOK
  <1>2. /\ IsFiniteSet(Owed(p)) /\ Cardinality(Owed(p)) \in Nat /\ Cardinality(Owed(p)') \in Nat
        /\ Cardinality(Workers) * (MaxRetries + 1) \in Nat
        /\ Cardinality(Owed(p)') <= Cardinality(Workers) * (MaxRetries + 1)
    BY <1>1, OwedBound
  <1>3. Owed(p)' \in SUBSET Owed(p) => Cardinality(Owed(p)') <= Cardinality(Owed(p))
    BY <1>2, FS_Subset
  <1> QED
    BY <1>1, <1>2, <1>3 DEF SpareInv


\* A worker going down the waterfall is sent to a provider whose circuit is not open.
LEMMA DescendSpares ==
  ASSUME TypeOK, TypeOK', NEW w \in Workers, NEW i \in 1 .. Providers + 1, Descend(w, i),
         NEW p \in Provider, circuit[p] = "open"
  PROVE  Owed(p)' \in SUBSET Owed(p)
  <1>1. CASE EndVisit(w)
    <2>1. \A v \in Workers \ {w} : pc'[v] = pc[v] /\ at'[v] = at[v] /\ attempt'[v] = attempt[v]
      BY <1>1 DEF EndVisit, TypeOK
    <2>2. pc'[w] = "idle"
      BY <1>1 DEF EndVisit, TypeOK
    <2>3. ~Trying(w, p)'
      BY <2>2 DEF Trying
    <2> QED
      BY <2>1, <2>3, OwedShrinks
  <1>2. ASSUME NEW q \in i .. Providers, Allow(q),
               at' = [at EXCEPT ![w] = q], attempt' = [attempt EXCEPT ![w] = 0],
               pc' = [pc EXCEPT ![w] = "slot"]
        PROVE  Owed(p)' \in SUBSET Owed(p)
    <2>1. \A v \in Workers \ {w} : pc'[v] = pc[v] /\ at'[v] = at[v] /\ attempt'[v] = attempt[v]
      BY <1>2 DEF TypeOK
    <2>2. q # p
      BY <1>2 DEF Allow
    <2>3. at'[w] = q
      BY <1>2 DEF TypeOK
    <2>4. ~Trying(w, p)'
      BY <2>2, <2>3 DEF Trying
    <2> QED
      BY <2>1, <2>4, OwedShrinks
  <1> QED
    BY <1>1, <1>2 DEF Descend

\* A failure on record opens the circuit or leaves its calls alone.
LEMMA FailureSpares ==
  ASSUME TypeOK, NEW q \in Provider, RecordFailure(q) \/ Open(q) \/ UNCHANGED <<circuit, calls>>,
         NEW p \in Provider, SpareInv
  PROVE  /\ circuit'[p] = "open" /\ circuit[p] = "open" => calls'[p] = calls[p]
         /\ circuit'[p] = "open" /\ circuit[p] # "open" => calls'[p] = 0
         /\ circuit'[p] # "open" => calls'[p] = 0
         /\ circuit[p] = "open" => circuit'[p] = "open"
  <1>1. CASE Open(q)
    BY <1>1 DEF Open, TypeOK, SpareInv
  <1>2. CASE UNCHANGED <<circuit, calls>>
    BY <1>2 DEF SpareInv
  <1> QED
    BY <1>1, <1>2 DEF RecordFailure

\* Every step keeps the account of the open circuits.
LEMMA SpareNext == TypeOK /\ TypeOK' /\ PlaceType /\ SpareInv /\ [Next]_vars => SpareInv'
  <1> SUFFICES ASSUME TypeOK, TypeOK', PlaceType, SpareInv, [Next]_vars, NEW p \in Provider
               PROVE  /\ circuit'[p] = "open" =>
                           calls'[p] + Cardinality(Owed(p)') <= Cardinality(Workers) * (MaxRetries + 1)
                      /\ circuit'[p] # "open" => calls'[p] = 0
    BY DEF SpareInv, Owed, Trying, Last
  <1> DEFINE Kept == /\ circuit'[p] = "open" =>
                           calls'[p] + Cardinality(Owed(p)') <= Cardinality(Workers) * (MaxRetries + 1)
                     /\ circuit'[p] # "open" => calls'[p] = 0
  <1> USE DEF visitVars, tryVars, limitVars, breakerVars
  <1>0. /\ pc \in [Workers -> {"idle", "ready", "slot", "token", "calling", "logging", "sleeping"}]
        /\ at \in [Workers -> 0 .. Providers] /\ attempt \in [Workers -> 0 .. MaxRetries]
        /\ MaxRetries \in Nat /\ Providers \in Nat
        /\ \A q \in Provider : q \in 1 .. Providers
        /\ circuit \in [Provider -> {"closed", "open", "half_open"}] /\ calls \in [Provider -> Nat]
    BY GatewayAssumption DEF GatewayAssumption, TypeOK, Provider
  <1>1. ASSUME Owed(p)' \in SUBSET Owed(p), UNCHANGED <<circuit, calls>> PROVE Kept
    BY <1>1, SpareKept DEF SpareInv
  \* Workers that are not trying the provider, and steps that move no worker along it.
  <1>2. ASSUME NEW w \in Workers, UNCHANGED <<circuit, calls>>,
               \A v \in Workers \ {w} : pc'[v] = pc[v] /\ at'[v] = at[v] /\ attempt'[v] = attempt[v],
               pc'[w] \in {"idle", "ready"}
        PROVE  Kept
    <2>1. ~Trying(w, p)'
      BY <1>2 DEF Trying
    <2> QED
      BY <1>1, <1>2, <2>1, OwedShrinks
  <1>3. ASSUME NEW w \in Workers,
               \/ Begin(w) \/ RespondMalformed(w) \/ Succeed(w) \/ Deny(w) \/ Cancel(w)
        PROVE  Kept
    <2>1. /\ \A v \in Workers \ {w} : pc'[v] = pc[v] /\ at'[v] = at[v] /\ attempt'[v] = attempt[v]
          /\ pc'[w] \in {"idle", "ready"} /\ UNCHANGED <<circuit, calls>>
      <3>1. CASE EndVisit(w) /\ UNCHANGED <<circuit, calls>>
        BY <1>0, <3>1 DEF EndVisit
      <3>2. CASE Begin(w)
        BY <1>0, <3>2 DEF Begin
      <3>3. CASE Succeed(w)
        BY <1>0, <3>3 DEF Succeed, EndVisit
      <3> QED
        BY <1>3, <3>1, <3>2, <3>3 DEF RespondMalformed, Deny, Cancel
    <2> QED
      BY <1>2, <2>1
  <1>4. ASSUME NEW w \in Workers, StopSlice(w) \/ AcquireSlot(w) \/ Wake(w) PROVE Kept
    <2>1. /\ \A v \in Workers \ {w} : pc'[v] = pc[v] /\ at'[v] = at[v] /\ attempt'[v] = attempt[v]
          /\ UNCHANGED <<circuit, calls, at, attempt>>
      BY <1>0, <1>4 DEF StopSlice, AcquireSlot, Wake
    <2>2. Trying(w, p)' => Trying(w, p)
      BY <1>0, <1>4 DEF StopSlice, AcquireSlot, Wake, Trying
    <2>3. Trying(w, p)' => Last(w)' = Last(w)
      BY <1>0, <1>4 DEF StopSlice, AcquireSlot, Wake, Trying, Last
    <2>4. Last(w) \in Nat
      BY <1>0 DEF Last
    <2> QED
      BY <1>0, <1>1, <2>1, <2>2, <2>3, <2>4, OwedShrinks
  <1>5. ASSUME NEW w \in Workers, AcquireToken(w) PROVE Kept
    <2>1. /\ \A v \in Workers \ {w} : pc'[v] = pc[v] /\ at'[v] = at[v] /\ attempt'[v] = attempt[v]
          /\ UNCHANGED <<circuit, at, attempt>> /\ pc[w] = "token" /\ pc'[w] = "calling"
          /\ calls' = [calls EXCEPT ![at[w]] = IF circuit[at[w]] = "open" THEN @ + 1 ELSE @]
      BY <1>0, <1>5 DEF AcquireToken
    <2>2. Last(w) = MaxRetries + 1 /\ Last(w)' = MaxRetries
      BY <2>1 DEF Last
    <2>3. Trying(w, p)' => Trying(w, p)
      BY <2>1 DEF Trying
    <2>4. Owed(p)' \in SUBSET Owed(p)
      BY <1>0, <2>1, <2>2, <2>3, OwedShrinks
    <2>5. CASE at[w] # p \/ circuit[p] # "open"
      <3>1. calls'[p] = calls[p]
        BY <1>0, <2>1, <2>5
      <3> QED
        BY <2>1, <2>4, <3>1, SpareKept DEF SpareInv
    <2>6. CASE at[w] = p /\ circuit[p] = "open"
      <3> DEFINE f == <<w, MaxRetries + 1 - attempt[w]>>
      <3>1. f \in Tries /\ f[1] = w /\ f[2] = MaxRetries + 1 - attempt[w]
        BY <1>0 DEF Tries
      <3>2. f \in Owed(p)
        BY <1>0, <2>1, <2>2, <2>6, <3>1 DEF Owed, Trying
      <3>3. f \notin Owed(p)'
        <4>1. \A g \in Owed(p)' : g[1] = w => attempt'[w] + g[2] <= MaxRetries
          BY <2>1 DEF Owed, Last
        <4>2. attempt'[w] + f[2] = MaxRetries + 1
          BY <1>0, <2>1, <3>1
        <4> QED
          BY <1>0, <3>1, <4>1, <4>2
      <3> HIDE DEF f
      <3>4. Owed(p)' \in SUBSET (Owed(p) \ {f})
        BY <2>4, <3>3
      <3>5. Owed(p) \in SUBSET (Workers \X (1 .. MaxRetries + 1)) /\ MaxRetries + 1 \in Nat
        BY <1>0 DEF Owed, Tries
      <3>6. Cardinality(Owed(p)') + 1 <= Cardinality(Owed(p))
        BY <3>2, <3>4, <3>5, PairTaken
      <3>7. Cardinality(Owed(p)) \in Nat /\ Cardinality(Owed(p)') \in Nat
        BY <3>5, <3>4, PairsBound
      <3>8. Cardinality(Workers) * (MaxRetries + 1) \in Nat
        BY <3>5, PairsBound
      <3>9. calls'[p] = calls[p] + 1 /\ circuit'[p] = "open"
        BY <1>0, <2>1, <2>6
      <3> QED
        BY <1>0, <2>6, <3>6, <3>7, <3>8, <3>9 DEF SpareInv
    <2> QED
      BY <2>5, <2>6
  <1>6. ASSUME NEW w \in Workers, NEW result \in Outcome, Respond(w, result) PROVE Kept
    <2>1. /\ \A v \in Workers \ {w} : pc'[v] = pc[v] /\ at'[v] = at[v] /\ attempt'[v] = attempt[v]
          /\ UNCHANGED <<at, attempt>> /\ pc[w] = "calling" /\ pc'[w] = "logging" /\ at[w] \in Provider
      BY <1>0, <1>6 DEF Respond, PlaceType
    <2>2. Last(w) = MaxRetries /\ Last(w)' = MaxRetries
      BY <2>1 DEF Last
    <2>3. Trying(w, p)' => Trying(w, p)
      BY <2>1 DEF Trying
    <2>4. Owed(p)' \in SUBSET Owed(p)
      BY <1>0, <2>1, <2>2, <2>3, OwedShrinks
    <2>5. CASE RecordSuccess(at[w])
      <3>1. CASE at[w] = p
        <4>1. circuit'[p] = "closed" /\ calls'[p] = 0
          BY <1>0, <2>1, <2>5, <3>1 DEF RecordSuccess
        <4> QED
          BY <4>1
      <3>2. CASE at[w] # p
        <4>1. circuit'[p] = circuit[p] /\ calls'[p] = calls[p]
          BY <1>0, <2>5, <3>2 DEF RecordSuccess
        <4> QED
          BY <2>4, <4>1, SpareKept DEF SpareInv
      <3> QED
        BY <3>1, <3>2
    <2>6. CASE UNCHANGED <<circuit, calls>>
      BY <1>1, <2>4, <2>6
    <2> QED
      BY <1>6, <2>5, <2>6 DEF Respond
  <1>7. ASSUME NEW w \in Workers, Fetch(w) PROVE Kept
    <2>1. Descend(w, 1) /\ UNCHANGED <<circuit, calls>> /\ 1 \in 1 .. Providers + 1
      BY <1>0, <1>7 DEF Fetch
    <2> QED
      BY <2>1, DescendSpares, SpareKept DEF SpareInv
  <1>8. ASSUME NEW w \in Workers, LoseQuota(w) \/ Fail(w) PROVE Kept
    <2>1. at[w] \in Provider /\ at[w] + 1 \in 1 .. Providers + 1 /\ pc[w] = "logging"
      BY <1>0, <1>8 DEF LoseQuota, Fail, PlaceType
    <2>2. RecordFailure(at[w]) \/ Open(at[w]) \/ UNCHANGED <<circuit, calls>>
      BY <1>8 DEF LoseQuota, Fail
    <2>3. circuit[p] = "open" => Owed(p)' \in SUBSET Owed(p)
      <3>1. CASE Descend(w, at[w] + 1)
        BY <2>1, <3>1, DescendSpares
      <3>2. CASE MayRetry(w) /\ Sleep(w)
        <4>1. /\ \A v \in Workers \ {w} : pc'[v] = pc[v] /\ at'[v] = at[v] /\ attempt'[v] = attempt[v]
              /\ at' = at /\ pc'[w] = "sleeping" /\ attempt'[w] = attempt[w] + 1
          BY <1>0, <3>2 DEF Sleep
        <4>2. Last(w) = MaxRetries /\ Last(w)' = MaxRetries + 1
          BY <2>1, <4>1 DEF Last
        <4>3. Trying(w, p)' => Trying(w, p)
          BY <2>1, <4>1 DEF Trying
        <4>4. Last(w)' - attempt'[w] <= Last(w) - attempt[w]
          BY <1>0, <4>1, <4>2
        <4> QED
          BY <4>1, <4>3, <4>4, OwedShrinks
      <3> QED
        BY <1>8, <3>1, <3>2 DEF LoseQuota, Fail
    <2>4. /\ circuit'[p] = "open" /\ circuit[p] = "open" => calls'[p] = calls[p]
          /\ circuit'[p] = "open" /\ circuit[p] # "open" => calls'[p] = 0
          /\ circuit'[p] # "open" => calls'[p] = 0
      BY <2>1, <2>2, FailureSpares
    <2> QED
      BY <2>3, <2>4, SpareKept
  <1>9. ASSUME NEW q \in Provider, CoolDown(q) PROVE Kept
    <2>1. Owed(p)' = Owed(p)
      BY <1>9 DEF CoolDown, Owed, Trying, Last
    <2>2. CASE q = p
      BY <1>0, <1>9, <2>2 DEF CoolDown
    <2>3. CASE q # p
      <3>1. circuit'[p] = circuit[p] /\ calls'[p] = calls[p]
        BY <1>0, <1>9, <2>3 DEF CoolDown
      <3> QED
        BY <2>1, <3>1, SpareKept DEF SpareInv
    <2> QED
      BY <2>2, <2>3
  <1>10. CASE Refill \/ UNCHANGED vars
    <2>1. Owed(p)' = Owed(p) /\ UNCHANGED <<circuit, calls>>
      BY <1>10 DEF Refill, vars, Owed, Trying, Last
    <2> QED
      BY <1>1, <2>1
  <1>11. ASSUME NEW w \in Workers, Step(w) PROVE Kept
    <2> HIDE DEF Kept
    <2>1. CASE Settle(w)
      BY <1>3, <1>8, <2>1 DEF Settle
    <2>2. CASE \E result \in Outcome : Respond(w, result)
      BY <1>6, <2>2
    <2>3. CASE Fetch(w) \/ AcquireSlot(w) \/ AcquireToken(w) \/ RespondMalformed(w) \/ Wake(w)
      BY <1>3, <1>4, <1>5, <1>7, <2>3
    <2> QED
      BY <1>11, <2>1, <2>2, <2>3 DEF Step
  <1>12. ASSUME \E w \in Workers : Begin(w) \/ StopSlice(w) \/ Step(w) \/ Cancel(w) PROVE Kept
    <2> HIDE DEF Kept
    <2> QED
      BY <1>3, <1>4, <1>11, <1>12
  <1>13. ASSUME \E q \in Provider : CoolDown(q) PROVE Kept
    <2> HIDE DEF Kept
    <2> QED
      BY <1>9, <1>13
  <1>14. CASE Refill \/ UNCHANGED vars
    BY <1>10, <1>14
  <1> QED
    BY <1>12, <1>13, <1>14 DEF Next

\* An open circuit is spared: the retries do not ask the breaker again, but no more calls than the
\* workers had left when it opened, an attempt under way and its retries each, are begun there
\* until it cools down, for any number of workers, providers and retries.
THEOREM OpenCircuitIsSpared == Spec => []OpenCircuitSpared
  <1>1. Init => SpareInv
    BY GatewayAssumption DEF Init, SpareInv, GatewayAssumption
  <1>2. TypeOK /\ SpareInv => OpenCircuitSpared
    <2> SUFFICES ASSUME TypeOK, SpareInv, NEW p \in Provider
                 PROVE  calls[p] <= Cardinality(Workers) * (MaxRetries + 1)
      BY DEF OpenCircuitSpared
    <2>1. Cardinality(Owed(p)) \in Nat /\ Cardinality(Workers) * (MaxRetries + 1) \in Nat
      BY OwedBound DEF Owed
    <2> QED
      BY <2>1 DEF SpareInv, TypeOK
  <1>3. GatewayInv => PlaceType
    BY DEF GatewayInv
  <1> QED
    BY <1>1, <1>2, <1>3, SpareNext, GatewayInit, GatewayNext, InvTypes, PTL DEF Spec

================================================================================
