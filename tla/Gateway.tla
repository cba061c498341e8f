------------------------------- MODULE Gateway --------------------------------
(***************************************************************************)
(* The scraping gateway under the workers of a crawl slice.  A worker asks *)
(* whether its scan's request budget is spent, then visits an entry, which *)
(* costs it several fetches.  A fetch goes down the waterfall of providers *)
(* past those whose circuit is open, waits for a concurrency slot and for  *)
(* a token of the rate limiter, calls the provider, and retries it.  The   *)
(* entry's time-out may cancel it at any of its awaits.                    *)
(*                                                                         *)
(* The workers share one event loop: what lies between two awaits is one   *)
(* step.  Clocks are abstracted to the events that they bring about: a     *)
(* token comes due, a backoff ends, an open circuit has cooled down.  No   *)
(* cache: the worker process builds its gateway without one.               *)
(***************************************************************************)
EXTENDS Naturals, FiniteSets

CONSTANTS
  Workers,     \* the workers of the slice (crawl_concurrency)
  Providers,   \* number of providers, which are 1 .. Providers by priority
  MaxSlots,    \* scraper_max_concurrency
  Capacity,    \* size of the token bucket
  MaxRetries,  \* scraper_max_retries
  FailMax,     \* breaker_fail_max
  Budget,      \* crawl_max_requests_per_scan
  VisitCost,   \* the most fetches one visit of an entry makes
  Entries      \* bound: visits there are to make

ASSUME GatewayAssumption ==
  /\ IsFiniteSet(Workers)
  /\ Providers \in Nat /\ MaxRetries \in Nat /\ Entries \in Nat
  /\ MaxSlots \in Nat \ {0} /\ Capacity \in Nat \ {0} /\ FailMax \in Nat \ {0}
  /\ Budget \in Nat \ {0} /\ VisitCost \in Nat \ {0}

Provider == 1 .. Providers

VARIABLES
  entries,   \* entries that are left to visit
  stop,      \* the slice found its budget spent
  pc,        \* where each worker is
  left,      \* fetches its visit may yet make
  at,        \* the provider it is trying
  attempt,   \* its retries there
  outcome,   \* what its call has come back with, while it is logged
  free,      \* slots of the semaphore
  tokens,    \* whole tokens in the bucket
  failures,  \* per provider: _failures of its breaker
  circuit,   \* per provider: the state of its breaker
  calls,     \* per provider: calls begun since its circuit opened (history)
  counted    \* successful fetches in provider_usage

visitVars == <<entries, stop, left>>
tryVars == <<at, attempt, outcome>>
limitVars == <<free, tokens>>
breakerVars == <<failures, circuit, calls>>
vars == <<visitVars, pc, tryVars, limitVars, breakerVars, counted>>

Outcome == {"ok", "auth", "quota", "limited", "error"}

Init ==
  /\ entries = Entries /\ stop = FALSE
  /\ pc = [w \in Workers |-> "idle"]
  /\ left = [w \in Workers |-> 0]
  /\ at = [w \in Workers |-> 0]
  /\ attempt = [w \in Workers |-> 0]
  /\ outcome = [w \in Workers |-> "none"]
  /\ free = MaxSlots /\ tokens = Capacity
  /\ failures = [p \in Provider |-> 0]
  /\ circuit = [p \in Provider |-> "closed"]
  /\ calls = [p \in Provider |-> 0]
  /\ counted = 0

-----------------------------------------------------------------------------
(* A visit.                                                                *)

\* Mutant: a worker stops only when the budget is overdrawn.
Overdrawn == counted > Budget

\* scan_budget_exhausted
BudgetExhausted == counted >= Budget

\* A worker reads the budget, then claims an entry and begins its visit.
Begin(w) ==
  /\ pc[w] = "idle" /\ ~stop /\ entries > 0
  /\ ~BudgetExhausted
  /\ entries' = entries - 1
  /\ left' = [left EXCEPT ![w] = VisitCost]
  /\ pc' = [pc EXCEPT ![w] = "ready"]
  /\ UNCHANGED <<stop, tryVars, limitVars, breakerVars, counted>>

\* Or finds the budget spent and ends the slice for all.
StopSlice(w) ==
  /\ pc[w] = "idle" /\ ~stop
  /\ BudgetExhausted
  /\ stop' = TRUE
  /\ UNCHANGED <<entries, left, pc, tryVars, limitVars, breakerVars, counted>>

\* The visit is over, with its fetches made or with an error.
EndVisit(w) ==
  /\ pc' = [pc EXCEPT ![w] = "idle"]
  /\ left' = [left EXCEPT ![w] = 0]
  /\ at' = [at EXCEPT ![w] = 0]
  /\ attempt' = [attempt EXCEPT ![w] = 0]
  /\ outcome' = [outcome EXCEPT ![w] = "none"]

-----------------------------------------------------------------------------
(* The circuit breakers.                                                   *)

\* Mutant: an open circuit is not passed over.
AllowAll(p) == TRUE

\* allow(): a half-open circuit lets everybody through.
Allow(p) == circuit[p] # "open"

\* open(), whatever the state was.
Open(p) ==
  /\ circuit' = [circuit EXCEPT ![p] = "open"]
  /\ calls' = [calls EXCEPT ![p] = IF circuit[p] = "open" THEN @ ELSE 0]

\* record_failure(): what failures there are beyond FailMax makes no difference.
RecordFailure(p) ==
  /\ failures' = [failures EXCEPT ![p] = IF @ < FailMax THEN @ + 1 ELSE @]
  /\ IF failures'[p] = FailMax THEN Open(p) ELSE UNCHANGED <<circuit, calls>>

\* record_success(): also from a call that was under way when the circuit opened.
RecordSuccess(p) ==
  /\ failures' = [failures EXCEPT ![p] = 0]
  /\ circuit' = [circuit EXCEPT ![p] = "closed"]
  /\ calls' = [calls EXCEPT ![p] = 0]

\* reset_timeout has passed since the circuit opened.
CoolDown(p) ==
  /\ circuit[p] = "open"
  /\ circuit' = [circuit EXCEPT ![p] = "half_open"]
  /\ calls' = [calls EXCEPT ![p] = 0]
  /\ UNCHANGED <<visitVars, pc, tryVars, limitVars, failures, counted>>

-----------------------------------------------------------------------------
(* A fetch.                                                                *)

\* The loop of fetch() over the providers from i on, up to the first that may be tried.
Descend(w, i) ==
  \/ \E p \in i .. Providers :
       /\ Allow(p) /\ \A q \in i .. p - 1 : ~Allow(q)
       /\ at' = [at EXCEPT ![w] = p]
       /\ attempt' = [attempt EXCEPT ![w] = 0]
       /\ outcome' = [outcome EXCEPT ![w] = "none"]
       /\ pc' = [pc EXCEPT ![w] = "slot"]
       /\ UNCHANGED left
  \/ /\ \A p \in i .. Providers : ~Allow(p)
     /\ EndVisit(w)

Fetch(w) ==
  /\ pc[w] = "ready"
  /\ Descend(w, 1)
  /\ UNCHANGED <<entries, stop, limitVars, breakerVars, counted>>

\* slot(): the semaphore, then the token.
AcquireSlot(w) ==
  /\ pc[w] = "slot" /\ free > 0
  /\ free' = free - 1
  /\ pc' = [pc EXCEPT ![w] = "token"]
  /\ UNCHANGED <<visitVars, tryVars, tokens, breakerVars, counted>>

\* _acquire_token, and the call of the provider begins.
AcquireToken(w) ==
  /\ pc[w] = "token" /\ tokens > 0
  /\ tokens' = tokens - 1
  /\ pc' = [pc EXCEPT ![w] = "calling"]
  /\ calls' = [calls EXCEPT ![at[w]] = IF circuit[at[w]] = "open" THEN @ + 1 ELSE @]
  /\ UNCHANGED <<visitVars, tryVars, free, failures, circuit, counted>>

\* A token comes due.
Refill ==
  /\ tokens < Capacity
  /\ tokens' = tokens + 1
  /\ UNCHANGED <<visitVars, pc, tryVars, free, breakerVars, counted>>

\* The call comes back, which frees the slot.  A success is reported to the breaker at once, a
\* failure after it is logged.
Respond(w, result) ==
  /\ pc[w] = "calling"
  /\ free' = free + 1
  /\ outcome' = [outcome EXCEPT ![w] = result]
  /\ pc' = [pc EXCEPT ![w] = "logging"]
  /\ IF result = "ok" THEN RecordSuccess(at[w]) ELSE UNCHANGED breakerVars
  /\ UNCHANGED <<visitVars, at, attempt, tokens, counted>>

\* A body that is no JSON raises an error the waterfall does not know: it ends the visit.
RespondMalformed(w) ==
  /\ pc[w] = "calling"
  /\ free' = free + 1
  /\ EndVisit(w)
  /\ UNCHANGED <<entries, stop, tokens, breakerVars, counted>>

\* _log: a row of provider_usage, or an exception that is swallowed.
Logged(row) == counted' = IF row THEN counted + 1 ELSE counted

\* The visit goes on to its next fetch if it has one, or ends.
Succeed(w) ==
  /\ pc[w] = "logging" /\ outcome[w] = "ok"
  /\ \E row \in BOOLEAN : Logged(row)
  /\ \/ EndVisit(w)
     \/ /\ left[w] > 1
        /\ left' = [left EXCEPT ![w] = @ - 1]
        /\ pc' = [pc EXCEPT ![w] = "ready"]
        /\ outcome' = [outcome EXCEPT ![w] = "none"]
        /\ UNCHANGED <<at, attempt>>
  /\ UNCHANGED <<entries, stop, limitVars, breakerVars>>

\* AuthError: no other provider is tried.
Deny(w) ==
  /\ pc[w] = "logging" /\ outcome[w] = "auth"
  /\ EndVisit(w)
  /\ UNCHANGED <<entries, stop, limitVars, breakerVars, counted>>

\* QuotaExhausted: this circuit opens, the next provider is tried.
LoseQuota(w) ==
  /\ pc[w] = "logging" /\ outcome[w] = "quota"
  /\ Open(at[w])
  /\ Descend(w, at[w] + 1)
  /\ UNCHANGED <<entries, stop, limitVars, failures, counted>>

Sleep(w) ==
  /\ attempt' = [attempt EXCEPT ![w] = @ + 1]
  /\ outcome' = [outcome EXCEPT ![w] = "none"]
  /\ pc' = [pc EXCEPT ![w] = "sleeping"]
  /\ UNCHANGED <<at, left>>

MayRetry(w) == attempt[w] < MaxRetries

\* RateLimited counts as a failure only when the retries are used up, ProviderError every time.
\* The breaker is not asked again before a retry.
Fail(w) ==
  /\ pc[w] = "logging" /\ outcome[w] \in {"limited", "error"}
  /\ IF MayRetry(w) THEN Sleep(w) ELSE Descend(w, at[w] + 1)
  /\ IF MayRetry(w) /\ outcome[w] = "limited"
     THEN UNCHANGED breakerVars
     ELSE RecordFailure(at[w])
  /\ UNCHANGED <<entries, stop, limitVars, counted>>

\* The backoff ends.
Wake(w) ==
  /\ pc[w] = "sleeping"
  /\ pc' = [pc EXCEPT ![w] = "slot"]
  /\ UNCHANGED <<visitVars, tryVars, limitVars, breakerVars, counted>>

\* Mutant: only a call under way gives its slot back.
HoldsLate(w) == pc[w] = "calling"

\* Workers inside the limiter's slot.
Holds(w) == pc[w] \in {"token", "calling"}

\* The entry's time-out: whatever it is awaiting is cancelled, and a slot released on the way out.
Cancel(w) ==
  /\ pc[w] # "idle"
  /\ free' = IF Holds(w) THEN free + 1 ELSE free
  /\ EndVisit(w)
  /\ UNCHANGED <<entries, stop, tokens, breakerVars, counted>>

Settle(w) == Succeed(w) \/ Deny(w) \/ LoseQuota(w) \/ Fail(w)

\* What a worker does without being cancelled, once its visit has begun.
Step(w) ==
  \/ Fetch(w) \/ AcquireSlot(w) \/ AcquireToken(w)
  \/ \E result \in Outcome : Respond(w, result)
  \/ RespondMalformed(w) \/ Settle(w) \/ Wake(w)

Next ==
  \/ \E w \in Workers : Begin(w) \/ StopSlice(w) \/ Step(w) \/ Cancel(w)
  \/ \E p \in Provider : CoolDown(p)
  \/ Refill

Spec == Init /\ [][Next]_vars

-----------------------------------------------------------------------------
(* Properties.                                                             *)

\* The types, with every attempt within the retries and every fetch within the visit's cost.
TypeOK ==
  /\ entries \in 0 .. Entries /\ stop \in BOOLEAN
  /\ pc \in [Workers -> {"idle", "ready", "slot", "token", "calling", "logging", "sleeping"}]
  /\ left \in [Workers -> 0 .. VisitCost]
  /\ at \in [Workers -> 0 .. Providers]
  /\ attempt \in [Workers -> 0 .. MaxRetries]
  /\ outcome \in [Workers -> Outcome \cup {"none"}]
  /\ free \in 0 .. MaxSlots /\ tokens \in 0 .. Capacity
  /\ failures \in [Provider -> 0 .. FailMax]
  /\ circuit \in [Provider -> {"closed", "open", "half_open"}]
  /\ calls \in [Provider -> Nat]
  /\ counted \in Nat

\* No slot leaks and none is released twice, whatever is cancelled where: the semaphore and the
\* workers inside always make up its size.
SlotsAccounted == free + Cardinality({w \in Workers : pc[w] \in {"token", "calling"}}) = MaxSlots

\* A closed circuit is one that has not failed too often: neither a success, a retry nor the
\* cool-down leaves a provider trusted with its failures on record.
BreakerCoherent == \A p \in Provider : circuit[p] = "closed" => failures[p] < FailMax

\* While a circuit is open its provider is called only by those who were trying it when it
\* opened, each as often as its retries allow.
OpenCircuitSpared ==
  \A p \in Provider : calls[p] <= Cardinality(Workers) * (MaxRetries + 1)

\* The request budget may be overdrawn by no more than a visit of each worker.
BudgetBound == counted < Budget + Cardinality(Workers) * VisitCost
================================================================================
