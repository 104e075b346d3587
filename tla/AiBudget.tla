------------------------------ MODULE AiBudget ------------------------------
(***************************************************************************)
(* The budget ledger of crates/graphql-orm-ai: policies with a ceiling per *)
(* period, one counter per policy and period, reservations that hold an    *)
(* estimate on every applicable counter while a provider call is made, and *)
(* the usage entries that charge it.                                       *)
(*                                                                         *)
(* A reservation is closed by one of three parties, each in a transaction  *)
(* of its own: the worker whose lease it was made under (reconcile), the   *)
(* reconciler of a background response, and an operator who reclaims one   *)
(* that its run left behind.  Periods roll over and policies change while  *)
(* a reservation is held.  Of the six amounts of AiBudgetAmounts one is    *)
(* modelled: all six are treated alike.  A run is here what the ledger     *)
(* sees of it: AiRuns models its life.                                     *)
(***************************************************************************)
EXTENDS Integers, FiniteSets, Functions

CONSTANTS
    Policies,      \* AiBudgetPolicyRecord ids
    Renewed,       \* the policies of an interval that ends; others: lifetime
    AppliesTo,     \* AppliesTo[p]: the runs policy_applies holds for
    Ceilings,      \* maxima an administrator chooses from
    Runs,          \* AiRunRecord ids
    MaxKeys,       \* bound: reservations made
    MaxEstimate,   \* limits.maximum_per_call
    Consumed,      \* amounts a provider call may really consume
    MaxStored,     \* i64::MAX
    PeriodLength,  \* ticks of a period
    LeaseTtl,      \* ticks of a lease
    MinimumAge,    \* limits.minimum_expired_age
    MaxNow,        \* bound: the clock
    MaxGen,        \* bound: MaxGen[r] is the attempts of run r
    MaxLag,        \* bound: ticks between reading the clock and the lock
    None           \* Option::None

ASSUME BudgetBoundsAssumption ==
    /\ {MaxKeys, MaxEstimate, MaxStored, PeriodLength, LeaseTtl,
        MinimumAge, MaxNow, MaxLag} \subseteq Nat
    /\ MaxGen \in [Runs -> Nat]
    /\ PeriodLength > 0
    /\ Ceilings \subseteq 0..MaxStored
    /\ Consumed \subseteq Nat
    /\ Renewed \subseteq Policies
    /\ AppliesTo \in [Policies -> SUBSET Runs]

ASSUME BudgetNoneAssumption ==
    None \notin Nat /\ None \notin [ceiling : Nat, enabled : BOOLEAN]

Keys == 1..MaxKeys

VARIABLES
    now,      \* the clock
    run,      \* run[r]: state, lease generation and lease expiry
    policy,   \* policy[p]: the policy row, or None
    counter,  \* counter[<<p, period>>]: a missing row holds nothing
    resv,     \* resv[k]: the reservation with idempotency key k, or None
    usage,    \* the AiUsageEntryRecord rows: <<reservation, amount>>
    used      \* used[k]: what the provider consumed, None before the call

vars == <<now, run, policy, counter, resv, usage, used>>

-----------------------------------------------------------------------------
\* budget_period
Period(p, t) == IF p \in Renewed THEN t \div PeriodLength ELSE 0

Periods == {0} \cup {t \div PeriodLength : t \in 0..MaxNow}
Counters == Policies \X Periods

\* AiBudgetReservationRecord
Reservation ==
    [run : Runs, gen : Nat, estimate : 0..MaxEstimate,
     counters : SUBSET Counters, expires : Nat,
     state : {"reserved", "uncertain", "committed", "released"}]

ASSUME NoReservationIsNone == None \notin Reservation

\* UNRESOLVED_RESERVATION_STATES: the ones that still hold capacity.
Unresolved(k) == resv[k] # None /\ resv[k].state \in {"reserved", "uncertain"}

\* ensure_storable: a column is an i64.
Storable(n) == n \in 0..MaxStored

\* validate_run_fence and validate_reconciliation_fence, at clock reading t.
LeaseLive(r, gen, t) ==
    /\ run[r].state = "running"
    /\ run[r].gen = gen
    /\ run[r].expiry > t

Readings == {t \in (now - MaxLag)..now : t >= 0}

\* The next idempotency key.
NextKey(k) == resv[k] = None /\ \A j \in Keys : j < k => resv[j] # None

-----------------------------------------------------------------------------
Init ==
    /\ now = 0
    /\ run = [r \in Runs |-> [state |-> "queued", gen |-> 0, expiry |-> 0]]
    /\ policy = [p \in Policies |-> None]
    /\ counter = [c \in Counters |-> [reserved |-> 0, committed |-> 0]]
    /\ resv = [k \in Keys |-> None]
    /\ usage = {}
    /\ used = [k \in Keys |-> None]

\* ensure_budget_policy creates the deployment's row once ...
EnsureBudgetPolicy(p, ceiling) ==
    /\ policy[p] = None
    /\ policy' = [policy EXCEPT ![p] =
                    [ceiling |-> ceiling, enabled |-> TRUE]]
    /\ UNCHANGED <<now, run, counter, resv, usage, used>>

\* ... and upsert_budget_policy changes it under its expected version.
UpsertBudgetPolicy(p, ceiling, enabled) ==
    /\ policy[p] # None
    /\ policy' = [policy EXCEPT ![p] =
                    [ceiling |-> ceiling, enabled |-> enabled]]
    /\ UNCHANGED <<now, run, counter, resv, usage, used>>

-----------------------------------------------------------------------------
\* The enabled policies that apply to run r.
Applicable(r) ==
    {p \in Policies : /\ r \in AppliesTo[p]
                      /\ policy[p] # None
                      /\ policy[p].enabled}

\* checked_add and validate_policy_capacity for one counter.
HasCapacityForReserved(p, c, estimate) ==
    /\ Storable(counter[c].reserved + estimate)
    /\ counter[c].reserved + estimate <= policy[p].ceiling
HasCapacity(p, c, estimate) ==
    /\ Storable(counter[c].reserved + estimate)
    /\ Storable(counter[c].reserved + estimate + counter[c].committed)
    /\ counter[c].reserved + estimate + counter[c].committed
         <= policy[p].ceiling

\* reserve_once.  A replayed key returns the reservation it made, or is
\* refused: either way nothing changes.
Reserve(k, r, estimate, t) ==
    LET ps == Applicable(r)
        cs == {<<p, Period(p, t)>> : p \in ps}
    IN  /\ NextKey(k)
        /\ LeaseLive(r, run[r].gen, t)
        /\ ps # {}
        /\ \A p \in ps : HasCapacity(p, <<p, Period(p, t)>>, estimate)
        /\ counter' = [c \in Counters |->
              IF c \in cs THEN [counter[c] EXCEPT !.reserved = @ + estimate]
                          ELSE counter[c]]
        /\ resv' = [resv EXCEPT ![k] =
              [run |-> r, gen |-> run[r].gen, estimate |-> estimate,
               counters |-> cs, expires |-> run[r].expiry,
               state |-> "reserved"]]
        /\ UNCHANGED <<now, run, policy, usage, used>>

\* The worker calls the provider, which consumes n: a foreground call goes
\* out under a "reserved" reservation (dispatch_provider), a background one
\* under an "uncertain" one (submit).  The call waits for no fence: its run
\* may have been cancelled, its reservation reclaimed.
Dispatch(k, n) ==
    /\ resv[k] # None
    /\ resv[k].state # "released"
    /\ used[k] = None
    /\ used' = [used EXCEPT ![k] = n]
    /\ UNCHANGED <<now, run, policy, counter, resv, usage>>

\* The counters of reservation k once it holds nothing and n is charged.
\* They are the ones it was made on, whatever period and policy rule now.
SettledKeepingHold(k, n) ==
    [c \in Counters |->
       IF c \in resv[k].counters
       THEN [counter[c] EXCEPT !.committed = @ + n]
       ELSE counter[c]]
Settled(k, n) ==
    [c \in Counters |->
       IF c \in resv[k].counters
       THEN [reserved |-> counter[c].reserved - resv[k].estimate,
             committed |-> counter[c].committed + n]
       ELSE counter[c]]

CanSettle(k, n) ==
    \A c \in resv[k].counters :
        /\ counter[c].reserved >= resv[k].estimate
        /\ Storable(counter[c].committed + n)

\* What a commit writes; budget_reservation_id is unique among the entries.
CommittedSkippingZero(k, n) ==
    /\ Unresolved(k)
    /\ \A e \in usage : e[1] # k
    /\ CanSettle(k, n)
    /\ counter' = Settled(k, n)
    /\ usage' = IF n = 0 THEN usage ELSE usage \cup {<<k, n>>}
    /\ resv' = [resv EXCEPT ![k].state = "committed"]
Committed(k, n) ==
    /\ Unresolved(k)
    /\ \A e \in usage : e[1] # k
    /\ CanSettle(k, n)
    /\ counter' = Settled(k, n)
    /\ usage' = usage \cup {<<k, n>>}
    /\ resv' = [resv EXCEPT ![k].state = "committed"]

-----------------------------------------------------------------------------
\* reconcile_once, for the worker the reservation was made under.  Matching
\* what was reconciled before changes nothing (match_existing_reconciliation).
MarkUncertain(k, t) ==
    /\ Unresolved(k)
    /\ LeaseLive(resv[k].run, resv[k].gen, t)
    /\ resv[k].state = "reserved"
    /\ resv' = [resv EXCEPT ![k].state = "uncertain"]
    /\ UNCHANGED <<now, run, policy, counter, usage, used>>

ReleaseUnused(k, t) ==
    /\ Unresolved(k)
    /\ used[k] = None
    /\ resv[k].state = "reserved"
    /\ LeaseLive(resv[k].run, resv[k].gen, t)
    /\ CanSettle(k, 0)
    /\ counter' = Settled(k, 0)
    /\ resv' = [resv EXCEPT ![k].state = "released"]
    /\ UNCHANGED <<now, run, policy, usage, used>>

\* A "reserved" reservation may be committed as well as an "uncertain" one.
CommitUsage(k, t) ==
    /\ Unresolved(k)
    /\ used[k] # None
    /\ LeaseLive(resv[k].run, resv[k].gen, t)
    /\ Committed(k, used[k])
    /\ UNCHANGED <<now, run, policy, used>>

\* commit_once of a background response: the run waits, without a lease, and
\* is closed in the transaction that charges it.
CommitBackground(k) ==
    /\ Unresolved(k)
    /\ used[k] # None
    /\ resv[k].state = "uncertain"
    /\ run[resv[k].run].state = "waiting"
    /\ run[resv[k].run].gen = resv[k].gen
    /\ Committed(k, used[k])
    /\ run' = [run EXCEPT ![resv[k].run].state = "closed"]
    /\ UNCHANGED <<now, policy, used>>

\* reclaim_budget_reservation and commit_stranded_reservation.
ReclaimOfLiveRun(k, t) ==
    /\ Unresolved(k)
    /\ resv[k].expires <= t - MinimumAge
    /\ Committed(k, resv[k].estimate)
    /\ UNCHANGED <<now, run, policy, used>>
Reclaim(k, t) ==
    /\ Unresolved(k)
    /\ resv[k].expires <= t - MinimumAge
    /\ run[resv[k].run].state = "closed"
    /\ Committed(k, resv[k].estimate)
    /\ UNCHANGED <<now, run, policy, used>>

-----------------------------------------------------------------------------
\* The lives of the runs, as far as the ledger looks at them: claimed and
\* started, renewed, requeued, parked for a background response, closed.
StartRun(r) ==
    /\ run[r].state = "queued"
    /\ run[r].gen < MaxGen[r]
    /\ run' = [run EXCEPT ![r] = [state |-> "running", gen |-> @.gen + 1,
                                  expiry |-> now + LeaseTtl]]
    /\ UNCHANGED <<now, policy, counter, resv, usage, used>>

RenewRun(r) ==
    /\ LeaseLive(r, run[r].gen, now)
    /\ run[r].expiry # now + LeaseTtl
    /\ run' = [run EXCEPT ![r].expiry = now + LeaseTtl]
    /\ UNCHANGED <<now, policy, counter, resv, usage, used>>

RequeueRun(r) ==
    /\ run[r].state = "running"
    /\ run' = [run EXCEPT ![r].state = "queued", ![r].expiry = 0]
    /\ UNCHANGED <<now, policy, counter, resv, usage, used>>

AcceptBackground(k) ==
    /\ Unresolved(k)
    /\ resv[k].state = "uncertain"
    /\ used[k] # None
    /\ LeaseLive(resv[k].run, resv[k].gen, now)
    /\ run' = [run EXCEPT ![resv[k].run].state = "waiting",
                          ![resv[k].run].expiry = 0]
    /\ UNCHANGED <<now, policy, counter, resv, usage, used>>

CloseRun(r) ==
    /\ run[r].state # "closed"
    /\ run' = [run EXCEPT ![r].state = "closed", ![r].expiry = 0]
    /\ UNCHANGED <<now, policy, counter, resv, usage, used>>

Tick ==
    /\ now < MaxNow
    /\ now' = now + 1
    /\ UNCHANGED <<run, policy, counter, resv, usage, used>>

-----------------------------------------------------------------------------
Administrator ==
    \/ \E p \in Policies, n \in Ceilings : EnsureBudgetPolicy(p, n)
    \/ \E p \in Policies, n \in Ceilings, b \in BOOLEAN :
         UpsertBudgetPolicy(p, n, b)
    \/ \E k \in Keys, t \in Readings : Reclaim(k, t)

Worker ==
    \/ \E k \in Keys, r \in Runs, n \in 1..MaxEstimate, t \in Readings :
         Reserve(k, r, n, t)
    \/ \E k \in Keys, n \in Consumed : Dispatch(k, n)
    \/ \E k \in Keys, t \in Readings :
         MarkUncertain(k, t) \/ ReleaseUnused(k, t) \/ CommitUsage(k, t)
    \/ \E k \in Keys : AcceptBackground(k) \/ CommitBackground(k)
    \/ \E r \in Runs :
         StartRun(r) \/ RenewRun(r) \/ RequeueRun(r) \/ CloseRun(r)

Next == Administrator \/ Worker \/ Tick

Spec == Init /\ [][Next]_vars

-----------------------------------------------------------------------------
(* Rows have the types of persistence.rs, and no counter leaves the range  *)
(* its column stores.                                                      *)
TypeOK ==
    /\ now \in 0..MaxNow
    /\ run \in [Runs -> [state : {"queued", "running", "waiting", "closed"},
                         gen : Nat, expiry : Nat]]
    /\ policy \in [Policies -> [ceiling : Nat, enabled : BOOLEAN] \cup {None}]
    /\ counter \in [Counters -> [reserved : 0..MaxStored,
                                 committed : 0..MaxStored]]
    /\ resv \in [Keys -> Reservation \cup {None}]
    /\ usage \subseteq Keys \X Nat
    /\ used \in [Keys -> Nat \cup {None}]

On(c) == {k \in Keys : resv[k] # None /\ c \in resv[k].counters}
Held(c) == {k \in On(c) : Unresolved(k)}
Charged(c) == {e \in usage : e[1] \in On(c)}

(* Every counter agrees with the rows behind it: it holds the estimates of *)
(* its unresolved reservations and has charged their usage entries, no     *)
(* more and no less, however periods rolled over, policies changed and     *)
(* attempts were superseded in between; and what it holds fits its column, *)
(* although a call may consume more than was reserved for it.              *)
CountersBalance ==
    \A c \in Counters :
        /\ counter[c].reserved =
             SumFunction([k \in Held(c) |-> resv[k].estimate])
        /\ counter[c].committed =
             SumFunction([e \in Charged(c) |-> e[2]])
        /\ counter[c].reserved <= MaxStored
        /\ counter[c].committed <= MaxStored

(* A reservation is charged once, by whoever is first of its worker, the   *)
(* background reconciler and the operator, and only then is it committed.  *)
ChargedOnce ==
    /\ \A e, f \in usage : e[1] = f[1] => e = f
    /\ \A k \in Keys :
         (\E e \in usage : e[1] = k) <=>
             (resv[k] # None /\ resv[k].state = "committed")

Total(c) == counter[c].reserved + counter[c].committed
Overran(k) == \E e \in usage' \ usage : e[1] = k /\ e[2] > resv[k].estimate

(* Concurrent workers cannot spend past a ceiling: a step takes a counter  *)
(* further only within the ceiling its policy has then, unless it charges  *)
(* a call that consumed more than its own estimate.                        *)
CeilingRespected ==
    [][\A c \in Counters : Total(c)' > Total(c) =>
          \/ Total(c)' <= policy[c[1]].ceiling
          \/ \E k \in On(c) : Overran(k)]_vars

(* A reservation that was not charged what its call consumed belongs to a  *)
(* run that is over: an operator's reclamation never races a worker or a   *)
(* background reconciler that still could charge the real usage            *)
(* (orm_configuration.rs: "no worker can ever reconcile this reservation   *)
(* from its own transport knowledge").                                     *)
EstimatedOnlyWhenOver ==
    \A e \in usage :
        (used[e[1]] # None /\ e[2] # used[e[1]]) =>
            run[resv[e[1]].run].state = "closed"

=============================================================================
