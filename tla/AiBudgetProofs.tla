--------------------------- MODULE AiBudgetProofs ---------------------------
(***************************************************************************)
(* The safety of the budget ledger for every set of policies, runs and     *)
(* bounds.  ChargedOnce and EstimatedOnlyWhenOver are not inductive alone: *)
(* a call may go out after an operator has reclaimed its reservation, so   *)
(* one must know that a charged reservation whose call is still to come    *)
(* belongs to a run that is over (LateCallIsOver).  CountersBalance is     *)
(* about sums over sets: the second half of the module shows, by induction *)
(* over finite sets, what adding and removing one member does to a sum,    *)
(* and then that each operation moves a counter by just that.              *)
(***************************************************************************)
EXTENDS AiBudget, FiniteSetTheorems, WellFoundedInduction, TLAPS

LateCallIsOver ==
    \A e \in usage :
        used[e[1]] = None => run[resv[e[1]].run].state = "closed"

Inv == TypeOK /\ ChargedOnce /\ EstimatedOnlyWhenOver /\ LateCallIsOver

RunRow == [state : {"queued", "running", "waiting", "closed"},
           gen : Nat, expiry : Nat]

\* No row exists at the start.
LEMMA Initial == Init => Inv
<1> SUFFICES ASSUME Init PROVE Inv
  OBVIOUS
<1>1. TypeOK
  BY BudgetBoundsAssumption DEF Init, TypeOK, RunRow
<1>2. ChargedOnce /\ EstimatedOnlyWhenOver /\ LateCallIsOver
  BY DEF Init, ChargedOnce, EstimatedOnlyWhenOver, LateCallIsOver
<1> QED
  BY <1>1, <1>2 DEF Inv

-----------------------------------------------------------------------------
\* What a key that holds something says about the rows.
LEMMA UnresolvedRow ==
    ASSUME TypeOK, NEW k \in Keys, Unresolved(k)
    PROVE  /\ resv[k] \in Reservation
           /\ resv[k].run \in Runs
           /\ resv[k].estimate \in Nat
           /\ resv[k].counters \subseteq Counters
<1>1. resv[k] \in Reservation
  BY DEF TypeOK, Unresolved
<1> QED
  BY <1>1, BudgetBoundsAssumption DEF Reservation

\* Settling keeps every counter in the range of its column.
LEMMA SettledTyped ==
    ASSUME TypeOK, NEW k \in Keys, NEW n \in Nat, Unresolved(k),
           CanSettle(k, n)
    PROVE  Settled(k, n) \in [Counters -> [reserved : 0..MaxStored,
                                           committed : 0..MaxStored]]
<1> SUFFICES ASSUME NEW c \in Counters
             PROVE  Settled(k, n)[c] \in [reserved : 0..MaxStored,
                                          committed : 0..MaxStored]
  BY DEF Settled
<1>1. /\ counter[c] \in [reserved : 0..MaxStored, committed : 0..MaxStored]
      /\ MaxStored \in Nat
      /\ resv[k].estimate \in Nat
  BY UnresolvedRow, BudgetBoundsAssumption DEF TypeOK
<1>2. CASE c \in resv[k].counters
  <2>1. /\ counter[c].reserved - resv[k].estimate \in 0..MaxStored
        /\ counter[c].committed + n \in 0..MaxStored
    BY <1>1, <1>2 DEF CanSettle, Storable
  <2> QED
    BY <1>2, <2>1 DEF Settled
<1>3. CASE c \notin resv[k].counters
  BY <1>1, <1>3 DEF Settled
<1> QED
  BY <1>2, <1>3

\* Whoever charges a reservation: its consumption, or a run that is over.
LEMMA CommitStep ==
    ASSUME Inv, NEW k \in Keys, NEW n \in Nat, Committed(k, n),
           used[k] = n \/ run[resv[k].run].state = "closed",
           \/ run' = run
           \/ run' = [run EXCEPT ![resv[k].run].state = "closed"],
           UNCHANGED <<now, policy, used>>
    PROVE  Inv'
<1> USE DEF Inv
<1>0. /\ resv[k] \in Reservation
      /\ resv[k].run \in Runs
      /\ Unresolved(k)
  BY UnresolvedRow DEF Committed
<1>1. /\ resv' = [resv EXCEPT ![k].state = "committed"]
      /\ resv' \in [Keys -> Reservation \cup {None}]
      /\ resv'[k].state = "committed"
      /\ resv'[k] # None
      /\ resv'[k].run = resv[k].run
      /\ \A j \in Keys \ {k} : resv'[j] = resv[j]
  <2>1. resv' = [resv EXCEPT ![k].state = "committed"]
    BY DEF Committed
  <2>2. /\ resv'[k] = [resv[k] EXCEPT !.state = "committed"]
        /\ resv'[k] \in Reservation
        /\ resv'[k].state = "committed"
        /\ resv'[k].run = resv[k].run
    BY <1>0, <2>1 DEF TypeOK, Reservation
  <2>3. resv'[k] # None
    BY <1>0, <2>2, NoReservationIsNone
  <2> QED
    BY <2>1, <2>2, <2>3 DEF TypeOK
<1>2. /\ run' \in [Runs -> RunRow]
      /\ \A r \in Runs : run[r].state = "closed" => run'[r].state = "closed"
  BY <1>0 DEF TypeOK, RunRow
<1>3. usage' = usage \cup {<<k, n>>} /\ \A e \in usage : e[1] # k
  BY DEF Committed
<1>4. TypeOK'
  <2>1. counter' \in [Counters -> [reserved : 0..MaxStored,
                                   committed : 0..MaxStored]]
    BY <1>0, SettledTyped DEF Committed
  <2>2. usage' \subseteq Keys \X Nat
    BY <1>3 DEF TypeOK
  <2> QED
    BY <1>1, <1>2, <2>1, <2>2 DEF TypeOK, RunRow
<1>5. ChargedOnce'
  <2>1. \A e, f \in usage' : e[1] = f[1] => e = f
    BY <1>3 DEF ChargedOnce
  <2>2. ASSUME NEW j \in Keys
        PROVE  (\E e \in usage' : e[1] = j) <=>
                 (resv'[j] # None /\ resv'[j].state = "committed")
    <3>1. CASE j = k
      <4>1. <<k, n>> \in usage' /\ <<k, n>>[1] = k
        BY <1>3
      <4> QED
        BY <3>1, <4>1, <1>1
    <3>2. CASE j # k
      BY <3>2, <1>1, <1>3 DEF ChargedOnce
    <3> QED
      BY <3>1, <3>2
  <2> QED
    BY <2>1, <2>2 DEF ChargedOnce
<1>6. ASSUME NEW e \in usage'
      PROVE  /\ used[e[1]] # None /\ e[2] # used[e[1]] =>
                  run'[resv'[e[1]].run].state = "closed"
             /\ used[e[1]] = None => run'[resv'[e[1]].run].state = "closed"
  <2>1. CASE e = <<k, n>>
    <3>1. e[1] = k /\ e[2] = n
      BY <2>1
    <3>2. used[k] = n => used[k] # None
      BY BudgetNoneAssumption
    <3> QED
      BY <3>1, <3>2, <1>0, <1>1, <1>2
  <2>2. CASE e \in usage
    <3>1. e[1] \in Keys \ {k}
      BY <2>2, <1>3 DEF TypeOK
    <3>2. resv[e[1]].run \in Runs
      <4>1. resv[e[1]] # None
        BY <2>2, <3>1 DEF ChargedOnce
      <4> QED
        BY <3>1, <4>1 DEF TypeOK, Reservation
    <3> QED
      BY <2>2, <3>1, <3>2, <1>1, <1>2
         DEF EstimatedOnlyWhenOver, LateCallIsOver
  <2> QED
    BY <2>1, <2>2, <1>3
<1> QED
  BY <1>4, <1>5, <1>6 DEF EstimatedOnlyWhenOver, LateCallIsOver

\* A run goes its way, and once closed stays closed.
LEMMA RunStep ==
    ASSUME Inv, NEW r \in Runs, NEW row \in RunRow,
           run' = [run EXCEPT ![r] = row],
           run[r].state = "closed" => row.state = "closed",
           UNCHANGED <<now, policy, counter, resv, usage, used>>
    PROVE  Inv'
<1> USE DEF Inv
<1>1. /\ run' \in [Runs -> RunRow]
      /\ \A q \in Runs : run[q].state = "closed" => run'[q].state = "closed"
  BY DEF TypeOK, RunRow
<1>2. TypeOK' /\ ChargedOnce'
  BY <1>1 DEF TypeOK, ChargedOnce, RunRow
<1>3. ASSUME NEW e \in usage PROVE resv[e[1]].run \in Runs
  <2>1. e[1] \in Keys /\ resv[e[1]] # None
    BY DEF ChargedOnce, TypeOK
  <2> QED
    BY <2>1 DEF TypeOK, Reservation
<1>4. EstimatedOnlyWhenOver' /\ LateCallIsOver'
  BY <1>1, <1>3 DEF EstimatedOnlyWhenOver, LateCallIsOver
<1> QED
  BY <1>2, <1>4

\* A reservation changes without being charged.
LEMMA ResvStep ==
    ASSUME Inv, NEW k \in Keys, NEW v \in Reservation,
           resv' = [resv EXCEPT ![k] = v], v.state # "committed",
           resv[k] = None \/ Unresolved(k),
           counter' \in [Counters -> [reserved : 0..MaxStored,
                                      committed : 0..MaxStored]],
           UNCHANGED <<now, run, policy, usage, used>>
    PROVE  Inv'
<1> USE DEF Inv
<1>1. TypeOK'
  BY DEF TypeOK
<1>2. \A e \in usage : e[1] \in Keys /\ e[1] # k
  BY DEF TypeOK, ChargedOnce, Unresolved
<1>3. ChargedOnce'
  BY <1>2 DEF ChargedOnce, TypeOK
<1>4. EstimatedOnlyWhenOver' /\ LateCallIsOver'
  BY <1>2 DEF EstimatedOnlyWhenOver, LateCallIsOver, TypeOK
<1> QED
  BY <1>1, <1>3, <1>4

-----------------------------------------------------------------------------
LEMMA AdministratorStep == ASSUME Inv, Administrator PROVE Inv'
<1> USE DEF Inv
<1>1. ASSUME NEW p \in Policies, NEW n \in Ceilings, EnsureBudgetPolicy(p, n)
      PROVE  Inv'
  <2>1. n \in Nat
    BY BudgetBoundsAssumption
  <2>2. TypeOK'
    BY <1>1, <2>1 DEF EnsureBudgetPolicy, TypeOK
  <2> QED
    BY <1>1, <2>2 DEF EnsureBudgetPolicy, ChargedOnce,
                      EstimatedOnlyWhenOver, LateCallIsOver
<1>2. ASSUME NEW p \in Policies, NEW n \in Ceilings, NEW b \in BOOLEAN,
             UpsertBudgetPolicy(p, n, b)
      PROVE  Inv'
  <2>1. n \in Nat
    BY BudgetBoundsAssumption
  <2>2. TypeOK'
    BY <1>2, <2>1 DEF UpsertBudgetPolicy, TypeOK
  <2> QED
    BY <1>2, <2>2 DEF UpsertBudgetPolicy, ChargedOnce,
                      EstimatedOnlyWhenOver, LateCallIsOver
<1>3. ASSUME NEW k \in Keys, NEW t \in Readings, Reclaim(k, t)
      PROVE  Inv'
  <2>1. resv[k].estimate \in Nat
    BY <1>3, UnresolvedRow DEF Reclaim
  <2> QED
    BY <1>3, <2>1, CommitStep DEF Reclaim
<1> QED
  BY <1>1, <1>2, <1>3 DEF Administrator

\* The row a reservation makes.
LEMMA ReservedRow ==
    ASSUME TypeOK, NEW r \in Runs, NEW n \in 1..MaxEstimate, NEW t \in Readings
    PROVE  [run |-> r, gen |-> run[r].gen, estimate |-> n,
            counters |-> {<<p, Period(p, t)>> : p \in Applicable(r)},
            expires |-> run[r].expiry, state |-> "reserved"] \in Reservation
<1> DEFINE cs == {<<p, Period(p, t)>> : p \in Applicable(r)}
<1>1. cs \subseteq Counters
  <2>1. t \in 0..MaxNow
    BY BudgetBoundsAssumption DEF Readings, TypeOK
  <2>2. \A p : Period(p, t) \in Periods
    BY <2>1 DEF Period, Periods
  <2> QED
    BY <2>2 DEF Counters, Applicable
<1> HIDE DEF cs
<1>2. [run |-> r, gen |-> run[r].gen, estimate |-> n, counters |-> cs,
       expires |-> run[r].expiry, state |-> "reserved"] \in Reservation
  BY <1>1, BudgetBoundsAssumption DEF Reservation, TypeOK
<1> QED
  BY <1>2 DEF cs

LEMMA ReserveStep ==
    ASSUME Inv, NEW k \in Keys, NEW r \in Runs, NEW n \in 1..MaxEstimate,
           NEW t \in Readings, Reserve(k, r, n, t)
    PROVE  Inv'
<1> USE DEF Inv
<1> DEFINE cs == {<<p, Period(p, t)>> : p \in Applicable(r)}
           v == [run |-> r, gen |-> run[r].gen, estimate |-> n,
                 counters |-> cs, expires |-> run[r].expiry,
                 state |-> "reserved"]
<1>2. v \in Reservation
  BY ReservedRow
<1>3. counter' \in [Counters -> [reserved : 0..MaxStored,
                                 committed : 0..MaxStored]]
  <2>1. counter' = [c \in Counters |->
            IF c \in cs THEN [counter[c] EXCEPT !.reserved = @ + n]
                        ELSE counter[c]]
    BY DEF Reserve
  <2>2. ASSUME NEW c \in cs PROVE Storable(counter[c].reserved + n)
    BY <2>2 DEF Reserve, HasCapacity
  <2> QED
    BY <2>1, <2>2 DEF TypeOK, Storable
<1>4. /\ resv' = [resv EXCEPT ![k] = v]
      /\ resv[k] = None
      /\ UNCHANGED <<now, run, policy, usage, used>>
  BY DEF Reserve, NextKey
<1>5. v.state # "committed"
  OBVIOUS
<1> HIDE DEF v
<1> QED
  BY <1>2, <1>3, <1>4, <1>5, ResvStep

LEMMA DispatchStep ==
    ASSUME Inv, NEW k \in Keys, NEW n \in Consumed, Dispatch(k, n)
    PROVE  Inv'
<1> USE DEF Inv
<1>1. n \in Nat /\ n # None
  BY BudgetBoundsAssumption, BudgetNoneAssumption
<1>2. TypeOK'
  BY <1>1 DEF Dispatch, TypeOK
<1>3. ChargedOnce'
  BY DEF Dispatch, ChargedOnce
<1>4. ASSUME NEW e \in usage
      PROVE  /\ used'[e[1]] = None => used[e[1]] = None
             /\ used'[e[1]] # used[e[1]] => used[e[1]] = None
  BY <1>1 DEF Dispatch, TypeOK
<1>5. EstimatedOnlyWhenOver' /\ LateCallIsOver'
  BY <1>4 DEF Dispatch, EstimatedOnlyWhenOver, LateCallIsOver
<1> QED
  BY <1>2, <1>3, <1>5

LEMMA ReconcileStep ==
    ASSUME Inv, NEW k \in Keys, NEW t \in Readings,
           MarkUncertain(k, t) \/ ReleaseUnused(k, t) \/ CommitUsage(k, t)
    PROVE  Inv'
<1> USE DEF Inv
<1>0. Unresolved(k) /\ resv[k] \in Reservation
  BY UnresolvedRow DEF MarkUncertain, ReleaseUnused, CommitUsage
<1>1. CASE MarkUncertain(k, t)
  <2> DEFINE v == [resv[k] EXCEPT !.state = "uncertain"]
  <2>1. resv' = [resv EXCEPT ![k] = v] /\ v \in Reservation
        /\ v.state # "committed"
    BY <1>0, <1>1 DEF MarkUncertain, Reservation, TypeOK
  <2> HIDE DEF v
  <2> QED
    BY <1>0, <1>1, <2>1, ResvStep DEF MarkUncertain, TypeOK
<1>2. CASE ReleaseUnused(k, t)
  <2> DEFINE v == [resv[k] EXCEPT !.state = "released"]
  <2>1. resv' = [resv EXCEPT ![k] = v] /\ v \in Reservation
        /\ v.state # "committed"
    BY <1>0, <1>2 DEF ReleaseUnused, Reservation, TypeOK
  <2>2. counter' \in [Counters -> [reserved : 0..MaxStored,
                                   committed : 0..MaxStored]]
    BY <1>0, <1>2, SettledTyped DEF ReleaseUnused
  <2> HIDE DEF v
  <2> QED
    BY <1>0, <1>2, <2>1, <2>2, ResvStep DEF ReleaseUnused
<1>3. CASE CommitUsage(k, t)
  <2>1. used[k] \in Nat
    BY <1>3 DEF CommitUsage, TypeOK
  <2> QED
    BY <1>3, <2>1, CommitStep DEF CommitUsage
<1> QED
  BY <1>1, <1>2, <1>3

LEMMA RunsStep ==
    ASSUME Inv,
           \/ \E k \in Keys : AcceptBackground(k) \/ CommitBackground(k)
           \/ \E r \in Runs :
                StartRun(r) \/ RenewRun(r) \/ RequeueRun(r) \/ CloseRun(r)
    PROVE  Inv'
<1> USE DEF Inv
<1>0. /\ \A r \in Runs : run[r] \in RunRow
      /\ now + LeaseTtl \in Nat
  BY BudgetBoundsAssumption DEF TypeOK, RunRow
<1>1. ASSUME NEW k \in Keys, AcceptBackground(k) PROVE Inv'
  <2> DEFINE r == resv[k].run
             row == [run[r] EXCEPT !.state = "waiting", !.expiry = 0]
  <2>1. r \in Runs
    BY <1>1, UnresolvedRow DEF AcceptBackground
  <2>2. /\ run' = [run EXCEPT ![r] = row]
        /\ row \in RunRow
        /\ run[r].state = "running"
    BY <1>0, <1>1, <2>1 DEF AcceptBackground, TypeOK, LeaseLive, RunRow
  <2> HIDE DEF r, row
  <2> QED
    BY <1>1, <2>1, <2>2, RunStep DEF AcceptBackground
<1>2. ASSUME NEW k \in Keys, CommitBackground(k) PROVE Inv'
  <2>1. used[k] \in Nat
    BY <1>2 DEF CommitBackground, TypeOK
  <2> QED
    BY <1>2, <2>1, CommitStep DEF CommitBackground
<1>3. ASSUME NEW r \in Runs,
             StartRun(r) \/ RenewRun(r) \/ RequeueRun(r) \/ CloseRun(r)
      PROVE  Inv'
  <2>1. \E row \in RunRow :
          /\ run' = [run EXCEPT ![r] = row]
          /\ run[r].state = "closed" => row.state = "closed"
    <3>1. CASE StartRun(r)
      <4> DEFINE row == [state |-> "running", gen |-> run[r].gen + 1,
                         expiry |-> now + LeaseTtl]
      <4>1. run' = [run EXCEPT ![r] = row] /\ run[r].state # "closed"
        BY <3>1 DEF StartRun
      <4>2. row \in RunRow
        BY <1>0 DEF RunRow
      <4> QED
        BY <4>1, <4>2
    <3>2. CASE RenewRun(r)
      BY <1>0, <3>2 DEF RenewRun, LeaseLive, RunRow, TypeOK
    <3>3. CASE RequeueRun(r)
      BY <1>0, <3>3 DEF RequeueRun, RunRow, TypeOK
    <3>4. CASE CloseRun(r)
      BY <1>0, <3>4, ZenonT(40) DEF CloseRun, RunRow, TypeOK
    <3> QED
      BY <1>3, <3>1, <3>2, <3>3, <3>4
  <2>2. UNCHANGED <<now, policy, counter, resv, usage, used>>
    BY <1>3 DEF StartRun, RenewRun, RequeueRun, CloseRun
  <2> QED
    BY <2>1, <2>2, RunStep
<1> QED
  BY <1>1, <1>2, <1>3

LEMMA TickStep == ASSUME Inv, Tick PROVE Inv'
<1> USE DEF Inv
<1>1. TypeOK'
  BY BudgetBoundsAssumption DEF Tick, TypeOK
<1> QED
  BY <1>1 DEF Tick, ChargedOnce, EstimatedOnlyWhenOver, LateCallIsOver

LEMMA StutterStep == ASSUME Inv, UNCHANGED vars PROVE Inv'
  BY DEF Inv, vars, TypeOK, ChargedOnce, EstimatedOnlyWhenOver,
         LateCallIsOver

LEMMA Inductive == ASSUME Inv, [Next]_vars PROVE Inv'
<1>1. CASE Worker
  BY <1>1, ReserveStep, DispatchStep, ReconcileStep, RunsStep DEF Worker
<1>2. CASE Administrator
  BY <1>2, AdministratorStep
<1>3. CASE Tick
  BY <1>3, TickStep
<1>4. CASE UNCHANGED vars
  BY <1>4, StutterStep
<1> QED
  BY <1>1, <1>2, <1>3, <1>4 DEF Next

LEMMA Invariance == Spec => []Inv
  BY Initial, Inductive, PTL DEF Spec

\* Rows keep their types and counters their column's range.
THEOREM TypeCorrect == Spec => []TypeOK
<1>1. Inv => TypeOK
  BY DEF Inv
<1> QED
  BY <1>1, Invariance, PTL

\* A reservation is charged once, by whoever is first.
THEOREM ChargedOnceHolds == Spec => []ChargedOnce
<1>1. Inv => ChargedOnce
  BY DEF Inv
<1> QED
  BY <1>1, Invariance, PTL

\* Only a run that is over is charged something other than its consumption.
THEOREM EstimatedOnlyWhenOverHolds == Spec => []EstimatedOnlyWhenOver
<1>1. Inv => EstimatedOnlyWhenOver
  BY DEF Inv
<1> QED
  BY <1>1, Invariance, PTL

-----------------------------------------------------------------------------
\* Settling moves a counter up by what exceeds the estimate, or down.
LEMMA SettledTotal ==
    ASSUME TypeOK, NEW k \in Keys, NEW n \in Nat, Unresolved(k),
           CanSettle(k, n), counter' = Settled(k, n), NEW c \in Counters,
           Total(c)' > Total(c)
    PROVE  k \in On(c) /\ n > resv[k].estimate
<1>1. /\ counter[c].reserved \in Nat
      /\ counter[c].committed \in Nat
      /\ resv[k].estimate \in Nat
      /\ resv[k] # None
  BY UnresolvedRow, BudgetBoundsAssumption DEF TypeOK, Unresolved
<1>2. CASE c \in resv[k].counters
  <2>1. /\ counter'[c].reserved = counter[c].reserved - resv[k].estimate
        /\ counter'[c].committed = counter[c].committed + n
    BY <1>2 DEF Settled
  <2> QED
    BY <1>1, <1>2, <2>1 DEF Total, On
<1>3. CASE c \notin resv[k].counters
  <2>1. counter'[c] = counter[c]
    BY <1>3 DEF Settled
  <2> QED
    BY <1>1, <2>1 DEF Total
<1> QED
  BY <1>2, <1>3

LEMMA CommittedWithin ==
    ASSUME Inv, NEW k \in Keys, NEW n \in Nat, Committed(k, n),
           NEW c \in Counters, Total(c)' > Total(c)
    PROVE  \E j \in On(c) : Overran(j)
<1>1. k \in On(c) /\ n > resv[k].estimate
  BY SettledTotal DEF Committed, Inv
<1>2. <<k, n>> \in usage' \ usage
  BY DEF Committed
<1> QED
  BY <1>1, <1>2 DEF Overran

\* Workers, whatever they do at once, take a counter past its ceiling only
\* by a call that consumed more than its estimate.
THEOREM CeilingRespectedHolds == Spec => CeilingRespected
<1>1. ASSUME Inv, [Next]_vars, NEW c \in Counters, Total(c)' > Total(c)
      PROVE  \/ Total(c)' <= policy[c[1]].ceiling
             \/ \E k \in On(c) : Overran(k)
  <2> USE <1>1 DEF Inv
  <2>0. counter[c].reserved \in Nat /\ counter[c].committed \in Nat
    BY BudgetBoundsAssumption DEF TypeOK
  <2>1. counter' # counter
    <3>1. Total(c) \in Nat
      BY <2>0 DEF Total
    <3> QED
      BY <3>1 DEF Total
  <2>2. ASSUME NEW k \in Keys, NEW r \in Runs, NEW n \in 1..MaxEstimate,
               NEW t \in Readings, Reserve(k, r, n, t)
        PROVE  Total(c)' <= policy[c[1]].ceiling
    <3> DEFINE cs == {<<p, Period(p, t)>> : p \in Applicable(r)}
    <3>1. counter' = [d \in Counters |->
              IF d \in cs THEN [counter[d] EXCEPT !.reserved = @ + n]
                          ELSE counter[d]]
      BY <2>2 DEF Reserve
    <3>2. c \in cs
      <4>1. SUFFICES ASSUME c \notin cs PROVE FALSE
        OBVIOUS
      <4>2. counter'[c] = counter[c]
        BY <3>1, <4>1
      <4> QED
        BY <4>2, <2>0 DEF Total
    <3>3. PICK p \in Applicable(r) : c = <<p, Period(p, t)>>
      BY <3>2
    <3>4. counter[c].reserved + n + counter[c].committed <= policy[p].ceiling
      BY <2>2, <3>3 DEF Reserve, HasCapacity
    <3>5. Total(c)' = counter[c].reserved + n + counter[c].committed
      <4>1. /\ counter'[c].reserved = counter[c].reserved + n
            /\ counter'[c].committed = counter[c].committed
        BY <3>1, <3>2 DEF TypeOK
      <4> QED
        BY <4>1, <2>0, BudgetBoundsAssumption DEF Total
    <3>6. c[1] = p
      BY <3>3
    <3> QED
      BY <3>4, <3>5, <3>6
  <2>3. ASSUME NEW k \in Keys, NEW t \in Readings,
               ReleaseUnused(k, t) \/ CommitUsage(k, t) \/ Reclaim(k, t)
               \/ CommitBackground(k)
        PROVE  \E j \in On(c) : Overran(j)
    <3>1. CASE ReleaseUnused(k, t)
      <4>1. resv[k].estimate \in Nat
        BY <3>1, UnresolvedRow DEF ReleaseUnused
      <4>2. 0 > resv[k].estimate
        BY <3>1, SettledTotal DEF ReleaseUnused
      <4> QED
        BY <4>1, <4>2
    <3>2. CASE CommitUsage(k, t) \/ CommitBackground(k)
      <4>1. used[k] \in Nat /\ Committed(k, used[k])
        BY <3>2 DEF CommitUsage, CommitBackground, TypeOK
      <4> QED
        BY <4>1, CommittedWithin
    <3>3. CASE Reclaim(k, t)
      <4>1. resv[k].estimate \in Nat /\ Committed(k, resv[k].estimate)
        BY <3>3, UnresolvedRow DEF Reclaim
      <4> QED
        BY <4>1, CommittedWithin
    <3> QED
      BY <2>3, <3>1, <3>2, <3>3
  <2>4. now \in Readings
    BY BudgetBoundsAssumption DEF Readings, TypeOK
  <2> QED
    BY <2>1, <2>2, <2>3, <2>4
       DEF Next, Administrator, Worker, Tick, vars, EnsureBudgetPolicy,
           UpsertBudgetPolicy, Dispatch, MarkUncertain, AcceptBackground,
           StartRun, RenewRun, RequeueRun, CloseRun
<1>2. Inv /\ [Next]_vars =>
        [\A c \in Counters : Total(c)' > Total(c) =>
            \/ Total(c)' <= policy[c[1]].ceiling
            \/ \E k \in On(c) : Overran(k)]_vars
  BY <1>1
<1> QED
  BY <1>2, Invariance, PTL DEF Spec, CeilingRespected

-----------------------------------------------------------------------------
(***************************************************************************)
(* The counters balance.  SumFunction is a recursion over the subsets of   *)
(* its domain, with a choice in each step; that it is well defined and     *)
(* that the choices do not matter follows by induction.  The induction     *)
(* theorems of the library take a predicate; these proofs use instead that *)
(* strict inclusion is well founded on the subsets of a finite set, with   *)
(* the set of the instances that hold in the predicate's place.            *)
(***************************************************************************)

\* The element a sum takes next.
Pick(T) == CHOOSE x \in T : TRUE

\* iter[T] is the sum of w over T, for each T of F.
Sums(w, F, iter) ==
    iter = [T \in F |-> IF T = {} THEN 0
                        ELSE w[Pick(T)] + iter[T \ {Pick(T)}]]

SumUpTo(w, S) == CHOOSE iter : Sums(w, SUBSET S, iter)
SumOf(w, S) == SumUpTo(w, S)[S]

\* A family of subsets of a finite set has a least one.
LEMMA LeastSubset ==
    ASSUME NEW S, IsFiniteSet(S), NEW F, F \subseteq SUBSET S, F # {}
    PROVE  \E B \in F : \A C \in F : C \subseteq B => C = B
<1>1. IsWellFoundedOn(StrictSubsetOrdering(S), SUBSET S)
  BY FS_StrictSubsetOrderingWellFounded, FS_FiniteSubsetsOfFinite
<1>2. PICK B \in F : \A C \in F : ~ (<<C, B>> \in StrictSubsetOrdering(S))
  BY <1>1, WFMin, Zenon
<1> QED
  BY <1>2 DEF StrictSubsetOrdering

\* What holds of a subset when it holds of its proper subsets holds of all.
LEMMA FiniteInduction ==
    ASSUME NEW S, IsFiniteSet(S), NEW G,
           \A T \in SUBSET S :
               (\A U \in SUBSET T : U # T => U \in G) => T \in G
    PROVE  \A T \in SUBSET S : T \in G
<1> DEFINE Bad == (SUBSET S) \ G
<1>1. SUFFICES ASSUME Bad # {} PROVE FALSE
  OBVIOUS
<1>2. Bad \subseteq SUBSET S
  OBVIOUS
<1>3. PICK B \in Bad : \A C \in Bad : C \subseteq B => C = B
  <2> HIDE DEF Bad
  <2> QED
    BY <1>1, <1>2, LeastSubset
<1> QED
  BY <1>3

\* A set of numbers has a least one.
LEMMA LeastNumber ==
    ASSUME NEW T, T \subseteq Nat, T # {}
    PROVE  \E n \in T : \A m \in T : ~ (m < n)
<1>1. PICK n \in T : \A m \in T : ~ (<<m, n>> \in OpToRel(<, Nat))
  BY NatLessThanWellFounded, WFMin, Zenon
<1>2. \A m \in T : ~ (m < n)
  <2> SUFFICES ASSUME NEW m \in T PROVE ~ (m < n)
    OBVIOUS
  <2>1. <<m, n>> \in Nat \X Nat /\ ~ (<<m, n>> \in OpToRel(<, Nat))
    BY <1>1
  <2> QED
    BY <2>1 DEF OpToRel
<1> QED
  BY <1>2

\* Counting up to n.
LEMMA CountInduction ==
    ASSUME NEW n \in Nat, NEW G, 0 \in G,
           \A i \in 0..(n - 1) : i \in G => i + 1 \in G
    PROVE  n \in G
<1> DEFINE T == (0..n) \ G
<1>1. SUFFICES ASSUME T # {} PROVE FALSE
  OBVIOUS
<1>2. PICK k \in T : \A m \in T : ~ (m < k)
  <2>1. T \subseteq Nat
    OBVIOUS
  <2> HIDE DEF T
  <2> QED
    BY <1>1, <2>1, LeastNumber
<1>3. k # 0 /\ k - 1 \in 0..(n - 1) /\ k - 1 \in 0..n /\ k = (k - 1) + 1
  BY <1>2
<1>4. k - 1 \in G
  BY <1>2, <1>3
<1> QED
  BY <1>3, <1>4

\* Picking an element after the other ends.
LEMMA Picked ==
    ASSUME NEW T, IsFiniteSet(T), T # {}
    PROVE  /\ Pick(T) \in T
           /\ IsFiniteSet(T \ {Pick(T)})
           /\ Cardinality(T) \in Nat \ {0}
           /\ Cardinality(T \ {Pick(T)}) = Cardinality(T) - 1
<1>1. Pick(T) \in T
  BY DEF Pick
<1> QED
  BY <1>1, FS_RemoveElement, FS_CardinalityType, FS_EmptySet

\* The recursion that defines a sum has a solution.
LEMMA SumsExist ==
    ASSUME NEW S, IsFiniteSet(S), NEW w
    PROVE  \E iter : Sums(w, SUBSET S, iter)
<1> DEFINE F(n) == {T \in SUBSET S : Cardinality(T) <= n}
           N == Cardinality(S)
           G == {n \in 0..N : \E iter : Sums(w, F(n), iter)}
<1>1. N \in Nat
  BY FS_CardinalityType
<1>2. \A T \in SUBSET S : IsFiniteSet(T) /\ Cardinality(T) \in 0..N
  BY <1>1, FS_Subset, FS_CardinalityType
<1>3. 0 \in G
  <2> DEFINE it == [T \in F(0) |-> 0]
  <2>1. \A T \in F(0) : T = {}
    BY <1>2, FS_EmptySet
  <2>2. Sums(w, F(0), it)
    <3>1. [T \in F(0) |-> 0] = [T \in F(0) |-> IF T = {} THEN 0
                                ELSE w[Pick(T)] + it[T \ {Pick(T)}]]
      BY <2>1
    <3> QED
      BY <3>1 DEF Sums
  <2> HIDE DEF it, F
  <2> QED
    BY <1>1, <2>2
<1>4. ASSUME NEW n \in 0..(N - 1), n \in G PROVE n + 1 \in G
  <2>1. PICK g : Sums(w, F(n), g)
    BY <1>4
  <2> DEFINE h == [T \in F(n + 1) |-> IF T = {} THEN 0
                    ELSE w[Pick(T)] + g[T \ {Pick(T)}]]
  <2>2. \A T \in F(n) : T \in F(n + 1) /\ h[T] = g[T]
    <3>1. ASSUME NEW T \in F(n) PROVE T \in F(n + 1) /\ h[T] = g[T]
      <4>1. T \in F(n + 1)
        BY <1>1, <1>2
      <4>2. g[T] = IF T = {} THEN 0 ELSE w[Pick(T)] + g[T \ {Pick(T)}]
        BY <2>1 DEF Sums
      <4> QED
        BY <4>1, <4>2
    <3> QED
      BY <3>1
  <2>3. \A T \in F(n + 1) : T # {} => T \ {Pick(T)} \in F(n)
    BY <1>1, <1>2, Picked
  <2>4. Sums(w, F(n + 1), h)
    <3>1. \A T \in F(n + 1) : T # {} =>
            h[T \ {Pick(T)}] = g[T \ {Pick(T)}]
      BY <2>2, <2>3
    <3> HIDE DEF F
    <3>2. h = [T \in F(n + 1) |-> IF T = {} THEN 0
                ELSE w[Pick(T)] + h[T \ {Pick(T)}]]
      BY <3>1
    <3> QED
      BY <3>2 DEF Sums
  <2> HIDE DEF h, F
  <2> QED
    BY <1>1, <2>4
<1>5. N \in G
  <2> HIDE DEF G, N
  <2> QED
    BY <1>1, <1>3, <1>4, CountInduction
<1>6. F(N) = SUBSET S
  BY <1>1, <1>2
<1> QED
  BY <1>5, <1>6

LEMMA SumUpToSums ==
    ASSUME NEW S, IsFiniteSet(S), NEW w
    PROVE  \A T \in SUBSET S :
               SumUpTo(w, S)[T] =
                   IF T = {} THEN 0
                   ELSE w[Pick(T)] + SumUpTo(w, S)[T \ {Pick(T)}]
<1>1. Sums(w, SUBSET S, SumUpTo(w, S))
  BY SumsExist, Zenon DEF SumUpTo
<1> QED
  BY <1>1 DEF Sums

\* A sum depends on what is summed and on nothing else.
LEMMA SameSum ==
    ASSUME NEW S, NEW R, IsFiniteSet(S), IsFiniteSet(R), NEW U,
           U \subseteq S, U \subseteq R, NEW w, NEW v,
           \A x \in U : w[x] = v[x]
    PROVE  SumUpTo(w, S)[U] = SumUpTo(v, R)[U]
<1> DEFINE G == {T \in SUBSET U : SumUpTo(w, S)[T] = SumUpTo(v, R)[T]}
<1>1. IsFiniteSet(U)
  BY FS_Subset
<1>2. ASSUME NEW T \in SUBSET U, \A V \in SUBSET T : V # T => V \in G
      PROVE  T \in G
  <2>1. /\ SumUpTo(w, S)[T] = IF T = {} THEN 0
             ELSE w[Pick(T)] + SumUpTo(w, S)[T \ {Pick(T)}]
        /\ SumUpTo(v, R)[T] = IF T = {} THEN 0
             ELSE v[Pick(T)] + SumUpTo(v, R)[T \ {Pick(T)}]
    BY SumUpToSums, ZenonT(40)
  <2>2. CASE T = {}
    BY <2>1, <2>2
  <2>3. CASE T # {}
    <3>1. Pick(T) \in T
      BY <2>3 DEF Pick
    <3>2. T \ {Pick(T)} \in G
      BY <1>2, <3>1
    <3> QED
      BY <2>1, <2>3, <3>1, <3>2
  <2> QED
    BY <2>2, <2>3
<1>3. \A T \in SUBSET U : T \in G
  <2>1. \A T \in SUBSET U :
          (\A V \in SUBSET T : V # T => V \in G) => T \in G
    BY <1>2
  <2> HIDE DEF G
  <2> QED
    BY <1>1, <2>1, FiniteInduction
<1> QED
  BY <1>3

LEMMA SumOfEqual ==
    ASSUME NEW S, IsFiniteSet(S), NEW w, NEW v, \A x \in S : w[x] = v[x]
    PROVE  SumOf(w, S) = SumOf(v, S)
  BY SameSum DEF SumOf

LEMMA SumOfEmpty == ASSUME NEW w PROVE SumOf(w, {}) = 0
  BY SumUpToSums, FS_EmptySet DEF SumOf

LEMMA SumOfPicked ==
    ASSUME NEW S, IsFiniteSet(S), NEW w, S # {}
    PROVE  SumOf(w, S) = w[Pick(S)] + SumOf(w, S \ {Pick(S)})
<1>1. SumOf(w, S) = w[Pick(S)] + SumUpTo(w, S)[S \ {Pick(S)}]
  BY SumUpToSums DEF SumOf
<1>2. IsFiniteSet(S \ {Pick(S)}) /\ S \ {Pick(S)} \subseteq S
  BY Picked
<1>3. SumUpTo(w, S)[S \ {Pick(S)}] = SumOf(w, S \ {Pick(S)})
  BY <1>2, SameSum DEF SumOf
<1> QED
  BY <1>1, <1>3

LEMMA SumOfType ==
    ASSUME NEW S, IsFiniteSet(S), NEW w, \A x \in S : w[x] \in Nat
    PROVE  SumOf(w, S) \in Nat
<1> DEFINE G == {T \in SUBSET S : SumOf(w, T) \in Nat}
<1>1. ASSUME NEW T \in SUBSET S, \A V \in SUBSET T : V # T => V \in G
      PROVE  T \in G
  <2>1. CASE T = {}
    BY <2>1, SumOfEmpty
  <2>2. CASE T # {}
    <3>1. IsFiniteSet(T) /\ Pick(T) \in T
      BY <2>2, FS_Subset DEF Pick
    <3>2. T \ {Pick(T)} \in G
      BY <1>1, <3>1
    <3>3. w[Pick(T)] \in Nat
      BY <3>1
    <3> QED
      BY <2>2, <3>1, <3>2, <3>3, SumOfPicked
  <2> QED
    BY <2>1, <2>2
<1>2. \A T \in SUBSET S : T \in G
  <2>1. \A T \in SUBSET S :
          (\A V \in SUBSET T : V # T => V \in G) => T \in G
    BY <1>1
  <2> HIDE DEF G
  <2> QED
    BY <2>1, FiniteInduction
<1> QED
  BY <1>2

\* The order in which a sum is taken does not matter.
LEMMA SumOfRemoved ==
    ASSUME NEW S, IsFiniteSet(S), NEW w, \A x \in S : w[x] \in Nat
    PROVE  \A x \in S : SumOf(w, S) = w[x] + SumOf(w, S \ {x})
<1> DEFINE G == {T \in SUBSET S :
                   \A x \in T : SumOf(w, T) = w[x] + SumOf(w, T \ {x})}
<1>0. \A T \in SUBSET S : IsFiniteSet(T) /\ SumOf(w, T) \in Nat
  BY FS_Subset, SumOfType
<1>1. ASSUME NEW T \in SUBSET S, \A V \in SUBSET T : V # T => V \in G
      PROVE  T \in G
  <2>1. SUFFICES ASSUME NEW x \in T
                 PROVE  SumOf(w, T) = w[x] + SumOf(w, T \ {x})
    OBVIOUS
  <2> DEFINE c == Pick(T)
  <2>2. /\ c \in T /\ IsFiniteSet(T)
        /\ SumOf(w, T) = w[c] + SumOf(w, T \ {c})
    BY <1>0, SumOfPicked DEF Pick
  <2> HIDE DEF c
  <2>3. CASE c = x
    BY <2>2, <2>3
  <2>4. CASE c # x
    <3>1. T \ {c} \in G /\ T \ {x} \in G
      BY <1>1, <2>2
    <3>2. SumOf(w, T \ {c}) = w[x] + SumOf(w, (T \ {c}) \ {x})
      BY <2>4, <3>1
    <3>3. SumOf(w, T \ {x}) = w[c] + SumOf(w, (T \ {x}) \ {c})
      BY <2>2, <2>4, <3>1
    <3>4. (T \ {c}) \ {x} = (T \ {x}) \ {c}
      OBVIOUS
    <3>5. /\ w[c] \in Nat /\ w[x] \in Nat
          /\ SumOf(w, (T \ {x}) \ {c}) \in Nat
      BY <1>0, <2>2
    <3>6. PICK n \in Nat : n = SumOf(w, (T \ {x}) \ {c})
      BY <3>5
    <3>7. SumOf(w, T) = w[c] + (w[x] + n)
      BY <2>2, <3>2, <3>4, <3>6
    <3>8. SumOf(w, T \ {x}) = w[c] + n
      BY <3>3, <3>6
    <3>9. w[c] + (w[x] + n) = w[x] + (w[c] + n)
      BY <3>5
    <3> QED
      BY <3>7, <3>8, <3>9
  <2> QED
    BY <2>3, <2>4
<1>2. \A T \in SUBSET S : T \in G
  <2>1. \A T \in SUBSET S :
          (\A V \in SUBSET T : V # T => V \in G) => T \in G
    BY <1>1
  <2> HIDE DEF G
  <2> QED
    BY <2>1, FiniteInduction
<1> QED
  BY <1>2

LEMMA SumOfAdded ==
    ASSUME NEW S, IsFiniteSet(S), NEW x, x \notin S, NEW w,
           \A y \in S \cup {x} : w[y] \in Nat
    PROVE  SumOf(w, S \cup {x}) = SumOf(w, S) + w[x]
<1>1. IsFiniteSet(S \cup {x}) /\ (S \cup {x}) \ {x} = S
  BY FS_AddElement
<1>2. SumOf(w, S \cup {x}) = w[x] + SumOf(w, S)
  BY <1>1, SumOfRemoved
<1> QED
  BY <1>2, SumOfType

LEMMA SumFunctionIs ==
    ASSUME NEW f PROVE SumFunction(f) = SumOf(f, DOMAIN f)
  BY DEF SumFunction, SumFunctionOnSet, FoldFunctionOnSet, MapThenFoldSet,
         SumOf, SumUpTo, Sums, Pick

LEMMA SumFunctionEmpty ==
    ASSUME NEW f, DOMAIN f = {} PROVE SumFunction(f) = 0
  BY SumFunctionIs, SumOfEmpty

\* One more argument adds its value.
LEMMA SumFunctionAdded ==
    ASSUME NEW S, IsFiniteSet(S), NEW x, x \notin S, NEW f \in [S -> Nat],
           NEW g \in [S \cup {x} -> Nat], \A y \in S : g[y] = f[y]
    PROVE  /\ SumFunction(f) \in Nat
           /\ SumFunction(g) = SumFunction(f) + g[x]
<1>1. SumFunction(f) = SumOf(f, S) /\ SumFunction(g) = SumOf(g, S \cup {x})
  BY SumFunctionIs
<1>2. SumOf(g, S \cup {x}) = SumOf(g, S) + g[x]
  BY SumOfAdded
<1>3. SumOf(f, S) = SumOf(g, S)
  BY SumOfEqual
<1>4. SumOf(f, S) \in Nat
  BY SumOfType
<1> QED
  BY <1>1, <1>2, <1>3, <1>4

-----------------------------------------------------------------------------
Estimates(c) == [k \in Held(c) |-> resv[k].estimate]
Amounts(c) == [e \in Charged(c) |-> e[2]]

Balance == IsFiniteSet(usage) /\ CountersBalance

LEMMA HeldTyped ==
    ASSUME TypeOK, NEW c \in Counters, IsFiniteSet(usage)
    PROVE  /\ IsFiniteSet(Held(c)) /\ IsFiniteSet(Charged(c))
           /\ Held(c) \subseteq Keys
           /\ Estimates(c) \in [Held(c) -> Nat]
           /\ Amounts(c) \in [Charged(c) -> Nat]
<1>1. IsFiniteSet(Keys) /\ Held(c) \subseteq Keys /\ Charged(c) \subseteq usage
  BY FS_Interval, BudgetBoundsAssumption DEF Keys, Held, On, Charged
<1>2. Estimates(c) \in [Held(c) -> Nat]
  BY UnresolvedRow, <1>1 DEF Estimates, Held
<1>3. Amounts(c) \in [Charged(c) -> Nat]
  BY <1>1 DEF Amounts, TypeOK
<1> QED
  BY <1>1, <1>2, <1>3, FS_Subset

LEMMA BalanceIs ==
    CountersBalance <=>
        \A c \in Counters :
            /\ counter[c].reserved = SumFunction(Estimates(c))
            /\ counter[c].committed = SumFunction(Amounts(c))
            /\ counter[c].reserved <= MaxStored
            /\ counter[c].committed <= MaxStored
  BY DEF CountersBalance, Estimates, Amounts

\* No reservation and no usage entry is made, and none is closed.
LEMMA BalanceFrame ==
    ASSUME Balance, UNCHANGED <<counter, usage>>,
           \A k \in Keys :
               \/ resv'[k] = resv[k]
               \/ /\ Unresolved(k) /\ Unresolved(k)'
                  /\ resv'[k].estimate = resv[k].estimate
                  /\ resv'[k].counters = resv[k].counters
    PROVE  Balance'
<1>1. ASSUME NEW c \in Counters
      PROVE  /\ Estimates(c)' = Estimates(c)
             /\ Amounts(c)' = Amounts(c)
  <2>1. On(c)' = On(c) /\ Held(c)' = Held(c) /\ Charged(c)' = Charged(c)
    <3>1. On(c)' = On(c) /\ Held(c)' = Held(c)
      BY DEF On, Held, Unresolved
    <3> QED
      BY <3>1 DEF Charged
  <2>2. \A k \in Held(c) : resv'[k].estimate = resv[k].estimate
    BY DEF Held, On
  <2> QED
    BY <2>1, <2>2 DEF Estimates, Amounts
<1> QED
  BY <1>1, BalanceIs DEF Balance, CountersBalance, Estimates, Amounts

LEMMA BalanceReserve ==
    ASSUME Inv, Balance, NEW k \in Keys, NEW r \in Runs,
           NEW n \in 1..MaxEstimate, NEW t \in Readings, Reserve(k, r, n, t)
    PROVE  Balance'
<1> USE DEF Inv
<1> DEFINE cs == {<<p, Period(p, t)>> : p \in Applicable(r)}
<1>1. /\ counter' = [c \in Counters |->
            IF c \in cs THEN [counter[c] EXCEPT !.reserved = @ + n]
                        ELSE counter[c]]
      /\ resv' = [resv EXCEPT ![k] =
            [run |-> r, gen |-> run[r].gen, estimate |-> n,
             counters |-> cs, expires |-> run[r].expiry,
             state |-> "reserved"]]
      /\ usage' = usage
      /\ resv[k] = None
  BY DEF Reserve, NextKey
<1>2. TypeOK'
  BY ReserveStep
<1>3. /\ \A j \in Keys \ {k} : resv'[j] = resv[j]
      /\ resv'[k].estimate = n /\ resv'[k].counters = cs
      /\ resv'[k].state = "reserved"
      /\ resv'[k] # None
  <2>1. /\ \A j \in Keys \ {k} : resv'[j] = resv[j]
        /\ resv'[k].estimate = n /\ resv'[k].counters = cs
        /\ resv'[k].state = "reserved"
        /\ resv'[k] = [run |-> r, gen |-> run[r].gen, estimate |-> n,
             counters |-> cs, expires |-> run[r].expiry,
             state |-> "reserved"]
    BY <1>1 DEF TypeOK
  <2>2. resv'[k] # None
    BY <2>1, ReservedRow, NoReservationIsNone
  <2> QED
    BY <2>1, <2>2
<1> HIDE DEF cs
<1>4. ASSUME NEW c \in Counters
      PROVE  /\ counter'[c].reserved = SumFunction(Estimates(c))'
             /\ counter'[c].committed = SumFunction(Amounts(c))'
  <2>1. k \notin Held(c) /\ k \notin On(c)
    BY <1>1 DEF Held, On
  <2>2. Charged(c)' = Charged(c)
    <3>1. \A e \in usage : e[1] \in Keys /\ e[1] # k
      BY <1>1 DEF TypeOK, ChargedOnce
    <3>2. \A e \in usage : e[1] \in On(c)' <=> e[1] \in On(c)
      BY <3>1, <1>3 DEF On
    <3> QED
      BY <1>1, <3>2 DEF Charged
  <2>3. Amounts(c)' = Amounts(c)
    BY <2>2 DEF Amounts
  <2>4. counter'[c].committed = counter[c].committed
    BY <1>1 DEF TypeOK
  <2>5. CASE c \in cs
    <3>1. Held(c)' = Held(c) \cup {k}
      BY <1>3, <2>5 DEF Held, On, Unresolved
    <3>2. Estimates(c)' \in [Held(c) \cup {k} -> Nat]
      <4>1. \A j \in Held(c) : resv[j].estimate \in Nat
        BY UnresolvedRow DEF Held, On
      <4>2. \A j \in Held(c) \cup {k} : resv'[j].estimate \in Nat
        BY <1>3, <4>1, BudgetBoundsAssumption DEF Held, On
      <4> QED
        BY <3>1, <4>2 DEF Estimates
    <3>3. /\ \A j \in Held(c) : Estimates(c)'[j] = Estimates(c)[j]
          /\ Estimates(c)'[k] = n
      BY <1>3, <2>1, <3>1 DEF Estimates, Held, On
    <3>4. SumFunction(Estimates(c)') = SumFunction(Estimates(c)) + n
      <4>1. /\ IsFiniteSet(Held(c)) /\ Estimates(c) \in [Held(c) -> Nat]
        BY HeldTyped DEF Balance
      <4> QED
        BY <2>1, <3>2, <3>3, <4>1, SumFunctionAdded
    <3>5. counter'[c].reserved = counter[c].reserved + n
      BY <1>1, <2>5 DEF TypeOK
    <3> QED
      BY <2>3, <2>4, <3>4, <3>5, BalanceIs DEF Balance
  <2>6. CASE c \notin cs
    <3>1. Held(c)' = Held(c)
      BY <1>3, <2>1, <2>6 DEF Held, On, Unresolved
    <3>2. Estimates(c)' = Estimates(c)
      BY <1>3, <2>1, <3>1 DEF Estimates, Held, On
    <3>3. counter'[c] = counter[c]
      BY <1>1, <2>6
    <3> QED
      BY <2>3, <3>2, <3>3, BalanceIs DEF Balance
  <2> QED
    BY <2>5, <2>6
<1>5. \A c \in Counters : counter'[c].reserved <= MaxStored
                          /\ counter'[c].committed <= MaxStored
  BY <1>2, BudgetBoundsAssumption DEF TypeOK
<1> QED
  BY <1>1, <1>4, <1>5 DEF Balance, CountersBalance, Estimates, Amounts

\* A reservation ends: its estimate is taken off its counters, and what is
\* charged for it comes with the entry that charges it.
LEMMA BalanceSettle ==
    ASSUME Inv, Balance, Inv', NEW k \in Keys, NEW n \in Nat, Unresolved(k),
           counter' = Settled(k, n),
           NEW s \in {"committed", "released"},
           resv' = [resv EXCEPT ![k].state = s],
           \/ n = 0 /\ usage' = usage
           \/ usage' = usage \cup {<<k, n>>} /\ \A e \in usage : e[1] # k
    PROVE  Balance'
<1> USE DEF Inv
<1>1. /\ resv[k] \in Reservation /\ resv[k] # None
      /\ \A j \in Keys \ {k} : resv'[j] = resv[j]
      /\ resv'[k].estimate = resv[k].estimate
      /\ resv'[k].counters = resv[k].counters
      /\ resv'[k].state = s
      /\ resv'[k] # None
  <2>1. resv[k] \in Reservation /\ resv[k] # None
    BY UnresolvedRow DEF Unresolved
  <2>2. /\ \A j \in Keys \ {k} : resv'[j] = resv[j]
        /\ resv'[k] = [resv[k] EXCEPT !.state = s]
    BY DEF TypeOK
  <2>3. /\ resv'[k].estimate = resv[k].estimate
        /\ resv'[k].counters = resv[k].counters
        /\ resv'[k].state = s
        /\ resv'[k] \in Reservation
    BY <2>1, <2>2 DEF Reservation
  <2> QED
    BY <2>1, <2>2, <2>3, NoReservationIsNone
<1>2. IsFiniteSet(usage')
  BY FS_AddElement DEF Balance
<1>3. ASSUME NEW c \in Counters
      PROVE  /\ counter'[c].reserved = SumFunction(Estimates(c)')
             /\ counter'[c].committed = SumFunction(Amounts(c)')
  <2>0. /\ counter[c].reserved = SumFunction(Estimates(c))
        /\ counter[c].committed = SumFunction(Amounts(c))
        /\ counter[c].reserved \in Nat /\ counter[c].committed \in Nat
        /\ resv[k].estimate \in Nat
    BY BalanceIs, UnresolvedRow, BudgetBoundsAssumption DEF Balance, TypeOK
  <2>1. On(c)' = On(c)
    BY <1>1 DEF On
  <2>2. Held(c)' = Held(c) \ {k}
    BY <1>1, <2>1 DEF Held, Unresolved, On
  <2>3. \A j \in Held(c)' : Estimates(c)'[j] = Estimates(c)[j]
    BY <1>1, <2>2 DEF Estimates, Held, On
  <2>4. /\ IsFiniteSet(Held(c)) /\ Estimates(c) \in [Held(c) -> Nat]
        /\ IsFiniteSet(Charged(c)) /\ Amounts(c) \in [Charged(c) -> Nat]
    BY HeldTyped DEF Balance
  <2>5. IsFiniteSet(Held(c)') /\ Estimates(c)' \in [Held(c)' -> Nat]
    <3>1. IsFiniteSet(Held(c)')
      BY <2>2, <2>4, FS_RemoveElement
    <3>2. \A j \in Held(c)' : resv'[j].estimate \in Nat
      BY <1>1, <2>2, <2>0, UnresolvedRow DEF Held, On
    <3> QED
      BY <3>1, <3>2 DEF Estimates
  <2>6. CASE c \in resv[k].counters
    <3>1. k \in On(c) /\ k \in Held(c)
      BY <1>1, <2>6 DEF On, Held
    <3>2. Held(c) = Held(c)' \cup {k} /\ k \notin Held(c)'
      BY <2>2, <3>1
    <3>3. Estimates(c)[k] = resv[k].estimate
      BY <3>1 DEF Estimates
    <3>4. /\ SumFunction(Estimates(c)') \in Nat
          /\ SumFunction(Estimates(c))
               = SumFunction(Estimates(c)') + resv[k].estimate
      BY <2>3, <2>4, <2>5, <3>2, <3>3, SumFunctionAdded
    <3>5. /\ counter'[c].reserved = counter[c].reserved - resv[k].estimate
          /\ counter'[c].committed = counter[c].committed + n
      BY <2>6 DEF Settled
    <3>6. SumFunction(Amounts(c)') = SumFunction(Amounts(c)) + n
      <4>1. CASE n = 0 /\ usage' = usage
        <5>1. Charged(c)' = Charged(c)
          BY <2>1, <4>1 DEF Charged
        <5>2. Amounts(c)' = Amounts(c)
          BY <5>1 DEF Amounts
        <5> QED
          BY <2>0, <4>1, <5>2
      <4>2. CASE usage' = usage \cup {<<k, n>>} /\ \A e \in usage : e[1] # k
        <5>1. <<k, n>> \notin Charged(c)
              /\ Charged(c)' = Charged(c) \cup {<<k, n>>}
          BY <2>1, <3>1, <4>2 DEF Charged
        <5>2. /\ Amounts(c)' \in [Charged(c) \cup {<<k, n>>} -> Nat]
              /\ \A e \in Charged(c) : Amounts(c)'[e] = Amounts(c)[e]
              /\ Amounts(c)'[<<k, n>>] = n
          <6>1. \A e \in Charged(c) : e[2] \in Nat
            BY DEF Charged, TypeOK
          <6> QED
            BY <5>1, <6>1 DEF Amounts
        <5>3. PICK x : x = <<k, n>>
          OBVIOUS
        <5>4. SumFunction(Amounts(c)')
                = SumFunction(Amounts(c)) + Amounts(c)'[x]
          <6>1. /\ Amounts(c)' \in [Charged(c) \cup {x} -> Nat]
                /\ x \notin Charged(c)
            BY <5>1, <5>2, <5>3
          <6> QED
            BY <2>4, <5>2, <6>1, SumFunctionAdded
        <5> QED
          BY <5>2, <5>3, <5>4
      <4> QED
        BY <4>1, <4>2
    <3> QED
      BY <2>0, <3>4, <3>5, <3>6
  <2>7. CASE c \notin resv[k].counters
    <3>1. k \notin On(c) /\ Held(c)' = Held(c)
      BY <2>2, <2>7 DEF On, Held
    <3>2. Estimates(c)' = Estimates(c)
      BY <1>1, <3>1 DEF Estimates, Held, On
    <3>3. Charged(c)' = Charged(c)
      BY <2>1, <3>1 DEF Charged
    <3>4. Amounts(c)' = Amounts(c)
      BY <3>3 DEF Amounts
    <3>5. counter'[c] = counter[c]
      BY <2>7 DEF Settled
    <3> QED
      BY <2>0, <3>2, <3>4, <3>5
  <2> QED
    BY <2>6, <2>7
<1>4. \A c \in Counters : counter'[c].reserved <= MaxStored
                          /\ counter'[c].committed <= MaxStored
  BY BudgetBoundsAssumption DEF TypeOK
<1> QED
  BY <1>2, <1>3, <1>4 DEF Balance, CountersBalance, Estimates, Amounts

LEMMA BalanceNext == ASSUME Inv, Balance, [Next]_vars PROVE Balance'
<1> USE DEF Inv
<1>0. Inv'
  BY Inductive
<1>1. ASSUME UNCHANGED <<counter, resv, usage>> PROVE Balance'
  BY <1>1, BalanceFrame
<1>2. ASSUME NEW k \in Keys, NEW t \in Readings, MarkUncertain(k, t)
      PROVE  Balance'
  <2>1. /\ resv[k] \in Reservation /\ resv[k] # None
        /\ resv' = [resv EXCEPT ![k].state = "uncertain"]
        /\ UNCHANGED <<counter, usage>>
    BY <1>2, UnresolvedRow DEF MarkUncertain, Unresolved
  <2>2. /\ \A j \in Keys \ {k} : resv'[j] = resv[j]
        /\ resv'[k] = [resv[k] EXCEPT !.state = "uncertain"]
    BY <2>1 DEF TypeOK
  <2>3. /\ resv'[k].estimate = resv[k].estimate
        /\ resv'[k].counters = resv[k].counters
        /\ resv'[k].state = "uncertain"
        /\ resv'[k] \in Reservation
    BY <2>1, <2>2 DEF Reservation
  <2>4. Unresolved(k) /\ Unresolved(k)'
    BY <1>2, <2>3, NoReservationIsNone DEF MarkUncertain, Unresolved
  <2> QED
    BY <2>1, <2>2, <2>3, <2>4, BalanceFrame
<1>3. ASSUME NEW k \in Keys, NEW n \in Nat, Committed(k, n) PROVE Balance'
  BY <1>0, <1>3, BalanceSettle DEF Committed
<1>4. ASSUME NEW k \in Keys, NEW t \in Readings, ReleaseUnused(k, t)
      PROVE  Balance'
  BY <1>0, <1>4, BalanceSettle DEF ReleaseUnused
<1>5. ASSUME NEW k \in Keys, NEW t \in Readings, Reclaim(k, t)
      PROVE  Balance'
  <2>1. resv[k].estimate \in Nat /\ Committed(k, resv[k].estimate)
    BY <1>5, UnresolvedRow DEF Reclaim
  <2> QED
    BY <2>1, <1>3
<1>6. ASSUME NEW k \in Keys, used[k] # None, Committed(k, used[k])
      PROVE  Balance'
  BY <1>3, <1>6 DEF TypeOK
<1>7. CASE Administrator
  BY <1>1, <1>5, <1>7
     DEF Administrator, EnsureBudgetPolicy, UpsertBudgetPolicy
<1>8. CASE Worker
  BY <1>1, <1>2, <1>4, <1>6, <1>8, BalanceReserve
     DEF Worker, Dispatch, CommitUsage, AcceptBackground, CommitBackground,
         StartRun, RenewRun, RequeueRun, CloseRun
<1>9. CASE Tick \/ UNCHANGED vars
  BY <1>1, <1>9 DEF Tick, vars
<1> QED
  BY <1>7, <1>8, <1>9 DEF Next

LEMMA BalanceInit == Init => Balance
<1> SUFFICES ASSUME Init PROVE Balance
  OBVIOUS
<1>1. \A c \in Counters : DOMAIN Estimates(c) = {} /\ DOMAIN Amounts(c) = {}
  BY DEF Init, Estimates, Amounts, Held, On, Charged
<1>2. \A c \in Counters : SumFunction(Estimates(c)) = 0
                          /\ SumFunction(Amounts(c)) = 0
  BY <1>1, SumFunctionEmpty
<1>3. MaxStored >= 0
  BY BudgetBoundsAssumption
<1> QED
  BY <1>2, <1>3, FS_EmptySet, BalanceIs DEF Init, Balance

\* Every counter is the sum of the rows behind it, for any number of
\* reservations and policies, over every turn of a period.
THEOREM CountersBalanceHolds == Spec => []CountersBalance
<1>1. Init => Inv /\ Balance
  BY Initial, BalanceInit
<1>2. (Inv /\ Balance) /\ [Next]_vars => (Inv /\ Balance)'
  BY Inductive, BalanceNext
<1>3. Balance => CountersBalance
  BY DEF Balance
<1> QED
  BY <1>1, <1>2, <1>3, PTL DEF Spec
=============================================================================
