---------------------------- MODULE AiRunsProofs ----------------------------
(***************************************************************************)
(* What holds of the durable runs for every number of runs, workers,       *)
(* retries and turns, every lease length and every lag.  First their rows. *)
(* Then what they keep beside them: that they implement the attempt ledger *)
(* and every attempt that is over has exactly one outcome (every step      *)
(* leaves each row's attempt alone, opens one or ends some: the ledger's   *)
(* view of it); that no provider turn is sent twice and every answer is    *)
(* paid for, from the reservations and the places of the workers; and that *)
(* a client is told the retry admission dispose will compute.              *)
(***************************************************************************)
EXTENDS AiRuns, TLAPS

(* The checkpoint of a row or of a remembered lease holds the answer.      *)
HasOutput(x) == x.ckpt # None /\ x.ckpt.kind = "output"

Claimed(s) == s \in {"Leased", "Running"}
Waiting(s) == s \in {"Queued", "RetryScheduled"}

(* What every stored row satisfies.  The generation counts the retries: a  *)
(* waiting run has had one attempt per retry, any other at most one more.  *)
(* A row that carries an answer is running, completed or kept for recovery *)
(* and has not been retried.                                               *)
RowOK(row) ==
    /\ Waiting(row.state) => WellFormedClaim(row) /\ row.gen = row.retries
    /\ Claimed(row.state) => /\ row.attempt = row.gen
                             /\ row.gen = row.retries + 1
                             /\ row.owner # None
                             /\ row.expiry # None
    /\ row.owner # None => Claimed(row.state)
    /\ row.gen <= row.retries + 1
    /\ row.attempt # None => row.attempt = row.gen
    /\ row.state = "Absent" => row.gen = 0 /\ row.attempt = None
    /\ row.disposed # "no" =>
         row.state \in {"Failed", "Cancelled", "RecoveryRequired"}
    /\ HasOutput(row) =>
         /\ row.state \in {"Running", "Completed", "RecoveryRequired"}
         /\ row.disposed # "retried"
    /\ row.state = "Completed" => HasOutput(row)

Rows == \A r \in Runs : RowOK(run[r])

(* A worker has an answer behind it when the lease it remembers says so.   *)
Leases ==
    \A w \in Workers : held[w] # None =>
        (held[w].phase = "answered" <=> HasOutput(held[w].lease))

(* A run's answer is where its checkpoint says it is.                      *)
Answers ==
    \A r \in Runs : answers[r] = IF HasOutput(run[r]) THEN 1 ELSE 0

(* Runs are created in order, and of the runs of one message all but one   *)
(* have been retried.                                                      *)
Inputs ==
    /\ \A r \in Runs : run[r].state # "Absent" => run[r].input \in 1..r
    /\ \A q, r \in Runs : q < r /\ run[r].state # "Absent" =>
         run[q].state # "Absent"
    /\ \A q, r \in Runs :
         (/\ q # r /\ run[q].input = run[r].input
          /\ run[q].state # "Absent" /\ run[r].state # "Absent") =>
         run[q].disposed = "retried" \/ run[r].disposed = "retried"

Inv == TypeOK /\ Rows /\ Leases /\ Answers /\ Inputs

(* How every operation but the append of an answer, the insertion of a run *)
(* and its disposition changes a row.                                      *)
Evolves(old, new) ==
    /\ new \in RunRow
    /\ RowOK(new)
    /\ HasOutput(new) <=> HasOutput(old)
    /\ new.input = old.input
    /\ new.disposed = old.disposed
    /\ new.state = "Absent" <=> old.state = "Absent"

-----------------------------------------------------------------------------
(* What the operations make of a row keeps its type.                       *)
LEMMA TicksFacts ==
    ASSUME NEW lag \in 0..MaxLag
    PROVE  /\ Ttl - lag \in Ticks /\ RetryDelay - lag \in Ticks
           /\ 0 - lag \in Ticks /\ Ttl \in Ticks /\ 0 \in Ticks
           /\ Ttl - lag # None
           /\ \A t \in Ticks \cup {None} : /\ Sooner(t) \in Ticks \cup {None}
                                           /\ Sooner(t) = None <=> t = None
  BY RunRowsAssumption, RunNoneAssumption DEF Ticks, Sooner

LEMMA QueuedRunType ==
    ASSUME NEW m \in Nat
    PROVE  Absent \in RunRow /\ QueuedRun(m) \in RunRow
  <1>1. Absent \in RunRow
    BY RunRowsAssumption DEF Absent, RunRow, ErrorCodes
  <1>2. 0 \in Ticks
    BY RunRowsAssumption DEF Ticks
  <1>3. QED
    BY <1>1, <1>2, ZenonT(40) DEF QueuedRun, RunRow, States

LEMMA ClosedType ==
    ASSUME NEW row \in RunRow, NEW s \in States, NEW err \in ErrorCodes
    PROVE  /\ Closed(row, s, err) \in RunRow
           /\ [Closed(row, s, err) EXCEPT !.attempt = None] \in RunRow
  BY DEF Closed, RunRow

LEMMA RequeuedType ==
    ASSUME NEW row \in RunRow, NEW err \in ErrorCodes, NEW delay \in Ticks,
           row.retries < MaxRetries
    PROVE  Requeued(row, err, delay) \in RunRow
  <1>1. row.retries + 1 \in 0..MaxRetries
    BY RunRowsAssumption DEF RunRow
  <1>2. QED
    BY <1>1 DEF Requeued, RunRow, States

LEMMA LeasedType ==
    ASSUME NEW row \in RunRow, NEW w \in Workers, NEW lag \in 0..MaxLag
    PROVE  Leased(row, w, lag) \in RunRow
  <1> DEFINE c == IF row.err = "adoption_ready" THEN row.ckpt ELSE None
  <1>1. row.gen + 1 \in Nat /\ Ttl - lag \in Ticks
    BY TicksFacts DEF RunRow
  <1>2. c \in Checkpoint \cup {None}
    BY DEF RunRow
  <1>3. Leased(row, w, lag) =
          [row EXCEPT !.state = "Leased", !.attempt = row.gen + 1,
                      !.owner = w, !.gen = row.gen + 1, !.expiry = Ttl - lag,
                      !.eligible = None, !.err = "none", !.ckpt = c]
    BY DEF Leased
  <1> HIDE DEF c
  <1>4. QED
    BY <1>1, <1>2, <1>3, ZenonT(40) DEF RunRow, States, ErrorCodes

LEMMA RecoveredType ==
    ASSUME NEW row \in RunRow, NEW lag \in 0..MaxLag
    PROVE  Recovered(row, lag) \in RunRow
  <1> DEFINE kind == IF row.ckpt = None THEN "none" ELSE row.ckpt.kind
             Left(s, err) == [Closed(row, s, err) EXCEPT !.attempt = None]
  <1>1. /\ Left("Failed", "other") \in RunRow
        /\ Left("Completed", "none") \in RunRow
        /\ Left("RecoveryRequired", "other") \in RunRow
    BY ClosedType DEF States, ErrorCodes
  <1>2. CASE row.retries < MaxRetries
    <2>1. /\ Requeued(row, "other", 0 - lag) \in RunRow
          /\ Requeued(row, "adoption_ready", 0 - lag) \in RunRow
      BY <1>2, RequeuedType, TicksFacts DEF ErrorCodes
    <2>2. QED
      BY <1>1, <1>2, <2>1 DEF Recovered
  <1>3. CASE ~(row.retries < MaxRetries)
    BY <1>1, <1>3 DEF Recovered
  <1>4. QED
    BY <1>2, <1>3

-----------------------------------------------------------------------------
LEMMA ClosedEvolves ==
    ASSUME NEW row \in RunRow, RowOK(row), NEW s \in Closing,
           NEW err \in ErrorCodes,
           row.state # "Absent", ~IsTerminal(row.state),
           row.disposed # "no" => s # "Completed",
           s = "Completed" => HasOutput(row),
           HasOutput(row) => s \in {"Completed", "RecoveryRequired"}
    PROVE  /\ Evolves(row, Closed(row, s, err))
           /\ Evolves(row, [Closed(row, s, err) EXCEPT !.attempt = None])
  <1> DEFINE a == Closed(row, s, err)
             b == [Closed(row, s, err) EXCEPT !.attempt = None]
  <1>1. s \in States
    BY DEF Closing, States
  <1>2. a \in RunRow /\ b \in RunRow
    BY <1>1, ClosedType
  <1>3. /\ a.state = s /\ a.attempt = row.attempt /\ a.gen = row.gen
        /\ a.retries = row.retries /\ a.ckpt = row.ckpt
        /\ a.input = row.input /\ a.disposed = row.disposed
        /\ a.owner = None /\ b.owner = None
        /\ b.state = s /\ b.attempt = None /\ b.gen = row.gen
        /\ b.retries = row.retries /\ b.ckpt = row.ckpt
        /\ b.input = row.input /\ b.disposed = row.disposed
    BY DEF Closed, RunRow
  <1> HIDE DEF a, b
  <1>4. RowOK(a) /\ RowOK(b)
    BY <1>3 DEF RowOK, Closing, HasOutput, Claimed, Waiting, IsTerminal
  <1>5. QED
    BY <1>2, <1>3, <1>4 DEF Evolves, HasOutput, Closing, a, b

LEMMA RequeuedEvolves ==
    ASSUME NEW row \in RunRow, RowOK(row), NEW err \in ErrorCodes,
           NEW delay \in Ticks, row.retries < MaxRetries,
           Claimed(row.state), ~HasOutput(row),
           err = "adoption_ready" => row.ckpt # None
    PROVE  Evolves(row, Requeued(row, err, delay))
  <1> DEFINE a == Requeued(row, err, delay)
  <1>1. a \in RunRow
    BY RequeuedType
  <1>2. /\ a.state = "RetryScheduled" /\ a.attempt = None /\ a.gen = row.gen
        /\ a.owner = None /\ a.expiry = None /\ a.err = err
        /\ a.retries = row.retries + 1 /\ a.ckpt = row.ckpt
        /\ a.input = row.input /\ a.disposed = row.disposed
    BY DEF Requeued, RunRow
  <1>3. row.retries \in Nat /\ row.gen \in Nat
    BY RunRowsAssumption DEF RunRow
  <1> HIDE DEF a
  <1>4. RowOK(a)
    BY <1>2, <1>3 DEF RowOK, HasOutput, Claimed, Waiting, WellFormedClaim
  <1>5. QED
    BY <1>1, <1>2, <1>4 DEF Evolves, HasOutput, Claimed, a

LEMMA LeasedEvolves ==
    ASSUME NEW row \in RunRow, RowOK(row), NEW w \in Workers,
           NEW lag \in 0..MaxLag, Waiting(row.state)
    PROVE  Evolves(row, Leased(row, w, lag))
  <1> DEFINE a == Leased(row, w, lag)
  <1>1. a \in RunRow
    BY LeasedType
  <1>2. /\ a.state = "Leased" /\ a.attempt = row.gen + 1
        /\ a.gen = row.gen + 1 /\ a.owner = w /\ a.expiry = Ttl - lag
        /\ a.retries = row.retries
        /\ a.ckpt = row.ckpt \/ a.ckpt = None
        /\ a.input = row.input /\ a.disposed = row.disposed
    BY DEF Leased, RunRow
  <1>3. /\ row.retries \in Nat /\ row.gen \in Nat
        /\ w # None /\ Ttl - lag # None
    BY RunRowsAssumption, RunNoneAssumption, TicksFacts DEF RunRow
  <1> HIDE DEF a
  <1>4. RowOK(a) /\ ~HasOutput(row)
    BY <1>2, <1>3 DEF RowOK, HasOutput, Claimed, Waiting, WellFormedClaim
  <1>5. QED
    BY <1>1, <1>2, <1>4 DEF Evolves, HasOutput, Waiting, a

LEMMA RecoveredEvolves ==
    ASSUME NEW row \in RunRow, RowOK(row), NEW lag \in 0..MaxLag,
           Claimed(row.state)
    PROVE  Evolves(row, Recovered(row, lag))
  <1> DEFINE kind == IF row.ckpt = None THEN "none" ELSE row.ckpt.kind
             Left(s, err) == [Closed(row, s, err) EXCEPT !.attempt = None]
             retry == row.retries < MaxRetries
  <1>1. /\ row.state # "Absent" /\ ~IsTerminal(row.state)
        /\ row.disposed = "no"
        /\ row.state = "Leased" => ~HasOutput(row)
    BY DEF RowOK, Claimed, IsTerminal
  <1>2. kind = "output" <=> HasOutput(row)
    BY DEF HasOutput
  <1>3. CASE row.state = "Leased" /\ retry
    <2>1. Recovered(row, lag) = Requeued(row, "other", 0 - lag)
      BY <1>3 DEF Recovered
    <2>2. QED
      BY <1>1, <1>3, <2>1, RequeuedEvolves, TicksFacts DEF ErrorCodes
  <1>4. CASE row.state = "Leased" /\ ~retry
    <2>1. Recovered(row, lag) = Left("Failed", "other")
      BY <1>4 DEF Recovered
    <2>2. Evolves(row, Left("Failed", "other"))
      BY <1>1, <1>4, ClosedEvolves DEF Closing, ErrorCodes
    <2>3. QED
      BY <2>1, <2>2
  <1>5. CASE row.state # "Leased" /\ kind = "output"
    <2>1. Recovered(row, lag) = Left("Completed", "none")
      BY <1>5 DEF Recovered
    <2>2. Evolves(row, Left("Completed", "none"))
      BY <1>1, <1>2, <1>5, ClosedEvolves DEF Closing, ErrorCodes
    <2>3. QED
      BY <2>1, <2>2
  <1>6. CASE row.state # "Leased" /\ kind = "batch" /\ retry
    <2>1. Recovered(row, lag) = Requeued(row, "adoption_ready", 0 - lag)
      BY <1>6 DEF Recovered
    <2>2. ~HasOutput(row) /\ row.ckpt # None
      BY <1>2, <1>6
    <2>3. QED
      BY <1>6, <2>1, <2>2, RequeuedEvolves, TicksFacts DEF ErrorCodes
  <1>7. CASE /\ row.state # "Leased" /\ kind # "output"
             /\ ~(kind = "batch" /\ retry)
    <2>1. Recovered(row, lag) = Left("RecoveryRequired", "other")
      BY <1>7 DEF Recovered
    <2>2. Evolves(row, Left("RecoveryRequired", "other"))
      BY <1>1, <1>2, <1>7, ClosedEvolves DEF Closing, ErrorCodes
    <2>3. QED
      BY <2>1, <2>2
  <1>8. QED
    BY <1>3, <1>4, <1>5, <1>6, <1>7

-----------------------------------------------------------------------------
LEMMA EvolvesRefl ==
    ASSUME NEW row \in RunRow, RowOK(row)
    PROVE  Evolves(row, row)
  BY DEF Evolves

(* A step in which every row evolves keeps the invariants over rows.       *)
LEMMA RowsEvolve ==
    ASSUME Inv, answers' = answers,
           run' = [r \in Runs |-> run'[r]],
           \A r \in Runs : Evolves(run[r], run'[r])
    PROVE  run' \in [Runs -> RunRow] /\ Rows' /\ Answers' /\ Inputs'
  <1>1. run' \in [Runs -> RunRow] /\ Rows'
    BY DEF Rows, Evolves
  <1>2. Answers'
    BY DEF Inv, Answers, Evolves
  <1>3. Inputs'
    BY DEF Inv, Inputs, Evolves
  <1>4. QED
    BY <1>1, <1>2, <1>3

LEMMA OneRowEvolves ==
    ASSUME Inv, NEW r \in Runs, NEW row, Evolves(run[r], row),
           run' = [run EXCEPT ![r] = row], answers' = answers
    PROVE  run' \in [Runs -> RunRow] /\ Rows' /\ Answers' /\ Inputs'
  <1>1. run \in [Runs -> RunRow] /\ Rows
    BY DEF Inv, TypeOK
  <1>2. run' = [q \in Runs |-> run'[q]]
    BY <1>1
  <1>3. \A q \in Runs : run'[q] = IF q = r THEN row ELSE run[q]
    BY <1>1
  <1>4. \A q \in Runs : Evolves(run[q], run'[q])
    BY <1>1, <1>3, EvolvesRefl DEF Rows
  <1>5. QED
    BY <1>2, <1>4, RowsEvolve

(* A worker that renews its lease over an evolved row.                     *)
LEMMA Renewal ==
    ASSUME Inv, NEW w \in Workers, NEW r \in Runs, NEW row,
           Evolves(run[r], row), row.attempt \in Nat, row.state \in States,
           NEW p \in Phases, NEW turns \in Nat,
           p = "answered" <=> HasOutput(row),
           run' = [run EXCEPT ![r] = row],
           held' = [held EXCEPT ![w] =
                      [lease |-> LeaseFromRecord(r, row), phase |-> p,
                       turns |-> turns]],
           UNCHANGED <<resv, outcomes, events, answers, session>>
    PROVE  Inv'
  <1>1. run' \in [Runs -> RunRow] /\ Rows' /\ Answers' /\ Inputs'
    BY OneRowEvolves
  <1> DEFINE l == LeaseFromRecord(r, row)
             h == [lease |-> l, phase |-> p, turns |-> turns]
  <1>2. l \in AiRunLease /\ l.ckpt = row.ckpt
    BY DEF Evolves, RunRow, AiRunLease, LeaseFromRecord
  <1>3. HasOutput(l) <=> HasOutput(row)
    BY <1>2 DEF HasOutput
  <1> HIDE DEF l
  <1>4. h \in Held /\ h.phase = p /\ h.lease = l
    BY <1>2 DEF Held
  <1> HIDE DEF h
  <1>5. held' = [held EXCEPT ![w] = h]
    BY DEF h, l
  <1>6. held' \in [Workers -> Held \cup {None}]
    BY <1>4, <1>5 DEF Inv, TypeOK
  <1>7. Leases'
    BY <1>3, <1>4, <1>5 DEF Inv, TypeOK, Leases
  <1>8. TypeOK'
    BY <1>1, <1>6 DEF Inv, TypeOK
  <1>9. QED
    BY <1>1, <1>7, <1>8 DEF Inv

(* What a worker that passes the fence knows of the row.                   *)
LEMMA FencedFacts ==
    ASSUME Inv, NEW w \in Workers, NEW lag \in 0..MaxLag, Fenced(w, lag)
    PROVE  LET h == held[w]
               row == run[held[w].lease.run]
           IN  /\ h \in Held /\ h.lease \in AiRunLease
               /\ h.lease.run \in Runs
               /\ row \in RunRow /\ RowOK(row)
               /\ row.attempt \in Nat /\ row.attempt # None
               /\ row.attempt = h.lease.attempt
               /\ row.state = h.lease.state /\ row.state \in States
               /\ row.retries = h.lease.retries
               /\ row.gen = h.lease.gen
               /\ row.ckpt = h.lease.ckpt
               /\ Claimed(row.state)
               /\ h.phase = "answered" <=> HasOutput(row)
  <1> DEFINE h == held[w]
             row == run[held[w].lease.run]
  <1>1. h \in Held /\ h.lease \in AiRunLease /\ h.lease.run \in Runs
    BY DEF Inv, TypeOK, Fenced, LeaseHolds, Held, AiRunLease
  <1>2. row \in RunRow /\ RowOK(row)
    BY <1>1 DEF Inv, TypeOK, Rows
  <1>3. LeaseFromRecord(h.lease.run, row) = h.lease /\ row.owner = w
    BY DEF Fenced, LeaseHolds
  <1>4. /\ row.attempt = h.lease.attempt /\ row.state = h.lease.state
        /\ row.retries = h.lease.retries /\ row.ckpt = h.lease.ckpt
        /\ row.gen = h.lease.gen
    BY <1>3 DEF LeaseFromRecord
  <1>5. row.attempt \in Nat /\ row.state \in States /\ row.attempt # None
    BY <1>1, <1>4, RunNoneAssumption DEF AiRunLease
  <1>6. Claimed(row.state)
    BY <1>2, <1>3, RunNoneAssumption DEF RowOK
  <1>7. h.phase = "answered" <=> HasOutput(row)
    BY <1>4 DEF Inv, Leases, Fenced, LeaseHolds, HasOutput
  <1>8. QED
    BY <1>1, <1>2, <1>4, <1>5, <1>6, <1>7

(* Renewals of a live row: heartbeat, start, and a checkpoint's pointer.   *)
LEMMA TouchedEvolves ==
    ASSUME NEW row \in RunRow, RowOK(row), Claimed(row.state),
           NEW e \in Ticks
    PROVE  Evolves(row, [row EXCEPT !.expiry = e])
  <1> DEFINE a == [row EXCEPT !.expiry = e]
  <1>1. /\ a \in RunRow /\ a.state = row.state /\ a.attempt = row.attempt
        /\ a.gen = row.gen /\ a.owner = row.owner /\ a.expiry = e
        /\ a.retries = row.retries /\ a.ckpt = row.ckpt
        /\ a.input = row.input /\ a.disposed = row.disposed
    BY DEF RunRow
  <1>2. e # None
    BY RunRowsAssumption, RunNoneAssumption DEF Ticks
  <1> HIDE DEF a
  <1>3. RowOK(a)
    BY <1>1, <1>2 DEF RowOK, HasOutput, Claimed, Waiting
  <1>4. QED
    BY <1>1, <1>3 DEF Evolves, HasOutput, a

LEMMA StartedEvolves ==
    ASSUME NEW row \in RunRow, RowOK(row), row.state = "Leased",
           NEW e \in Ticks
    PROVE  Evolves(row, [row EXCEPT !.state = "Running", !.expiry = e])
  <1> DEFINE a == [row EXCEPT !.state = "Running", !.expiry = e]
  <1>1. /\ a \in RunRow /\ a.state = "Running" /\ a.attempt = row.attempt
        /\ a.gen = row.gen /\ a.owner = row.owner /\ a.expiry = e
        /\ a.retries = row.retries /\ a.ckpt = row.ckpt
        /\ a.input = row.input /\ a.disposed = row.disposed
    BY DEF RunRow, States
  <1>2. e # None
    BY RunRowsAssumption, RunNoneAssumption DEF Ticks
  <1> HIDE DEF a
  <1>3. RowOK(a)
    BY <1>1, <1>2 DEF RowOK, HasOutput, Claimed, Waiting
  <1>4. QED
    BY <1>1, <1>3 DEF Evolves, HasOutput, a

Pointed(row, c, e) == [row EXCEPT !.ckpt = c, !.expiry = e]

LEMMA PointedEvolves ==
    ASSUME NEW row \in RunRow, RowOK(row), row.state = "Running",
           NEW e \in Ticks, NEW c \in Checkpoint \cup {None}
    PROVE  /\ Pointed(row, c, e) \in RunRow
           /\ RowOK(Pointed(row, c, e))
           /\ Pointed(row, c, e).input = row.input
           /\ Pointed(row, c, e).disposed = row.disposed
           /\ Pointed(row, c, e).attempt = row.attempt
           /\ Pointed(row, c, e).state = "Running"
           /\ Pointed(row, c, e).ckpt = c
           /\ Pointed(row, c, e).gen = row.gen
  <1> DEFINE a == Pointed(row, c, e)
  <1>1. /\ a \in RunRow /\ a.state = "Running" /\ a.attempt = row.attempt
        /\ a.gen = row.gen /\ a.owner = row.owner /\ a.expiry = e
        /\ a.retries = row.retries /\ a.ckpt = c
        /\ a.input = row.input /\ a.disposed = row.disposed
    BY DEF RunRow, Pointed
  <1>2. e # None
    BY RunRowsAssumption, RunNoneAssumption DEF Ticks
  <1>3. row.disposed = "no"
    BY DEF RowOK
  <1> HIDE DEF a
  <1>4. RowOK(a)
    BY <1>1, <1>2, <1>3 DEF RowOK, HasOutput, Claimed, Waiting
  <1>5. QED
    BY <1>1, <1>4 DEF a

-----------------------------------------------------------------------------
(* The operations that renew a lease keep the invariant.                   *)
LEMMA ClaimStep ==
    ASSUME Inv, NEW w \in Workers, NEW r \in Runs, NEW lag \in 0..MaxLag,
           Claim(w, r, lag)
    PROVE  Inv'
  <1> DEFINE row == Leased(run[r], w, lag)
  <1>1. run[r] \in RunRow /\ RowOK(run[r])
    BY DEF Inv, TypeOK, Rows
  <1>2. Waiting(run[r].state)
    BY DEF Claim, Claimable, Oldest, Waiting
  <1>3. Evolves(run[r], row)
    BY <1>1, <1>2, LeasedEvolves
  <1>4. row.attempt \in Nat /\ row.state = "Leased"
    BY <1>1 DEF Leased, RunRow
  <1>5. ~HasOutput(row)
    BY <1>1, <1>2, <1>3 DEF Evolves, RowOK, Waiting
  <1>6. /\ run' = [run EXCEPT ![r] = row]
        /\ held' = [held EXCEPT ![w] =
              [lease |-> LeaseFromRecord(r, row), phase |-> "claimed",
               turns |-> 0]]
        /\ UNCHANGED <<resv, outcomes, events, answers, session>>
    BY DEF Claim, Renew
  <1> HIDE DEF row
  <1>7. QED
    BY <1>3, <1>4, <1>5, <1>6, Renewal DEF Phases, States

LEMMA StartStep ==
    ASSUME Inv, NEW w \in Workers, Start(w)
    PROVE  Inv'
  <1> DEFINE r == held[w].lease.run
             row == [run[r] EXCEPT !.state = "Running", !.expiry = Ttl]
             p == IF row.ckpt = None THEN "ready" ELSE "adopting"
             turns == IF row.ckpt = None THEN 0 ELSE row.ckpt.turns
  <1>1. Fenced(w, 0) /\ 0 \in 0..MaxLag
    BY RunRowsAssumption DEF Start
  <1>2. /\ r \in Runs /\ run[r] \in RunRow /\ RowOK(run[r])
        /\ run[r].attempt \in Nat
    BY <1>1, FencedFacts
  <1>3. run[r].state = "Leased" /\ Ttl \in Ticks
    BY <1>1, TicksFacts DEF Start
  <1>4. Evolves(run[r], row)
    BY <1>2, <1>3, StartedEvolves
  <1>5. row.attempt \in Nat /\ row.state = "Running" /\ row \in RunRow
    BY <1>2, <1>4 DEF RunRow, Evolves
  <1>6. ~HasOutput(row)
    BY <1>2, <1>3, <1>4 DEF Evolves, RowOK
  <1>7. p \in Phases /\ p # "answered" /\ turns \in Nat
    BY <1>5 DEF Phases, RunRow, Checkpoint
  <1>8. /\ run' = [run EXCEPT ![r] = row]
        /\ held' = [held EXCEPT ![w] =
              [lease |-> LeaseFromRecord(r, row), phase |-> p,
               turns |-> turns]]
        /\ UNCHANGED <<resv, outcomes, events, answers, session>>
    BY DEF Start, Renew
  <1> HIDE DEF r, row, p, turns
  <1>9. QED
    BY <1>2, <1>4, <1>5, <1>6, <1>7, <1>8, Renewal DEF States

LEMMA HeartbeatStep ==
    ASSUME Inv, NEW w \in Workers, Heartbeat(w)
    PROVE  Inv'
  <1> DEFINE r == held[w].lease.run
             row == [run[r] EXCEPT !.expiry = Ttl]
             p == held[w].phase
             turns == held[w].turns
  <1>1. Fenced(w, 0) /\ 0 \in 0..MaxLag
    BY RunRowsAssumption DEF Heartbeat
  <1>2. /\ r \in Runs /\ run[r] \in RunRow /\ RowOK(run[r])
        /\ run[r].attempt \in Nat /\ run[r].state \in States
        /\ Claimed(run[r].state) /\ held[w] \in Held
        /\ p = "answered" <=> HasOutput(run[r])
    BY <1>1, FencedFacts
  <1>3. Evolves(run[r], row)
    BY <1>1, <1>2, TicksFacts, TouchedEvolves
  <1>4. row.attempt \in Nat /\ row.state \in States
    BY <1>2 DEF RunRow
  <1>5. p = "answered" <=> HasOutput(row)
    BY <1>2, <1>3 DEF Evolves
  <1>6. p \in Phases /\ turns \in Nat
    BY <1>2 DEF Held
  <1>7. /\ run' = [run EXCEPT ![r] = row]
        /\ held' = [held EXCEPT ![w] =
              [lease |-> LeaseFromRecord(r, row), phase |-> p,
               turns |-> turns]]
        /\ UNCHANGED <<resv, outcomes, events, answers, session>>
    BY DEF Heartbeat, Renew
  <1> HIDE DEF r, row, p, turns
  <1>8. QED
    BY <1>2, <1>3, <1>4, <1>5, <1>6, <1>7, Renewal

LEMMA CheckpointStep ==
    ASSUME Inv, NEW w \in Workers, NEW lag \in 0..MaxLag,
           NEW kind \in {"turn", "batch"}, NEW p \in {"turned", "batched"},
           held[w].phase # "answered",
           AppendCoordinatorCheckpoint(w, kind, p, lag)
    PROVE  Inv'
  <1> DEFINE r == held[w].lease.run
             c == CheckpointOf(w, kind)
             row == Pointed(run[r], c, Ttl - lag)
             turns == held[w].turns
  <1>1. Fenced(w, lag) /\ run[r].state = "Running"
    BY DEF AppendCoordinatorCheckpoint
  <1>2. /\ r \in Runs /\ run[r] \in RunRow /\ RowOK(run[r])
        /\ run[r].attempt \in Nat /\ held[w] \in Held
        /\ held[w].lease \in AiRunLease /\ ~HasOutput(run[r])
    BY <1>1, FencedFacts
  <1>3. c \in Checkpoint /\ c.kind = kind /\ turns \in Nat
    BY <1>2 DEF CheckpointOf, Checkpoint, Held, AiRunLease
  <1>4. /\ row \in RunRow /\ RowOK(row)
        /\ row.input = run[r].input /\ row.disposed = run[r].disposed
        /\ row.attempt = run[r].attempt /\ row.state = "Running"
        /\ row.ckpt = c
    <2>1. Ttl - lag \in Ticks
      BY TicksFacts
    <2> HIDE DEF r, c
    <2>2. QED
      BY <1>1, <1>2, <1>3, <2>1, PointedEvolves
  <1>5. /\ run' = [run EXCEPT ![r] = row]
        /\ held' = [held EXCEPT ![w] =
              [lease |-> LeaseFromRecord(r, row), phase |-> p,
               turns |-> turns]]
        /\ UNCHANGED <<resv, outcomes, events, answers, session>>
    BY DEF AppendCoordinatorCheckpoint, Renew, Pointed
  <1> HIDE DEF r, c, row, turns
  <1>6. Evolves(run[r], row) /\ ~HasOutput(row)
    BY <1>1, <1>2, <1>3, <1>4 DEF Evolves, HasOutput
  <1>7. QED
    BY <1>2, <1>3, <1>4, <1>5, <1>6, Renewal DEF States, Phases

LEMMA ConsumeStep ==
    ASSUME Inv, NEW w \in Workers, NEW lag \in 0..MaxLag,
           ConsumeAdoptionCheckpoint(w, lag)
    PROVE  Inv'
  <1> DEFINE r == held[w].lease.run
             row == Pointed(run[r], None, Ttl - lag)
             turns == held[w].turns
  <1>1. /\ Fenced(w, lag) /\ run[r].state = "Running"
        /\ run[r].ckpt.kind = "batch"
    BY DEF ConsumeAdoptionCheckpoint
  <1>2. /\ r \in Runs /\ run[r] \in RunRow /\ RowOK(run[r])
        /\ run[r].attempt \in Nat /\ held[w] \in Held
    BY <1>1, FencedFacts
  <1>3. turns \in Nat
    BY <1>2 DEF Held
  <1>4. /\ row \in RunRow /\ RowOK(row)
        /\ row.input = run[r].input /\ row.disposed = run[r].disposed
        /\ row.attempt = run[r].attempt /\ row.state = "Running"
        /\ row.ckpt = None
    BY <1>1, <1>2, TicksFacts, PointedEvolves
  <1>5. /\ run' = [run EXCEPT ![r] = row]
        /\ held' = [held EXCEPT ![w] =
              [lease |-> LeaseFromRecord(r, row), phase |-> "ready",
               turns |-> turns]]
        /\ UNCHANGED <<resv, outcomes, events, answers, session>>
    BY DEF ConsumeAdoptionCheckpoint, Renew, Pointed
  <1>6. ~HasOutput(run[r])
    BY <1>1 DEF HasOutput
  <1> HIDE DEF r, row, turns
  <1>7. Evolves(run[r], row) /\ ~HasOutput(row)
    BY <1>1, <1>2, <1>4, <1>6 DEF Evolves, HasOutput
  <1>8. QED
    BY <1>2, <1>3, <1>4, <1>5, <1>7, Renewal DEF States, Phases

(* The answer: the one step in which a row gains an output.                *)
LEMMA AppendStep ==
    ASSUME Inv, NEW w \in Workers, NEW lag \in 0..MaxLag,
           AppendProviderOutput(w, lag)
    PROVE  Inv'
  <1> DEFINE r == held[w].lease.run
             c == CheckpointOf(w, "output")
             row == Pointed(run[r], c, Ttl - lag)
             l == LeaseFromRecord(r, row)
             h == [lease |-> l, phase |-> "answered", turns |-> held[w].turns]
  <1>1. Fenced(w, lag) /\ run[r].state = "Running"
    BY DEF AppendProviderOutput
  <1>2. /\ r \in Runs /\ run[r] \in RunRow /\ RowOK(run[r])
        /\ run[r].attempt \in Nat /\ held[w] \in Held
        /\ held[w].lease \in AiRunLease
        /\ held[w].phase = "answered" <=> HasOutput(run[r])
    BY <1>1, FencedFacts
  <1>3. ~HasOutput(run[r])
    BY <1>2 DEF AppendProviderOutput
  <1>4. c \in Checkpoint /\ c.kind = "output" /\ held[w].turns \in Nat
    BY <1>2 DEF CheckpointOf, Checkpoint, Held, AiRunLease
  <1>5. /\ row \in RunRow /\ RowOK(row)
        /\ row.input = run[r].input /\ row.disposed = run[r].disposed
        /\ row.attempt = run[r].attempt /\ row.state = "Running"
        /\ row.ckpt = c
    <2>1. Ttl - lag \in Ticks /\ c \in Checkpoint \cup {None}
      BY <1>4, TicksFacts
    <2> HIDE DEF r, c
    <2>2. QED
      BY <1>1, <1>2, <2>1, PointedEvolves
  <1>6. l \in AiRunLease /\ l.ckpt = c
    BY <1>2, <1>5 DEF RunRow, AiRunLease, LeaseFromRecord, States
  <1>7. c # None
    BY <1>4, CheckpointAssumption
  <1>8. HasOutput(l) /\ HasOutput(row)
    BY <1>4, <1>5, <1>6, <1>7 DEF HasOutput
  <1>9. /\ run' = [run EXCEPT ![r] = row]
        /\ held' = [held EXCEPT ![w] = h]
        /\ answers' = [answers EXCEPT ![r] = @ + 1]
        /\ UNCHANGED <<resv, outcomes, events, session>>
    BY DEF AppendProviderOutput, Renew, Pointed
  <1> HIDE DEF c, row, l
  <1>10. h \in Held /\ h.phase = "answered" /\ h.lease = l
    BY <1>4, <1>6 DEF Held, Phases
  <1> HIDE DEF r, h
  <1>11. run' \in [Runs -> RunRow] /\ Rows'
    BY <1>2, <1>5, <1>9 DEF Inv, TypeOK, Rows
  <1>12. answers[r] = 0 /\ answers \in [Runs -> Nat]
    BY <1>2, <1>3 DEF Inv, Answers, TypeOK
  <1>13. answers' \in [Runs -> Nat] /\ answers'[r] = 1
    BY <1>2, <1>9, <1>12
  <1>14. Answers'
    BY <1>2, <1>8, <1>9, <1>13 DEF Inv, Answers, TypeOK
  <1>15. Inputs'
    BY <1>1, <1>2, <1>5, <1>9 DEF Inv, Inputs, TypeOK
  <1>16. held' \in [Workers -> Held \cup {None}] /\ Leases'
    BY <1>8, <1>9, <1>10 DEF Inv, TypeOK, Leases
  <1>17. TypeOK'
    BY <1>9, <1>11, <1>13, <1>16 DEF Inv, TypeOK
  <1>18. QED
    BY <1>11, <1>14, <1>15, <1>16, <1>17 DEF Inv

-----------------------------------------------------------------------------
(* Steps that write no row.                                                *)
LEMMA QuietStep ==
    ASSUME Inv, UNCHANGED <<run, outcomes, events, answers>>,
           session' \in {"active", "archived", "deleting"},
           resv' \in [Runs -> SUBSET Reservation],
           held' \in [Workers -> Held \cup {None}], Leases'
    PROVE  Inv'
  BY DEF Inv, TypeOK, Rows, Answers, Inputs

LEMMA PhaseChange ==
    ASSUME Inv, NEW w \in Workers, held[w] # None,
           held[w].phase # "answered",
           NEW p \in Phases \ {"answered"}, NEW turns \in Nat,
           held' = [held EXCEPT ![w].phase = p, ![w].turns = turns]
    PROVE  held' \in [Workers -> Held \cup {None}] /\ Leases'
  <1> DEFINE h == [held[w] EXCEPT !.phase = p, !.turns = turns]
  <1>1. held[w] \in Held
    BY DEF Inv, TypeOK
  <1>2. h \in Held /\ h.lease = held[w].lease /\ h.phase = p
    BY <1>1 DEF Held
  <1>3. held' = [held EXCEPT ![w] = h]
    BY <1>1 DEF Inv, TypeOK, Held
  <1> HIDE DEF h
  <1>4. held' \in [Workers -> Held \cup {None}]
    BY <1>2, <1>3 DEF Inv, TypeOK
  <1>5. Leases'
    BY <1>2, <1>3 DEF Inv, TypeOK, Leases
  <1>6. QED
    BY <1>4, <1>5

LEMMA ReserveStep ==
    ASSUME Inv, NEW w \in Workers, NEW lag \in 0..MaxLag, Reserve(w, lag)
    PROVE  Inv'
  <1> DEFINE v == [gen |-> held[w].lease.gen, turn |-> held[w].turns + 1,
                   state |-> "reserved"]
  <1>1. held[w] \in Held /\ held[w] # None
    BY DEF Inv, TypeOK, Reserve, BudgetFenced
  <1>2. /\ held[w].lease.run \in Runs /\ held[w].turns \in Nat
        /\ v \in Reservation
    BY <1>1 DEF Held, AiRunLease, Reservation
  <1>3. resv' = [resv EXCEPT ![held[w].lease.run] = @ \cup {v}]
    BY DEF Reserve
  <1> HIDE DEF v
  <1>4. resv' \in [Runs -> SUBSET Reservation]
    BY <1>2, <1>3 DEF Inv, TypeOK
  <1>5. /\ held' = [held EXCEPT ![w].phase = "reserved"]
        /\ held[w].phase = "ready"
    BY DEF Reserve
  <1>6. held' = [held EXCEPT ![w].phase = "reserved",
                             ![w].turns = held[w].turns]
    BY <1>1, <1>5 DEF Inv, TypeOK, Held
  <1>7. held' \in [Workers -> Held \cup {None}] /\ Leases'
    BY <1>1, <1>2, <1>5, <1>6, PhaseChange DEF Phases
  <1>8. /\ UNCHANGED <<run, outcomes, events, answers>>
        /\ session' \in {"active", "archived", "deleting"}
    BY DEF Reserve, Inv, TypeOK
  <1>9. QED
    BY <1>4, <1>7, <1>8, QuietStep

LEMMA ReconcileStep ==
    ASSUME Inv, NEW w \in Workers, NEW lag \in 0..MaxLag,
           NEW from, NEW to \in {"uncertain", "committed", "released"},
           NEW p \in Phases \ {"answered"}, NEW turns \in Nat,
           held[w].phase # "answered",
           Reconcile(w, lag, from, to, p, turns)
    PROVE  Inv'
  <1> DEFINE r == held[w].lease.run
             mine == {v \in resv[r] : /\ v.gen = held[w].lease.gen
                                      /\ v.turn = held[w].turns + 1
                                      /\ v.state = from}
             moved == {[v EXCEPT !.state = to] : v \in mine}
  <1>1. held[w] \in Held /\ held[w] # None
    BY DEF Inv, TypeOK, Reconcile, BudgetFenced
  <1>2. r \in Runs
    BY <1>1 DEF Held, AiRunLease
  <1>3. mine \subseteq Reservation
    BY <1>2 DEF Inv, TypeOK
  <1>4. \A v \in Reservation : [v EXCEPT !.state = to] \in Reservation
    BY DEF Reservation
  <1>5. moved \subseteq Reservation
    BY <1>3, <1>4
  <1>6. resv' = [resv EXCEPT ![r] = (@ \ mine) \cup moved]
    BY DEF Reconcile
  <1> HIDE DEF r, mine, moved
  <1>7. resv' \in [Runs -> SUBSET Reservation]
    BY <1>2, <1>5, <1>6 DEF Inv, TypeOK
  <1>8. held' \in [Workers -> Held \cup {None}] /\ Leases'
    BY <1>1, PhaseChange DEF Reconcile
  <1>9. /\ UNCHANGED <<run, outcomes, events, answers>>
        /\ session' \in {"active", "archived", "deleting"}
    BY DEF Reconcile, Inv, TypeOK
  <1>10. QED
    BY <1>7, <1>8, <1>9, QuietStep

-----------------------------------------------------------------------------
(* Steps that end an attempt or close a run: the rows evolve, and the      *)
(* outcomes and events they append have their types.                       *)
Event == [state : Closing, admission : {"Allowed", "RefusedUncertain",
                                        "RefusedAlreadyAnswered", None}]
Events == Seq(Event)

(* An event that tells rightly of run r closed in state s with code err.   *)
Tells(e, r, s, err) ==
    /\ e \in Event
    /\ e.state = s
    /\ e.admission \in {None, Admission(r, s, err)}
    /\ s \in {"Failed", "RecoveryRequired"} =>
          e.admission = Admission(r, s, err)

LEMMA TerminalEventTells ==
    ASSUME NEW r \in Runs, NEW s \in Closing, NEW err
    PROVE  Tells(TerminalEvent(r, s, err), r, s, err)
  <1>1. Admission(r, s, err) \in {"Allowed", "RefusedUncertain",
                                  "RefusedAlreadyAnswered"}
    BY DEF Admission, ClassifyRunRetry, ProducedOutput, Closing
  <1>2. QED
    BY <1>1 DEF Tells, TerminalEvent, Event

LEMMA CancelledEventTells ==
    ASSUME NEW r \in Runs, NEW err
    PROVE  Tells(CancelledEvent, r, "Cancelled", err)
  BY DEF Tells, CancelledEvent, Event, Closing

LEMMA TerminalEventType ==
    ASSUME NEW r \in Runs, NEW s \in Closing, NEW err \in ErrorCodes,
           NEW stream \in Events
    PROVE  Append(stream, TerminalEvent(r, s, err)) \in Events
  <1> DEFINE e == TerminalEvent(r, s, err)
  <1>1. e \in Event
    BY TerminalEventTells DEF Tells
  <1> HIDE DEF e
  <1>2. Append(stream, e) \in Events
    BY <1>1 DEF Events
  <1>3. QED
    BY <1>2 DEF e

LEMMA ClosingStep ==
    ASSUME Inv, run' \in [Runs -> RunRow], Rows', Answers', Inputs',
           held' \in [Workers -> Held \cup {None}], Leases',
           outcomes' \subseteq [run : Runs, attempt : Nat, state : States],
           events' \in [Runs -> Events],
           UNCHANGED <<resv, answers, session>>
    PROVE  Inv'
  BY DEF Inv, TypeOK, Events, Event

(* The lease of a worker that returns is forgotten.                        *)
LEMMA LeaseDropped ==
    ASSUME Inv, NEW w \in Workers, held' = [held EXCEPT ![w] = None]
    PROVE  held' \in [Workers -> Held \cup {None}] /\ Leases'
  BY DEF Inv, TypeOK, Leases

LEMMA FinishStep ==
    ASSUME Inv, NEW w \in Workers, NEW lag \in 0..MaxLag,
           NEW s \in Closing, NEW err \in ErrorCodes, Finish(w, s, err, lag)
    PROVE  Inv'
  <1> DEFINE r == held[w].lease.run
             row == Closed(run[r], s, err)
             o == Outcome(r, s)
             e == TerminalEvent(r, s, err)
  <1>1. Fenced(w, lag) /\ <<s, err>> \in Conclusions(held[w].phase)
    BY DEF Finish
  <1>2. /\ r \in Runs /\ run[r] \in RunRow /\ RowOK(run[r])
        /\ run[r].attempt \in Nat /\ held[w] \in Held
        /\ Claimed(run[r].state)
        /\ held[w].phase = "answered" <=> HasOutput(run[r])
    BY <1>1, FencedFacts
  <1>3. /\ s = "Completed" => HasOutput(run[r])
        /\ HasOutput(run[r]) => s \in {"Completed", "RecoveryRequired"}
    <2>1. held[w].phase \in Phases
      BY <1>2 DEF Held
    <2>2. s = "Completed" => held[w].phase = "answered"
      BY <1>1, <2>1 DEF Conclusions, Phases
    <2>3. held[w].phase = "answered" => s \in {"Completed", "RecoveryRequired"}
      BY <1>1 DEF Conclusions
    <2>4. QED
      BY <1>2, <2>2, <2>3
  <1>4. /\ run[r].state # "Absent" /\ ~IsTerminal(run[r].state)
        /\ run[r].disposed = "no"
    BY <1>2 DEF Claimed, IsTerminal, RowOK
  <1>5. Evolves(run[r], row)
    BY <1>2, <1>3, <1>4, ClosedEvolves
  <1>6. o \in [run : Runs, attempt : Nat, state : States]
    BY <1>2 DEF Outcome, Closing, States
  <1>7. events \in [Runs -> Events]
    BY DEF Inv, TypeOK, Events, Event
  <1>8. Append(events[r], e) \in Events
    BY <1>2, <1>7, TerminalEventType
  <1>9. /\ run' = [run EXCEPT ![r] = row]
        /\ outcomes' = outcomes \cup {o}
        /\ events' = [events EXCEPT ![r] = Append(events[r], e)]
        /\ held' = [held EXCEPT ![w] = None]
        /\ UNCHANGED <<resv, answers, session>>
    BY DEF Finish
  <1> HIDE DEF r, row, o, e
  <1>10. run' \in [Runs -> RunRow] /\ Rows' /\ Answers' /\ Inputs'
    BY <1>2, <1>5, <1>9, OneRowEvolves
  <1>11. events' \in [Runs -> Events]
    BY <1>2, <1>7, <1>8, <1>9
  <1>12. outcomes' \subseteq [run : Runs, attempt : Nat, state : States]
    BY <1>6, <1>9 DEF Inv, TypeOK
  <1>13. QED
    BY <1>9, <1>10, <1>11, <1>12, LeaseDropped, ClosingStep

LEMMA ScheduleRetryStep ==
    ASSUME Inv, NEW w \in Workers, NEW lag \in 0..MaxLag,
           ScheduleRetry(w, lag)
    PROVE  Inv'
  <1> DEFINE r == held[w].lease.run
             row == Requeued(run[r], "other", RetryDelay - lag)
             o == Outcome(r, "RetryScheduled")
  <1>1. /\ Fenced(w, lag) /\ held[w].phase # "answered"
        /\ held[w].lease.retries < MaxRetries
    BY DEF ScheduleRetry
  <1>2. /\ r \in Runs /\ run[r] \in RunRow /\ RowOK(run[r])
        /\ run[r].attempt \in Nat /\ Claimed(run[r].state)
        /\ ~HasOutput(run[r]) /\ run[r].retries < MaxRetries
    BY <1>1, FencedFacts
  <1>3. Evolves(run[r], row)
    BY <1>2, RequeuedEvolves, TicksFacts DEF ErrorCodes
  <1>4. o \in [run : Runs, attempt : Nat, state : States]
    BY <1>2 DEF Outcome, States
  <1>5. /\ run' = [run EXCEPT ![r] = row]
        /\ outcomes' = outcomes \cup {o}
        /\ held' = [held EXCEPT ![w] = None]
        /\ UNCHANGED <<resv, events, answers, session>>
    BY DEF ScheduleRetry
  <1> HIDE DEF r, row, o
  <1>6. run' \in [Runs -> RunRow] /\ Rows' /\ Answers' /\ Inputs'
    BY <1>2, <1>3, <1>5, OneRowEvolves
  <1>7. outcomes' \subseteq [run : Runs, attempt : Nat, state : States]
    BY <1>4, <1>5 DEF Inv, TypeOK
  <1>8. events' \in [Runs -> Events]
    BY <1>5 DEF Inv, TypeOK, Events, Event
  <1>9. QED
    BY <1>5, <1>6, <1>7, <1>8, LeaseDropped, ClosingStep

LEMMA CancelStep ==
    ASSUME Inv, NEW r \in Runs, RequestCancellation(r)
    PROVE  Inv'
  <1> DEFINE row == Closed(run[r], "Cancelled", "other")
             o == Outcome(r, "Cancelled")
             e == CancelledEvent
  <1>1. /\ run[r] \in RunRow /\ RowOK(run[r])
        /\ run[r].state # "Absent" /\ ~IsTerminal(run[r].state)
        /\ ~HasOutput(run[r])
    BY DEF Inv, TypeOK, Rows, RequestCancellation, HasOutput
  <1>2. Evolves(run[r], row)
    BY <1>1, ClosedEvolves DEF Closing, ErrorCodes
  <1>3. run[r].attempt # None =>
          o \in [run : Runs, attempt : Nat, state : States]
    BY <1>1 DEF Outcome, States, RunRow
  <1>4. events \in [Runs -> Events]
    BY DEF Inv, TypeOK, Events, Event
  <1>5. Append(events[r], e) \in Events
    <2>1. e \in Event
      BY CancelledEventTells DEF Tells
    <2> HIDE DEF e
    <2>2. QED
      BY <1>4, <2>1 DEF Events
  <1>6. /\ run' = [run EXCEPT ![r] = row]
        /\ outcomes' = IF run[r].attempt = None THEN outcomes
                       ELSE outcomes \cup {o}
        /\ events' = [events EXCEPT ![r] = Append(events[r], e)]
        /\ UNCHANGED <<held, resv, answers, session>>
    BY DEF RequestCancellation
  <1> HIDE DEF row, o, e
  <1>7. run' \in [Runs -> RunRow] /\ Rows' /\ Answers' /\ Inputs'
    BY <1>2, <1>6, OneRowEvolves
  <1>8. events' \in [Runs -> Events]
    BY <1>4, <1>5, <1>6
  <1>9. outcomes' \subseteq [run : Runs, attempt : Nat, state : States]
    BY <1>3, <1>6 DEF Inv, TypeOK
  <1>10. held' \in [Workers -> Held \cup {None}] /\ Leases'
    BY <1>6 DEF Inv, TypeOK, Leases
  <1>11. QED
    BY <1>6, <1>7, <1>8, <1>9, <1>10, ClosingStep

LEMMA RecoverStep ==
    ASSUME Inv, NEW lag \in 0..MaxLag, RecoverExpiredLeases(lag)
    PROVE  Inv'
  <1> DEFINE due == {r \in Oldest(Active, ScanLimit) :
                       run[r].expiry + lag <= 0}
             next(r) == Recovered(run[r], lag)
             new == {Outcome(r, next(r).state) : r \in due}
  <1>1. due \subseteq Runs /\ \A r \in due : Claimed(run[r].state)
    BY DEF Oldest, Active, Claimed
  <1>2. \A r \in Runs : run[r] \in RunRow /\ RowOK(run[r])
    BY DEF Inv, TypeOK, Rows
  <1>3. \A r \in due : Evolves(run[r], next(r))
    BY <1>1, <1>2, RecoveredEvolves
  <1>4. \A r \in due : /\ next(r).state \in States
                       /\ next(r).err \in ErrorCodes
    BY <1>1, <1>3 DEF Evolves, RunRow, Claimed
  <1>5. new \subseteq [run : Runs, attempt : Nat, state : States]
    <2>1. \A r \in due : run[r].attempt \in Nat
      BY <1>1, <1>2 DEF RowOK, RunRow
    <2>2. QED
      BY <1>1, <1>4, <2>1 DEF Outcome
  <1>6. events \in [Runs -> Events]
    BY DEF Inv, TypeOK, Events, Event
  <1>7. \A r \in due : next(r).state \in Closing =>
          Append(events[r], TerminalEvent(r, next(r).state, next(r).err))
            \in Events
    BY <1>1, <1>4, <1>6, TerminalEventType
  <1>8. /\ run' = [r \in Runs |-> IF r \in due THEN next(r) ELSE run[r]]
        /\ outcomes' = outcomes \cup new
        /\ events' = [r \in Runs |->
              IF r \in due /\ next(r).state \in Closing
              THEN Append(events[r],
                          TerminalEvent(r, next(r).state, next(r).err))
              ELSE events[r]]
        /\ UNCHANGED <<held, resv, answers, session>>
    BY DEF RecoverExpiredLeases
  <1> HIDE DEF due, next, new
  <1>9. \A r \in Runs : Evolves(run[r], run'[r])
    BY <1>2, <1>3, <1>8, EvolvesRefl
  <1>10. run' = [r \in Runs |-> run'[r]]
    BY <1>8
  <1>11. run' \in [Runs -> RunRow] /\ Rows' /\ Answers' /\ Inputs'
    BY <1>8, <1>9, <1>10, RowsEvolve
  <1>12. events' \in [Runs -> Events]
    BY <1>6, <1>7, <1>8
  <1>13. outcomes' \subseteq [run : Runs, attempt : Nat, state : States]
    BY <1>5, <1>8 DEF Inv, TypeOK
  <1>14. held' \in [Workers -> Held \cup {None}] /\ Leases'
    BY <1>8 DEF Inv, TypeOK, Leases
  <1>15. QED
    BY <1>8, <1>11, <1>12, <1>13, <1>14, ClosingStep

LEMMA TickStep ==
    ASSUME Inv, Tick
    PROVE  Inv'
  <1> DEFINE next(r) == [run[r] EXCEPT !.expiry = Sooner(@),
                                       !.eligible = Sooner(@)]
  <1>1. \A r \in Runs : run[r] \in RunRow /\ RowOK(run[r])
    BY DEF Inv, TypeOK, Rows
  <1>2. ASSUME NEW r \in Runs
        PROVE  Evolves(run[r], next(r))
    <2> DEFINE row == run[r]
               a == next(r)
    <2>1. row \in RunRow /\ RowOK(row)
      BY <1>1
    <2>2. row.expiry \in Ticks \cup {None} /\ row.eligible \in Ticks \cup {None}
      BY <2>1 DEF RunRow
    <2>3. /\ Sooner(row.expiry) \in Ticks \cup {None}
          /\ Sooner(row.eligible) \in Ticks \cup {None}
          /\ Sooner(row.expiry) = None <=> row.expiry = None
      BY <2>2, TicksFacts, RunRowsAssumption
    <2>4. /\ a \in RunRow /\ a.state = row.state /\ a.attempt = row.attempt
          /\ a.gen = row.gen /\ a.owner = row.owner
          /\ a.expiry = Sooner(row.expiry) /\ a.err = row.err
          /\ a.retries = row.retries /\ a.ckpt = row.ckpt
          /\ a.input = row.input /\ a.disposed = row.disposed
      BY <2>1, <2>3 DEF RunRow
    <2> HIDE DEF a, row
    <2>5. RowOK(a)
      BY <2>1, <2>3, <2>4
      DEF RowOK, HasOutput, Claimed, Waiting, WellFormedClaim
    <2>6. Evolves(row, a)
      BY <2>4, <2>5 DEF Evolves, HasOutput
    <2>7. QED
      BY <2>6 DEF row, a
  <1>3. /\ run' = [r \in Runs |-> next(r)]
        /\ UNCHANGED <<held, resv, outcomes, events, answers, session>>
    BY DEF Tick, RowLater
  <1> HIDE DEF next
  <1>4. run' = [r \in Runs |-> run'[r]]
        /\ \A r \in Runs : Evolves(run[r], run'[r])
    BY <1>2, <1>3
  <1>5. run' \in [Runs -> RunRow] /\ Rows' /\ Answers' /\ Inputs'
    BY <1>3, <1>4, RowsEvolve
  <1>6. /\ held' \in [Workers -> Held \cup {None}] /\ Leases'
        /\ outcomes' \subseteq [run : Runs, attempt : Nat, state : States]
        /\ events' \in [Runs -> Events]
    BY <1>3 DEF Inv, TypeOK, Leases, Events, Event
  <1>7. QED
    BY <1>3, <1>5, <1>6, ClosingStep

-----------------------------------------------------------------------------
(* The owner's steps.                                                      *)
LEMMA QueuedRunFacts ==
    ASSUME NEW m \in Nat
    PROVE  LET a == QueuedRun(m) IN
           /\ a \in RunRow /\ RowOK(a) /\ ~HasOutput(a)
           /\ a.state = "Queued" /\ a.input = m /\ a.disposed = "no"
  <1> DEFINE a == QueuedRun(m)
  <1>1. a \in RunRow
    BY QueuedRunType
  <1>2. /\ a.state = "Queued" /\ a.attempt = None /\ a.owner = None
        /\ a.gen = 0 /\ a.expiry = None /\ a.retries = 0 /\ a.err = "none"
        /\ a.ckpt = None /\ a.input = m /\ a.disposed = "no"
    BY DEF QueuedRun, Absent
  <1> HIDE DEF a
  <1>3. RowOK(a) /\ ~HasOutput(a)
    BY <1>2 DEF RowOK, HasOutput, Claimed, Waiting, WellFormedClaim
  <1>4. QED
    BY <1>1, <1>2, <1>3 DEF a

(* A fresh run is younger than every run there is, and has no answer.      *)
LEMMA FreshFacts ==
    ASSUME Inv, NEW q \in Runs, Fresh(q)
    PROVE  /\ \A r \in Runs : run[r].state # "Absent" => r < q
           /\ answers[q] = 0
  <1>1. \A r \in Runs : run[r].state # "Absent" => r < q
    <2>1. run[q].state = "Absent"
      BY DEF Fresh
    <2>2. \A r \in Runs : q < r => run[r].state = "Absent"
      BY <2>1 DEF Inv, Inputs
    <2>3. QED
      BY <2>1, <2>2, RunRowsAssumption DEF Runs
  <1>2. ~HasOutput(run[q])
    BY DEF Inv, Rows, RowOK, Fresh
  <1>3. QED
    BY <1>1, <1>2 DEF Inv, Answers

LEMMA SendMessageStep ==
    ASSUME Inv, NEW r \in Runs, SendMessage(r)
    PROVE  Inv'
  <1> DEFINE row == QueuedRun(r)
  <1>1. r \in Nat
    BY RunRowsAssumption DEF Runs
  <1>2. /\ row \in RunRow /\ RowOK(row) /\ ~HasOutput(row)
        /\ row.state = "Queued" /\ row.input = r /\ row.disposed = "no"
    BY <1>1, QueuedRunFacts
  <1>3. /\ run' = [run EXCEPT ![r] = row] /\ Fresh(r)
        /\ UNCHANGED <<held, resv, outcomes, events, answers, session>>
    BY DEF SendMessage
  <1> HIDE DEF row
  <1>4. /\ run \in [Runs -> RunRow]
        /\ \A q \in Runs : run[q].state # "Absent" => q < r
        /\ answers[r] = 0
    BY <1>3, FreshFacts DEF Inv, TypeOK
  <1>5. /\ run' \in [Runs -> RunRow]
        /\ \A q \in Runs : run'[q] = IF q = r THEN row ELSE run[q]
    BY <1>2, <1>3, <1>4
  <1>6. Rows'
    BY <1>2, <1>5 DEF Inv, Rows
  <1>7. Answers'
    BY <1>2, <1>3, <1>4, <1>5 DEF Inv, Answers
  <1>8. Inputs'
    <2>1. \A q \in Runs : run'[q].state # "Absent" => run'[q].input \in 1..q
      BY <1>1, <1>2, <1>5 DEF Inv, Inputs, Runs
    <2>2. \A p, q \in Runs : p < q /\ run'[q].state # "Absent" =>
            run'[p].state # "Absent"
      BY <1>2, <1>3, <1>5 DEF Inv, Inputs, Fresh
    <2>3. \A q \in Runs \ {r} : run[q].state # "Absent" => run[q].input # r
      BY <1>1, <1>4 DEF Inv, Inputs, Runs
    <2>4. \A p, q \in Runs :
            (/\ p # q /\ run'[p].input = run'[q].input
             /\ run'[p].state # "Absent" /\ run'[q].state # "Absent") =>
            run'[p].disposed = "retried" \/ run'[q].disposed = "retried"
      BY <1>2, <1>5, <2>3 DEF Inv, Inputs
    <2>5. QED
      BY <2>1, <2>2, <2>4 DEF Inputs
  <1>9. /\ held' \in [Workers -> Held \cup {None}] /\ Leases'
        /\ outcomes' \subseteq [run : Runs, attempt : Nat, state : States]
        /\ events' \in [Runs -> Events]
    BY <1>3 DEF Inv, TypeOK, Leases, Events, Event
  <1>10. QED
    BY <1>3, <1>5, <1>6, <1>7, <1>8, <1>9, ClosingStep

(* What an owner may dispose of, and what its disposition leaves.          *)
LEMMA DisposedFacts ==
    ASSUME NEW row \in RunRow, RowOK(row),
           row.state \in {"Failed", "Cancelled", "RecoveryRequired"},
           NEW d \in {"acknowledged", "retried"},
           d = "retried" => ~HasOutput(row)
    PROVE  LET a == [row EXCEPT !.disposed = d] IN
           /\ a \in RunRow /\ RowOK(a) /\ a.state = row.state
           /\ a.input = row.input /\ a.disposed = d
           /\ HasOutput(a) <=> HasOutput(row)
  <1> DEFINE a == [row EXCEPT !.disposed = d]
  <1>1. /\ a \in RunRow /\ a.state = row.state /\ a.attempt = row.attempt
        /\ a.gen = row.gen /\ a.owner = row.owner /\ a.expiry = row.expiry
        /\ a.err = row.err /\ a.retries = row.retries /\ a.ckpt = row.ckpt
        /\ a.input = row.input /\ a.disposed = d
    BY DEF RunRow
  <1> HIDE DEF a
  <1>2. HasOutput(a) <=> HasOutput(row)
    BY <1>1 DEF HasOutput
  <1>3. RowOK(a)
    BY <1>1, <1>2 DEF RowOK, Claimed, Waiting
  <1>4. QED
    BY <1>1, <1>2, <1>3 DEF a

LEMMA AcknowledgeStep ==
    ASSUME Inv, NEW r \in Runs, AcknowledgeRunFailure(r)
    PROVE  Inv'
  <1> DEFINE row == [run[r] EXCEPT !.disposed = "acknowledged"]
  <1>1. /\ run \in [Runs -> RunRow] /\ run[r] \in RunRow /\ RowOK(run[r])
        /\ run[r].state \in {"Failed", "Cancelled", "RecoveryRequired"}
        /\ run[r].disposed = "no"
    BY DEF Inv, TypeOK, Rows, AcknowledgeRunFailure, Disposable
  <1>2. /\ row \in RunRow /\ RowOK(row) /\ row.state = run[r].state
        /\ row.input = run[r].input /\ row.disposed = "acknowledged"
        /\ HasOutput(row) <=> HasOutput(run[r])
    BY <1>1, DisposedFacts
  <1>3. /\ run' = [run EXCEPT ![r] = row]
        /\ UNCHANGED <<held, resv, outcomes, events, answers, session>>
    BY <1>1 DEF AcknowledgeRunFailure
  <1> HIDE DEF row
  <1>4. /\ run' \in [Runs -> RunRow]
        /\ \A q \in Runs : run'[q] = IF q = r THEN row ELSE run[q]
    BY <1>1, <1>2, <1>3
  <1>5. Rows' /\ Answers' /\ Inputs'
    BY <1>1, <1>2, <1>3, <1>4 DEF Inv, Rows, Answers, Inputs
  <1>6. /\ held' \in [Workers -> Held \cup {None}] /\ Leases'
        /\ outcomes' \subseteq [run : Runs, attempt : Nat, state : States]
        /\ events' \in [Runs -> Events]
    BY <1>3 DEF Inv, TypeOK, Leases, Events, Event
  <1>7. QED
    BY <1>3, <1>4, <1>5, <1>6, ClosingStep

(* A retry is admitted only for a run without an answer.                   *)
LEMMA AllowedFacts ==
    ASSUME Inv, NEW r \in Runs,
           run[r].state \in {"Failed", "Cancelled", "RecoveryRequired"},
           Admission(r, run[r].state, run[r].err) = "Allowed"
    PROVE  ~HasOutput(run[r])
  <1>1. ~(answers[r] > 0)
    BY DEF Admission, ClassifyRunRetry, ProducedOutput
  <1>2. QED
    BY <1>1 DEF Inv, Answers

LEMMA RetryRunStep ==
    ASSUME Inv, NEW r \in Runs, NEW q \in Runs, RetryRun(r, q)
    PROVE  Inv'
  <1> DEFINE old == [run[r] EXCEPT !.disposed = "retried"]
             new == QueuedRun(run[r].input)
  <1>1. /\ run \in [Runs -> RunRow] /\ run[r] \in RunRow /\ RowOK(run[r])
        /\ run[r].state \in {"Failed", "Cancelled", "RecoveryRequired"}
        /\ run[r].disposed = "no" /\ Fresh(q) /\ ~HasOutput(run[r])
    BY AllowedFacts DEF Inv, TypeOK, Rows, RetryRun, Disposable
  <1>2. /\ \A p \in Runs : run[p].state # "Absent" => p < q
        /\ answers[q] = 0 /\ r < q /\ r # q
    BY <1>1, FreshFacts, RunRowsAssumption DEF Runs
  <1>3. /\ old \in RunRow /\ RowOK(old) /\ old.state = run[r].state
        /\ old.input = run[r].input /\ old.disposed = "retried"
        /\ ~HasOutput(old)
    BY <1>1, DisposedFacts
  <1>4. run[r].input \in 1..r /\ run[r].input \in Nat
    BY <1>1 DEF Inv, Inputs, Runs
  <1>5. /\ new \in RunRow /\ RowOK(new) /\ ~HasOutput(new)
        /\ new.state = "Queued" /\ new.input = run[r].input
        /\ new.disposed = "no"
    BY <1>4, QueuedRunFacts
  <1>6. /\ run' = [run EXCEPT ![r].disposed = "retried", ![q] = new]
        /\ UNCHANGED <<held, resv, outcomes, events, answers, session>>
    BY DEF RetryRun
  <1>7. \A p \in Runs :
          run'[p] = IF p = q THEN new ELSE IF p = r THEN old ELSE run[p]
    BY <1>1, <1>2, <1>6
  <1>8. run' = [p \in Runs |-> run'[p]]
    BY <1>1, <1>6
  <1> HIDE DEF old, new
  <1>9. run' \in [Runs -> RunRow]
    BY <1>1, <1>3, <1>5, <1>7, <1>8
  <1>10. Rows'
    BY <1>3, <1>5, <1>7 DEF Inv, Rows
  <1>11. Answers'
    BY <1>1, <1>2, <1>3, <1>5, <1>6, <1>7 DEF Inv, Answers
  <1>12. Inputs'
    <2>1. \A p \in Runs : run'[p].state # "Absent" => run'[p].input \in 1..p
      BY <1>1, <1>2, <1>3, <1>4, <1>5, <1>7 DEF Inv, Inputs, Runs
    <2>2. \A x, y \in Runs : x < y /\ run'[y].state # "Absent" =>
            run'[x].state # "Absent"
      BY <1>1, <1>3, <1>5, <1>7 DEF Inv, Inputs, Fresh
    <2>3. \A x \in Runs \ {r} :
            run[x].state # "Absent" /\ run[x].input = run[r].input =>
            run[x].disposed = "retried"
      BY <1>1 DEF Inv, Inputs
    <2>4. \A x, y \in Runs :
            (/\ x # y /\ run'[x].input = run'[y].input
             /\ run'[x].state # "Absent" /\ run'[y].state # "Absent") =>
            run'[x].disposed = "retried" \/ run'[y].disposed = "retried"
      BY <1>1, <1>3, <1>5, <1>7, <2>3 DEF Inv, Inputs
    <2>5. QED
      BY <2>1, <2>2, <2>4 DEF Inputs
  <1>13. /\ held' \in [Workers -> Held \cup {None}] /\ Leases'
         /\ outcomes' \subseteq [run : Runs, attempt : Nat, state : States]
         /\ events' \in [Runs -> Events]
    BY <1>6 DEF Inv, TypeOK, Leases, Events, Event
  <1>14. QED
    BY <1>6, <1>9, <1>10, <1>11, <1>12, <1>13, ClosingStep

-----------------------------------------------------------------------------
LEMMA InitInv == Init => Inv
  <1> SUFFICES ASSUME Init PROVE Inv
    OBVIOUS
  <1>1. Absent \in RunRow
    BY QueuedRunType
  <1>2. /\ Absent.state = "Absent" /\ Absent.attempt = None
        /\ Absent.owner = None /\ Absent.gen = 0 /\ Absent.retries = 0
        /\ Absent.ckpt = None /\ Absent.disposed = "no"
    BY DEF Absent
  <1>3. RowOK(Absent) /\ ~HasOutput(Absent)
    BY <1>2 DEF RowOK, HasOutput, Claimed, Waiting
  <1>4. \A r \in Runs : run[r] = Absent
    BY DEF Init
  <1>5. <<>> \in Events
    BY DEF Events
  <1>6. TypeOK
    BY <1>1, <1>5 DEF Init, TypeOK, Events
  <1>7. Rows /\ Answers /\ Inputs
    BY <1>2, <1>3, <1>4 DEF Init, Rows, Answers, Inputs
  <1>8. Leases
    BY DEF Init, Leases
  <1>9. QED
    BY <1>6, <1>7, <1>8 DEF Inv

(* A worker's steps, whatever lag they are taken with.                     *)
LEMMA WorkStep ==
    ASSUME Inv, NEW w \in Workers, NEW lag \in 0..MaxLag, Work(w, lag)
    PROVE  Inv'
  <1>1. ASSUME NEW r \in Runs, Claim(w, r, lag) PROVE Inv'
    BY <1>1, ClaimStep
  <1>2. CASE Reserve(w, lag)
    BY <1>2, ReserveStep
  <1>3. CASE ReleaseUnused(w, lag)
    <2>1. held[w] \in Held /\ held[w].phase = "reserved"
      BY <1>3 DEF ReleaseUnused, Inv, TypeOK
    <2>2. QED
      BY <1>3, <2>1, ReconcileStep DEF ReleaseUnused, Held, Phases
  <1>4. CASE MarkUncertain(w, lag)
    <2>1. held[w] \in Held /\ held[w].phase = "reserved"
      BY <1>4 DEF MarkUncertain, Inv, TypeOK
    <2>2. QED
      BY <1>4, <2>1, ReconcileStep DEF MarkUncertain, Held, Phases
  <1>5. CASE Commit(w, lag)
    <2>1. held[w] \in Held /\ held[w].phase = "sent"
      BY <1>5 DEF Commit, Inv, TypeOK
    <2>2. held[w].turns + 1 \in Nat
      BY <2>1 DEF Held
    <2>3. QED
      BY <1>5, <2>1, <2>2, ReconcileStep DEF Commit, Phases
  <1>6. CASE PersistProviderTurn(w, lag)
    BY <1>6, CheckpointStep DEF PersistProviderTurn
  <1>7. CASE PersistToolBatch(w, lag)
    BY <1>7, CheckpointStep DEF PersistToolBatch
  <1>8. CASE ConsumeAdoptionCheckpoint(w, lag)
    BY <1>8, ConsumeStep
  <1>9. CASE AppendProviderOutput(w, lag)
    BY <1>9, AppendStep
  <1>10. ASSUME NEW s \in Closing, NEW err \in ErrorCodes,
                Finish(w, s, err, lag)
         PROVE  Inv'
    BY <1>10, FinishStep
  <1>11. CASE ScheduleRetry(w, lag)
    BY <1>11, ScheduleRetryStep
  <1>12. QED
    BY <1>1, <1>2, <1>3, <1>4, <1>5, <1>6, <1>7, <1>8, <1>9, <1>10, <1>11
    DEF Work

LEMMA WorkerStep ==
    ASSUME Inv, NEW w \in Workers, Worker(w)
    PROVE  Inv'
  <1>1. CASE Start(w)
    BY <1>1, StartStep
  <1>2. CASE Heartbeat(w)
    BY <1>2, HeartbeatStep
  <1>3. CASE Crash(w)
    <2>1. /\ held' = [held EXCEPT ![w] = None]
          /\ UNCHANGED <<run, resv, outcomes, events, answers, session>>
      BY <1>3 DEF Crash
    <2>2. /\ session' \in {"active", "archived", "deleting"}
          /\ resv' \in [Runs -> SUBSET Reservation]
      BY <2>1 DEF Inv, TypeOK
    <2>3. QED
      BY <2>1, <2>2, LeaseDropped, QuietStep
  <1>4. ASSUME NEW lag \in 0..MaxLag, Work(w, lag) PROVE Inv'
    BY <1>4, WorkStep
  <1>5. QED
    BY <1>1, <1>2, <1>3, <1>4 DEF Worker

LEMMA OwnerStep ==
    ASSUME Inv, Owner
    PROVE  Inv'
  <1>1. ASSUME NEW r \in Runs, SendMessage(r) PROVE Inv'
    BY <1>1, SendMessageStep
  <1>2. ASSUME NEW r \in Runs, RequestCancellation(r) PROVE Inv'
    BY <1>2, CancelStep
  <1>3. ASSUME NEW r \in Runs, AcknowledgeRunFailure(r) PROVE Inv'
    BY <1>3, AcknowledgeStep
  <1>4. ASSUME NEW r \in Runs, NEW q \in Runs, RetryRun(r, q) PROVE Inv'
    BY <1>4, RetryRunStep
  <1>5. CASE ArchiveSession \/ RestoreSession \/ DeleteSession
    <2>1. /\ UNCHANGED <<run, held, resv, outcomes, events, answers>>
          /\ session' \in {"active", "archived", "deleting"}
      BY <1>5 DEF ArchiveSession, RestoreSession, DeleteSession
    <2>2. /\ resv' \in [Runs -> SUBSET Reservation]
          /\ held' \in [Workers -> Held \cup {None}] /\ Leases'
      BY <2>1 DEF Inv, TypeOK, Leases
    <2>3. QED
      BY <2>1, <2>2, QuietStep
  <1>6. QED
    BY <1>1, <1>2, <1>3, <1>4, <1>5 DEF Owner

LEMMA InvStep == Inv /\ [Next]_vars => Inv'
  <1> SUFFICES ASSUME Inv, [Next]_vars PROVE Inv'
    OBVIOUS
  <1>1. CASE Owner
    BY <1>1, OwnerStep
  <1>2. ASSUME NEW w \in Workers, Worker(w) PROVE Inv'
    BY <1>2, WorkerStep
  <1>3. CASE Recover
    BY <1>3, RecoverStep DEF Recover
  <1>4. CASE Tick
    BY <1>4, TickStep
  <1>5. CASE UNCHANGED vars
    BY <1>5 DEF vars, Inv, TypeOK, Rows, Leases, Answers, Inputs
  <1>6. QED
    BY <1>1, <1>2, <1>3, <1>4, <1>5 DEF Next

LEMMA InvHolds == Spec => []Inv
  <1>1. Init => Inv
    BY InitInv
  <1>2. Inv /\ [Next]_vars => Inv'
    BY InvStep
  <1>3. QED
    BY <1>1, <1>2, PTL DEF Spec

-----------------------------------------------------------------------------
(* Every row, remembered lease, reservation, outcome and terminal event    *)
(* the operations write has the type persistence.rs gives it.              *)
THEOREM TypeCorrect == Spec => []TypeOK
  <1>1. Inv => TypeOK
    BY DEF Inv
  <1>2. QED
    BY <1>1, InvHolds, PTL

(* No operation that leaves a run waiting (send_message, dispose,          *)
(* schedule_retry, recover_expired_leases) leaves a row that claim_once    *)
(* refuses, which would block the queue.                                   *)
THEOREM ClaimableWellFormedHolds == Spec => []ClaimableWellFormed
  <1>1. Inv => ClaimableWellFormed
    BY DEF Inv, Rows, RowOK, Waiting, ClaimableWellFormed
  <1>2. QED
    BY <1>1, InvHolds, PTL

(* The generation of a run never exceeds its retry count by more than one, *)
(* so a run is attempted at most maximum_run_retries + 1 times.            *)
THEOREM BoundedAttemptsHolds == Spec => []BoundedAttempts
  <1>1. Inv => BoundedAttempts
    <2> SUFFICES ASSUME Inv, NEW r \in Runs
                 PROVE  run[r].gen <= MaxRetries + 1
      BY DEF BoundedAttempts
    <2>1. /\ run[r].gen \in Nat /\ run[r].retries \in 0..MaxRetries
          /\ run[r].gen <= run[r].retries + 1
      BY DEF Inv, TypeOK, RunRow, Rows, RowOK
    <2>2. QED
      BY <2>1, RunRowsAssumption
  <1>2. QED
    BY <1>1, InvHolds, PTL

(* A durable answer is never abandoned: cancellation, failure, requeueing  *)
(* and retry stay away from a run that has one, and a run completes only   *)
(* with one.                                                               *)
THEOREM AnswerNeverLostHolds == Spec => []AnswerNeverLost
  <1>1. Inv => AnswerNeverLost
    <2> SUFFICES ASSUME Inv, NEW r \in Runs
                 PROVE  /\ answers[r] > 0 =>
                             /\ run[r].state \in {"Running", "Completed",
                                                  "RecoveryRequired"}
                             /\ run[r].disposed # "retried"
                        /\ run[r].state = "Completed" => answers[r] > 0
      BY DEF AnswerNeverLost
    <2>1. answers[r] > 0 <=> HasOutput(run[r])
      BY DEF Inv, Answers
    <2>2. QED
      BY <2>1 DEF Inv, Rows, RowOK
  <1>2. QED
    BY <1>1, InvHolds, PTL

(* A user message gets at most one durable answer over all the attempts of *)
(* all the runs authored for it.                                           *)
THEOREM AnsweredOnceHolds == Spec => []AnsweredOnce
  <1>1. Inv => AnsweredOnce
    <2> SUFFICES ASSUME Inv, NEW r \in Runs
                 PROVE  /\ answers[r] <= 1
                        /\ answers[r] > 0 => \A q \in Runs \ {r} :
                             run[q].input = run[r].input => answers[q] = 0
      BY DEF AnsweredOnce
    <2>1. \A q \in Runs : answers[q] = IF HasOutput(run[q]) THEN 1 ELSE 0
      BY DEF Inv, Answers
    <2>2. \A q \in Runs : HasOutput(run[q]) =>
            run[q].state # "Absent" /\ run[q].disposed # "retried"
      BY DEF Inv, Rows, RowOK
    <2>3. \A q \in Runs \ {r} :
            HasOutput(run[q]) /\ HasOutput(run[r]) =>
            run[q].input # run[r].input
      BY <2>2 DEF Inv, Inputs
    <2>4. QED
      BY <2>1, <2>3
  <1>2. QED
    BY <1>1, InvHolds, PTL

-----------------------------------------------------------------------------
(* How a step changes the attempt of a row.                                *)
SameAttempt(old, new) ==
    /\ new.gen = old.gen
    /\ new.attempt = old.attempt
    /\ Claimed(new.state) <=> Claimed(old.state)

Opened(old, new) ==
    /\ ~Claimed(old.state)
    /\ Claimed(new.state)
    /\ new.gen = old.gen + 1
    /\ new.attempt = old.gen + 1

Ended(old, new) ==
    /\ Claimed(old.state)
    /\ ~Claimed(new.state)
    /\ new.gen = old.gen
    /\ new.attempt \in {old.attempt, None}

(* AttemptOutcomes, and what makes it inductive: no outcome is recorded    *)
(* for an attempt to come, and an attempt a row names has been issued.     *)
Outcomes ==
    /\ AttemptOutcomes
    /\ \A o \in outcomes : o.attempt \in 1..run[o.run].gen
    /\ \A r \in Runs : run[r].attempt # None => run[r].gen >= 1

LInv == Inv /\ Outcomes

-----------------------------------------------------------------------------
(* What the invariant says of one row.                                     *)
LEMMA RowFacts ==
    ASSUME Inv, NEW r \in Runs
    PROVE  /\ run[r] \in RunRow /\ RowOK(run[r]) /\ run[r].gen \in Nat
           /\ r \in Active <=> Claimed(run[r].state)
           /\ Claimed(run[r].state) =>
                run[r].attempt = run[r].gen /\ run[r].gen >= 1
  <1>1. run[r] \in RunRow /\ RowOK(run[r])
    BY DEF Inv, TypeOK, Rows
  <1>2. run[r].gen \in Nat /\ run[r].retries \in Nat
    BY <1>1, RunRowsAssumption DEF RunRow
  <1>3. QED
    BY <1>1, <1>2 DEF RowOK, Active, Claimed

(* A step that leaves every attempt alone.                                 *)
LEMMA SameStep ==
    ASSUME LInv, Inv', outcomes' = outcomes,
           \A r \in Runs : SameAttempt(run[r], run'[r])
    PROVE  Outcomes' /\ UNCHANGED Ledger!vars
  <1>1. \A r \in Runs : /\ run'[r].gen = run[r].gen
                        /\ run'[r].attempt = run[r].attempt
                        /\ Claimed(run'[r].state) <=> Claimed(run[r].state)
    BY DEF SameAttempt
  <1>2. \A r \in Runs : r \in Active' <=> r \in Active
    BY <1>1 DEF Active, Claimed
  <1>3. Outcomes'
    <2>1. AttemptOutcomes'
      BY <1>1 DEF LInv, Outcomes, AttemptOutcomes, HasOutcome, Claimed
    <2>2. \A o \in outcomes' : o.run \in Runs
      BY DEF LInv, Inv, TypeOK
    <2>3. QED
      BY <1>1, <2>1, <2>2 DEF LInv, Outcomes
  <1>4. [r \in Runs |-> run[r].gen]' = [r \in Runs |-> run[r].gen]
    BY <1>1
  <1>5. [r \in Runs |-> IF r \in Active THEN run[r].attempt ELSE 0]' =
        [r \in Runs |-> IF r \in Active THEN run[r].attempt ELSE 0]
    BY <1>1, <1>2
  <1>6. UNCHANGED Ledger!vars
    BY <1>4, <1>5 DEF Ledger!vars
  <1>7. QED
    BY <1>3, <1>6

(* A step that opens an attempt of run r.                                  *)
LEMMA OpenStep ==
    ASSUME LInv, Inv', outcomes' = outcomes, NEW r \in Runs,
           Opened(run[r], run'[r]),
           \A q \in Runs \ {r} : SameAttempt(run[q], run'[q])
    PROVE  Outcomes' /\ Ledger!Open(r)
  <1>1. /\ run'[r].gen = run[r].gen + 1 /\ run'[r].attempt = run[r].gen + 1
        /\ ~Claimed(run[r].state) /\ Claimed(run'[r].state)
        /\ run[r].gen \in Nat
    BY RowFacts DEF Opened, LInv
  <1>2. \A q \in Runs \ {r} :
          /\ run'[q].gen = run[q].gen /\ run'[q].attempt = run[q].attempt
          /\ Claimed(run'[q].state) <=> Claimed(run[q].state)
    BY DEF SameAttempt
  <1>3. \A q \in Runs : q \in Active' <=> q = r \/ q \in Active
    BY <1>1, <1>2 DEF Active, Claimed
  <1>4. r \notin Active
    BY <1>1 DEF Active, Claimed
  <1>5. \A o \in outcomes : o.run \in Runs /\ o.attempt \in Nat
    BY DEF LInv, Inv, TypeOK
  <1>6. \A q \in Runs : \A g : HasOutcome(q, g)' <=> HasOutcome(q, g)
    BY DEF HasOutcome
  <1>7. ~HasOutcome(r, run[r].gen + 1)
    BY <1>1, <1>5 DEF LInv, Outcomes, HasOutcome
  <1>8. \A q \in Runs : \A g \in 1..run'[q].gen :
          HasOutcome(q, g)' <=>
            (g < run'[q].gen \/ run'[q].state \notin {"Leased", "Running"})
    <2>1. \A g \in 1..run[r].gen : HasOutcome(r, g)
      BY <1>1 DEF LInv, Outcomes, AttemptOutcomes, Claimed
    <2>2. \A g \in 1..run'[r].gen :
            HasOutcome(r, g)' <=>
              (g < run'[r].gen \/ run'[r].state \notin {"Leased", "Running"})
      BY <1>1, <1>6, <1>7, <2>1 DEF Claimed
    <2>3. \A q \in Runs \ {r} : \A g \in 1..run'[q].gen :
            HasOutcome(q, g)' <=>
              (g < run'[q].gen \/ run'[q].state \notin {"Leased", "Running"})
      BY <1>2, <1>6 DEF LInv, Outcomes, AttemptOutcomes, Claimed
    <2>4. QED
      BY <2>2, <2>3
  <1>9. AttemptOutcomes'
    BY <1>8 DEF LInv, Outcomes, AttemptOutcomes
  <1>10. Outcomes'
    BY <1>1, <1>2, <1>5, <1>9 DEF LInv, Outcomes
  <1>11. Ledger!Open(r)
    <2> DEFINE i == [q \in Runs |-> run[q].gen]
               c == [q \in Runs |-> IF q \in Active THEN run[q].attempt ELSE 0]
    <2>1. c[r] = 0
      BY <1>4
    <2>2. i' = [i EXCEPT ![r] = @ + 1]
      BY <1>1, <1>2
    <2>3. c' = [c EXCEPT ![r] = i[r] + 1]
      BY <1>1, <1>2, <1>3
    <2>4. QED
      BY <2>1, <2>2, <2>3 DEF Ledger!Open
  <1>12. QED
    BY <1>10, <1>11

(* A step that ends the attempts of the runs in S.                         *)
LEMMA EndStep ==
    ASSUME LInv, Inv', NEW S \in SUBSET Runs, S # {}, NEW f \in [S -> States],
           \A r \in S : Ended(run[r], run'[r]) /\ ~HasOutcome(r, run[r].attempt),
           \A r \in Runs \ S : SameAttempt(run[r], run'[r]),
           outcomes' = outcomes \cup
             {[run |-> r, attempt |-> run[r].attempt, state |-> f[r]] : r \in S}
    PROVE  Outcomes' /\ Ledger!Close(S)
  <1> DEFINE row(r) == [run |-> r, attempt |-> run[r].attempt, state |-> f[r]]
             new == {row(r) : r \in S}
  <1>0. /\ \A r \in S : row(r).run = r /\ row(r).attempt = run[r].attempt
        /\ outcomes' = outcomes \cup new
    OBVIOUS
  <1>1. \A r \in S :
          /\ Claimed(run[r].state) /\ ~Claimed(run'[r].state)
          /\ run'[r].gen = run[r].gen
          /\ run'[r].attempt \in {run[r].attempt, None}
          /\ run[r].attempt = run[r].gen /\ run[r].gen >= 1
          /\ r \in Active
    BY RowFacts DEF Ended, LInv
  <1>2. \A r \in Runs \ S :
          /\ run'[r].gen = run[r].gen /\ run'[r].attempt = run[r].attempt
          /\ Claimed(run'[r].state) <=> Claimed(run[r].state)
    BY DEF SameAttempt
  <1>3. \A r \in Runs : /\ r \in Active' <=> r \in Active /\ r \notin S
                        /\ run[r].gen \in Nat /\ run'[r].gen = run[r].gen
    BY <1>1, <1>2, RowFacts DEF Active, Claimed, LInv
  <1>4. \A o \in outcomes : o.run \in Runs /\ o.attempt \in Nat
    BY DEF LInv, Inv, TypeOK
  <1>5. \A r \in Runs : \A g : HasOutcome(r, g)' <=>
          HasOutcome(r, g) \/ (r \in S /\ g = run[r].gen)
    <2>1. ASSUME NEW r \in Runs, NEW g
          PROVE  (\E o \in new : o.run = r /\ o.attempt = g) <=>
                     (r \in S /\ g = run[r].gen)
      <3>1. ASSUME NEW o \in new, o.run = r, o.attempt = g
            PROVE  r \in S /\ g = run[r].gen
        BY <1>0, <1>1, <3>1
      <3>2. ASSUME r \in S, g = run[r].gen
            PROVE  row(r) \in new /\ row(r).run = r /\ row(r).attempt = g
        BY <1>0, <1>1, <3>2
      <3> HIDE DEF new, row
      <3>3. QED
        BY <3>1, <3>2
    <2> HIDE DEF new, row
    <2>2. ASSUME NEW r \in Runs, NEW g
          PROVE  HasOutcome(r, g)' <=>
                   HasOutcome(r, g) \/ (\E o \in new : o.run = r /\ o.attempt = g)
      BY <1>0 DEF HasOutcome
    <2>3. QED
      BY <2>1, <2>2
  <1>6. \A r \in Runs : \A g \in 1..run'[r].gen :
          HasOutcome(r, g)' <=>
            (g < run'[r].gen \/ run'[r].state \notin {"Leased", "Running"})
    <2>1. \A r \in S : \A g \in 1..run'[r].gen :
            HasOutcome(r, g)' <=>
              (g < run'[r].gen \/ run'[r].state \notin {"Leased", "Running"})
      BY <1>1, <1>3, <1>5 DEF LInv, Outcomes, AttemptOutcomes, Claimed
    <2>2. \A r \in Runs \ S : \A g \in 1..run'[r].gen :
            HasOutcome(r, g)' <=>
              (g < run'[r].gen \/ run'[r].state \notin {"Leased", "Running"})
      BY <1>2, <1>5 DEF LInv, Outcomes, AttemptOutcomes, Claimed
    <2>3. QED
      BY <2>1, <2>2
  <1>7. \A o, p \in outcomes' :
          o.run = p.run /\ o.attempt = p.attempt => o = p
    <2>1. \A o \in outcomes, p \in new :
            ~(o.run = p.run /\ o.attempt = p.attempt)
      BY DEF HasOutcome
    <2>2. \A o, p \in new : o.run = p.run => o = p
      OBVIOUS
    <2>3. outcomes' = outcomes \cup new
      OBVIOUS
    <2> HIDE DEF new
    <2>4. QED
      BY <2>1, <2>2, <2>3 DEF LInv, Outcomes, AttemptOutcomes
  <1>8. \A o \in outcomes' : o.attempt \in 1..run'[o.run].gen
    BY <1>1, <1>3, <1>4 DEF LInv, Outcomes
  <1>9. \A r \in Runs : run'[r].attempt # None => run'[r].gen >= 1
    BY <1>1, <1>2 DEF LInv, Outcomes
  <1>10. Outcomes'
    BY <1>6, <1>7, <1>8, <1>9 DEF Outcomes, AttemptOutcomes
  <1>11. Ledger!Close(S)
    <2> DEFINE i == [q \in Runs |-> run[q].gen]
               c == [q \in Runs |-> IF q \in Active THEN run[q].attempt ELSE 0]
               d == {<<o.run, o.attempt>> : o \in outcomes}
    <2>1. \A r \in S : c[r] = run[r].gen /\ c[r] # 0
      BY <1>1
    <2>2. \A r \in S : <<r, c[r]>> \notin d
      BY <1>1, <2>1 DEF HasOutcome
    <2>3. i' = i
      BY <1>3
    <2>4. c' = [q \in Runs |-> IF q \in S THEN 0 ELSE c[q]]
      <3>1. \A q \in Runs : c'[q] = IF q \in S THEN 0 ELSE c[q]
        BY <1>2, <1>3
      <3>2. c' = [q \in Runs |-> c'[q]]
        OBVIOUS
      <3> HIDE DEF c
      <3>3. QED
        BY <3>1, <3>2
    <2>5. d' = d \cup {<<r, c[r]>> : r \in S}
      <3>1. \A r \in S : c[r] = run[r].attempt
        BY <1>1, <2>1
      <3>2. {<<o.run, o.attempt>> : o \in new} = {<<r, c[r]>> : r \in S}
        <4> HIDE DEF row, c
        <4>1. \A r \in S : <<row(r).run, row(r).attempt>> = <<r, c[r]>>
          BY <1>0, <3>1
        <4>2. QED
          BY <4>1
      <3> HIDE DEF new
      <3>3. d' = d \cup {<<o.run, o.attempt>> : o \in new}
        BY <1>0
      <3>4. QED
        BY <3>2, <3>3
    <2>6. QED
      BY <2>1, <2>2, <2>3, <2>4, <2>5 DEF Ledger!Close
  <1>12. QED
    BY <1>10, <1>11

-----------------------------------------------------------------------------
(* The three kinds of step, for a step that writes at most one row.        *)
Kept == Outcomes' /\ [Ledger!Next]_(Ledger!vars)

LEMMA NoRow ==
    ASSUME LInv, Inv', UNCHANGED <<run, outcomes>>
    PROVE  Kept
  <1>1. \A r \in Runs : SameAttempt(run[r], run'[r])
    BY DEF SameAttempt
  <1>2. QED
    BY <1>1, SameStep DEF Kept

LEMMA OneRowSame ==
    ASSUME LInv, Inv', NEW r \in Runs, NEW row, SameAttempt(run[r], row),
           run' = [run EXCEPT ![r] = row], outcomes' = outcomes
    PROVE  Kept
  <1>1. \A q \in Runs : run'[q] = IF q = r THEN row ELSE run[q]
    BY DEF LInv, Inv, TypeOK
  <1>2. \A q \in Runs : SameAttempt(run[q], run'[q])
    BY <1>1 DEF SameAttempt
  <1>3. QED
    BY <1>2, SameStep DEF Kept

LEMMA OneRowOpened ==
    ASSUME LInv, Inv', NEW r \in Runs, NEW row, Opened(run[r], row),
           run' = [run EXCEPT ![r] = row], outcomes' = outcomes
    PROVE  Kept
  <1>1. \A q \in Runs : run'[q] = IF q = r THEN row ELSE run[q]
    BY DEF LInv, Inv, TypeOK
  <1>2. \A q \in Runs \ {r} : SameAttempt(run[q], run'[q])
    BY <1>1 DEF SameAttempt
  <1>3. Outcomes' /\ Ledger!Open(r)
    BY <1>1, <1>2, OpenStep
  <1>4. QED
    BY <1>3 DEF Kept, Ledger!Next

LEMMA OneRowEnded ==
    ASSUME LInv, Inv', NEW r \in Runs, NEW row, Ended(run[r], row),
           ~HasOutcome(r, run[r].attempt), NEW s \in States,
           run' = [run EXCEPT ![r] = row],
           outcomes' = outcomes \cup {Outcome(r, s)}
    PROVE  Kept
  <1> DEFINE f == [q \in {r} |-> s]
  <1>1. \A q \in Runs : run'[q] = IF q = r THEN row ELSE run[q]
    BY DEF LInv, Inv, TypeOK
  <1>2. \A q \in Runs \ {r} : SameAttempt(run[q], run'[q])
    BY <1>1 DEF SameAttempt
  <1>3. \A q \in {r} :
          Ended(run[q], run'[q]) /\ ~HasOutcome(q, run[q].attempt)
    BY <1>1
  <1>4. outcomes' = outcomes \cup
          {[run |-> q, attempt |-> run[q].attempt, state |-> f[q]] : q \in {r}}
    BY DEF Outcome
  <1>5. f \in [{r} -> States] /\ {r} \in SUBSET Runs /\ {r} # {}
    OBVIOUS
  <1> HIDE DEF f
  <1>6. Outcomes' /\ Ledger!Close({r})
    BY <1>2, <1>3, <1>4, <1>5, EndStep
  <1>7. QED
    BY <1>5, <1>6 DEF Kept, Ledger!Next

-----------------------------------------------------------------------------
LEMMA KeptByClaim ==
    ASSUME LInv, Inv', NEW w \in Workers, NEW r \in Runs,
           NEW lag \in 0..MaxLag, Claim(w, r, lag)
    PROVE  Kept
  <1> DEFINE row == Leased(run[r], w, lag)
  <1>1. run[r] \in RunRow
    BY RowFacts DEF LInv
  <1>2. row.state = "Leased" /\ row.gen = run[r].gen + 1
        /\ row.attempt = run[r].gen + 1
    BY <1>1 DEF Leased, RunRow
  <1>3. ~Claimed(run[r].state)
    BY DEF Claim, Claimable, Oldest, Claimed
  <1>4. run' = [run EXCEPT ![r] = row] /\ outcomes' = outcomes
    BY DEF Claim, Renew
  <1> HIDE DEF row
  <1>5. Opened(run[r], row)
    BY <1>2, <1>3 DEF Opened, Claimed
  <1>6. QED
    BY <1>4, <1>5, OneRowOpened

LEMMA KeptByRenewal ==
    ASSUME LInv, Inv', NEW w \in Workers,
           \/ Start(w)
           \/ Heartbeat(w)
           \/ \E lag \in 0..MaxLag :
                \/ PersistProviderTurn(w, lag)
                \/ PersistToolBatch(w, lag)
                \/ ConsumeAdoptionCheckpoint(w, lag)
                \/ AppendProviderOutput(w, lag)
    PROVE  Kept
  <1> DEFINE r == held[w].lease.run
  <1>1. held[w] # None
    BY DEF Start, Heartbeat, PersistProviderTurn, PersistToolBatch,
           ConsumeAdoptionCheckpoint, AppendProviderOutput, Fenced, LeaseHolds
  <1>2. r \in Runs
    BY <1>1 DEF LInv, Inv, TypeOK, Held, AiRunLease
  <1>3. run[r] \in RunRow /\ outcomes' = outcomes
    BY <1>2, RowFacts
    DEF LInv, Start, Heartbeat, PersistProviderTurn, PersistToolBatch,
        AppendCoordinatorCheckpoint, ConsumeAdoptionCheckpoint,
        AppendProviderOutput
  <1>4. CASE Start(w)
    <2> DEFINE row == [run[r] EXCEPT !.state = "Running", !.expiry = Ttl]
    <2>1. SameAttempt(run[r], row) /\ run' = [run EXCEPT ![r] = row]
      BY <1>3, <1>4 DEF Start, Renew, SameAttempt, RunRow, Claimed
    <2> HIDE DEF row, r
    <2>2. QED
      BY <1>2, <1>3, <2>1, OneRowSame
  <1>5. CASE Heartbeat(w)
    <2> DEFINE row == [run[r] EXCEPT !.expiry = Ttl]
    <2>1. SameAttempt(run[r], row) /\ run' = [run EXCEPT ![r] = row]
      BY <1>3, <1>5 DEF Heartbeat, Renew, SameAttempt, RunRow
    <2> HIDE DEF row, r
    <2>2. QED
      BY <1>2, <1>3, <2>1, OneRowSame
  <1>6. ASSUME NEW c, NEW e, run' = [run EXCEPT ![r] = Pointed(run[r], c, e)]
        PROVE  Kept
    <2> DEFINE row == Pointed(run[r], c, e)
    <2>1. SameAttempt(run[r], row)
      BY <1>3 DEF SameAttempt, RunRow, Pointed
    <2> HIDE DEF row, r
    <2>2. QED
      BY <1>2, <1>3, <1>6, <2>1, OneRowSame DEF row
  <1>7. ASSUME NEW lag \in 0..MaxLag,
               \/ PersistProviderTurn(w, lag)
               \/ PersistToolBatch(w, lag)
               \/ ConsumeAdoptionCheckpoint(w, lag)
               \/ AppendProviderOutput(w, lag)
        PROVE  Kept
    <2>1. CASE PersistProviderTurn(w, lag)
      <3>1. run' = [run EXCEPT ![r] =
                      Pointed(run[r], CheckpointOf(w, "turn"), Ttl - lag)]
        BY <2>1 DEF PersistProviderTurn, AppendCoordinatorCheckpoint, Renew,
                    Pointed
      <3>2. QED
        BY <1>6, <3>1
    <2>2. CASE PersistToolBatch(w, lag)
      <3>1. run' = [run EXCEPT ![r] =
                      Pointed(run[r], CheckpointOf(w, "batch"), Ttl - lag)]
        BY <2>2 DEF PersistToolBatch, AppendCoordinatorCheckpoint, Renew,
                    Pointed
      <3>2. QED
        BY <1>6, <3>1
    <2>3. CASE ConsumeAdoptionCheckpoint(w, lag)
      <3>1. run' = [run EXCEPT ![r] = Pointed(run[r], None, Ttl - lag)]
        BY <2>3 DEF ConsumeAdoptionCheckpoint, Renew, Pointed
      <3>2. QED
        BY <1>6, <3>1
    <2>4. CASE AppendProviderOutput(w, lag)
      <3>1. run' = [run EXCEPT ![r] =
                      Pointed(run[r], CheckpointOf(w, "output"), Ttl - lag)]
        BY <2>4 DEF AppendProviderOutput, Renew, Pointed
      <3>2. QED
        BY <1>6, <3>1
    <2>5. QED
      BY <1>7, <2>1, <2>2, <2>3, <2>4
  <1>8. QED
    BY <1>4, <1>5, <1>7

LEMMA KeptByFinish ==
    ASSUME LInv, Inv', NEW w \in Workers, NEW lag \in 0..MaxLag,
           NEW s \in Closing, NEW err \in ErrorCodes, Finish(w, s, err, lag)
    PROVE  Kept
  <1> DEFINE r == held[w].lease.run
             row == Closed(run[r], s, err)
  <1>1. Fenced(w, lag) /\ ~HasOutcome(r, run[r].attempt)
    BY DEF Finish
  <1>2. r \in Runs /\ run[r] \in RunRow /\ Claimed(run[r].state)
    BY <1>1, FencedFacts DEF LInv
  <1>3. /\ row.state = s /\ row.gen = run[r].gen
        /\ row.attempt = run[r].attempt
    BY <1>2 DEF Closed, RunRow
  <1>4. /\ run' = [run EXCEPT ![r] = row]
        /\ outcomes' = outcomes \cup {Outcome(r, s)}
    BY DEF Finish
  <1> HIDE DEF row
  <1>5. Ended(run[r], row) /\ s \in States
    BY <1>2, <1>3 DEF Ended, Claimed, Closing, States
  <1> HIDE DEF r
  <1>6. QED
    BY <1>1, <1>2, <1>4, <1>5, OneRowEnded

LEMMA KeptByScheduleRetry ==
    ASSUME LInv, Inv', NEW w \in Workers, NEW lag \in 0..MaxLag,
           ScheduleRetry(w, lag)
    PROVE  Kept
  <1> DEFINE r == held[w].lease.run
             row == Requeued(run[r], "other", RetryDelay - lag)
  <1>1. Fenced(w, lag) /\ ~HasOutcome(r, run[r].attempt)
    BY DEF ScheduleRetry
  <1>2. r \in Runs /\ run[r] \in RunRow /\ Claimed(run[r].state)
    BY <1>1, FencedFacts DEF LInv
  <1>3. row.state = "RetryScheduled" /\ row.gen = run[r].gen
        /\ row.attempt = None
    BY <1>2 DEF Requeued, RunRow
  <1>4. /\ run' = [run EXCEPT ![r] = row]
        /\ outcomes' = outcomes \cup {Outcome(r, "RetryScheduled")}
    BY DEF ScheduleRetry
  <1> HIDE DEF row
  <1>5. Ended(run[r], row) /\ "RetryScheduled" \in States
    BY <1>2, <1>3 DEF Ended, Claimed, States
  <1> HIDE DEF r
  <1>6. QED
    BY <1>1, <1>2, <1>4, <1>5, OneRowEnded

(* Cancellation ends the attempt of a claimed run; any other run it may    *)
(* close has no attempt, since a named one would have its outcome.         *)
LEMMA KeptByCancellation ==
    ASSUME LInv, Inv', NEW r \in Runs, RequestCancellation(r)
    PROVE  Kept
  <1> DEFINE row == Closed(run[r], "Cancelled", "other")
  <1>1. run[r] \in RunRow /\ RowOK(run[r]) /\ run[r].gen \in Nat
    BY RowFacts DEF LInv
  <1>2. /\ row.state = "Cancelled" /\ row.gen = run[r].gen
        /\ row.attempt = run[r].attempt
    BY <1>1 DEF Closed, RunRow
  <1>3. /\ run' = [run EXCEPT ![r] = row]
        /\ run[r].attempt # None => ~HasOutcome(r, run[r].attempt)
        /\ outcomes' = IF run[r].attempt = None THEN outcomes
                       ELSE outcomes \cup {Outcome(r, "Cancelled")}
    BY DEF RequestCancellation
  <1> HIDE DEF row
  <1>4. CASE Claimed(run[r].state)
    <2>1. run[r].attempt # None
      BY <1>1, <1>4, RunNoneAssumption DEF RowOK
    <2>2. Ended(run[r], row) /\ "Cancelled" \in States
      BY <1>2, <1>4 DEF Ended, Claimed, States
    <2>3. QED
      BY <1>3, <2>1, <2>2, OneRowEnded
  <1>5. CASE ~Claimed(run[r].state)
    <2>1. run[r].attempt = None
      <3>1. SUFFICES ASSUME run[r].attempt # None PROVE FALSE
        OBVIOUS
      <3>2. run[r].attempt = run[r].gen /\ run[r].gen \in 1..run[r].gen
        BY <1>1, <3>1 DEF RowOK, LInv, Outcomes
      <3>3. HasOutcome(r, run[r].gen)
        BY <1>5, <3>2 DEF LInv, Outcomes, AttemptOutcomes, Claimed
      <3>4. QED
        BY <1>3, <3>1, <3>2, <3>3
    <2>2. SameAttempt(run[r], row)
      BY <1>2, <1>5 DEF SameAttempt, Claimed
    <2>3. QED
      BY <1>3, <2>1, <2>2, OneRowSame
  <1>6. QED
    BY <1>4, <1>5

LEMMA KeptByRecovery ==
    ASSUME LInv, Inv', NEW lag \in 0..MaxLag, RecoverExpiredLeases(lag)
    PROVE  Kept
  <1> DEFINE due == {r \in Oldest(Active, ScanLimit) :
                       run[r].expiry + lag <= 0}
             next(r) == Recovered(run[r], lag)
             f == [r \in due |-> next(r).state]
  <1>1. due \subseteq Runs /\ \A r \in due : Claimed(run[r].state)
    BY DEF Oldest, Active, Claimed
  <1>2. due # {} /\ \A r \in due : ~HasOutcome(r, run[r].attempt)
    BY DEF RecoverExpiredLeases, Malformed
  <1>3. \A r \in due : run[r] \in RunRow /\ RowOK(run[r])
    BY <1>1, RowFacts DEF LInv
  <1>4. \A r \in due : /\ Ended(run[r], next(r))
                       /\ next(r).state \in States
    <2> SUFFICES ASSUME NEW r \in due
                 PROVE  Ended(run[r], next(r)) /\ next(r).state \in States
      OBVIOUS
    <2> DEFINE row == run[r]
    <2>1. row \in RunRow /\ RowOK(row) /\ Claimed(row.state)
      BY <1>1, <1>3
    <2> HIDE DEF row
    <2>2. \A s, err : LET a == [Closed(row, s, err) EXCEPT !.attempt = None]
                      IN  /\ a.state = s /\ a.gen = row.gen
                          /\ a.attempt = None
      BY <2>1 DEF Closed, RunRow
    <2>3. \A err, d : LET a == Requeued(row, err, d)
                      IN  /\ a.state = "RetryScheduled" /\ a.gen = row.gen
                          /\ a.attempt = None
      BY <2>1 DEF Requeued, RunRow
    <2>4. /\ Recovered(row, lag).gen = row.gen
          /\ Recovered(row, lag).attempt = None
          /\ Recovered(row, lag).state \in
               {"RetryScheduled", "Failed", "Completed", "RecoveryRequired"}
      BY <2>2, <2>3 DEF Recovered
    <2>5. Ended(row, Recovered(row, lag)) /\ Recovered(row, lag).state \in States
      BY <2>1, <2>4 DEF Ended, Claimed, States
    <2>6. QED
      BY <2>5 DEF row
  <1>5. /\ run' = [r \in Runs |-> IF r \in due THEN next(r) ELSE run[r]]
        /\ outcomes' = outcomes \cup
              {Outcome(r, next(r).state) : r \in due}
    BY DEF RecoverExpiredLeases
  <1>6. f \in [due -> States] /\ \A r \in due : f[r] = next(r).state
    BY <1>4
  <1> HIDE DEF due, next, f
  <1>7. outcomes' = outcomes \cup
          {[run |-> r, attempt |-> run[r].attempt, state |-> f[r]] : r \in due}
    BY <1>5, <1>6 DEF Outcome
  <1>8. \A r \in due :
          Ended(run[r], run'[r]) /\ ~HasOutcome(r, run[r].attempt)
    BY <1>1, <1>2, <1>4, <1>5
  <1>9. \A r \in Runs \ due : SameAttempt(run[r], run'[r])
    BY <1>5 DEF SameAttempt
  <1>10. due \in SUBSET Runs /\ due # {} /\ f \in [due -> States]
    BY <1>1, <1>2, <1>6
  <1>11. PICK S, g : S = due /\ g = f
    OBVIOUS
  <1>12. /\ S \in SUBSET Runs /\ S # {} /\ g \in [S -> States]
         /\ \A r \in S :
              Ended(run[r], run'[r]) /\ ~HasOutcome(r, run[r].attempt)
         /\ \A r \in Runs \ S : SameAttempt(run[r], run'[r])
         /\ outcomes' = outcomes \cup
             {[run |-> r, attempt |-> run[r].attempt, state |-> g[r]] : r \in S}
    BY <1>7, <1>8, <1>9, <1>10, <1>11
  <1>13. Outcomes' /\ Ledger!Close(S)
    BY <1>12, EndStep
  <1>14. QED
    BY <1>12, <1>13 DEF Kept, Ledger!Next

LEMMA KeptByTick ==
    ASSUME LInv, Inv', Tick
    PROVE  Kept
  <1>1. \A r \in Runs : run[r] \in RunRow
    BY RowFacts DEF LInv
  <1>2. \A r \in Runs : SameAttempt(run[r], run'[r])
    BY <1>1 DEF Tick, RowLater, SameAttempt, RunRow
  <1>3. QED
    BY <1>2, SameStep DEF Tick, Kept

LEMMA KeptByOwner ==
    ASSUME LInv, Inv', Owner
    PROVE  Kept
  <1>1. \A m : LET a == QueuedRun(m) IN
          a.state = "Queued" /\ a.gen = 0 /\ a.attempt = None
    BY DEF QueuedRun, Absent
  <1>2. \A r \in Runs : Fresh(r) =>
          ~Claimed(run[r].state) /\ run[r].gen = 0 /\ run[r].attempt = None
    BY RowFacts DEF LInv, Fresh, RowOK, Claimed
  <1>3. ASSUME NEW r \in Runs, SendMessage(r) PROVE Kept
    <2>1. SameAttempt(run[r], QueuedRun(r))
      BY <1>1, <1>2, <1>3 DEF SendMessage, SameAttempt, Claimed
    <2>2. QED
      BY <1>3, <2>1, OneRowSame DEF SendMessage
  <1>4. ASSUME NEW r \in Runs, RequestCancellation(r) PROVE Kept
    BY <1>4, KeptByCancellation
  <1>5. ASSUME NEW r \in Runs, AcknowledgeRunFailure(r) PROVE Kept
    <2> DEFINE row == [run[r] EXCEPT !.disposed = "acknowledged"]
    <2>1. run[r] \in RunRow
      BY RowFacts DEF LInv
    <2>2. SameAttempt(run[r], row)
      BY <2>1 DEF SameAttempt, RunRow
    <2>3. run' = [run EXCEPT ![r] = row] /\ outcomes' = outcomes
      BY <1>5 DEF AcknowledgeRunFailure, LInv, Inv, TypeOK
    <2> HIDE DEF row
    <2>4. QED
      BY <2>2, <2>3, OneRowSame
  <1>6. ASSUME NEW r \in Runs, NEW q \in Runs, RetryRun(r, q) PROVE Kept
    <2> DEFINE old == [run[r] EXCEPT !.disposed = "retried"]
               new == QueuedRun(run[r].input)
    <2>1. run[r] \in RunRow /\ run \in [Runs -> RunRow]
      BY RowFacts DEF LInv, Inv, TypeOK
    <2>2. r # q /\ Fresh(q) /\ outcomes' = outcomes
      BY <1>6 DEF RetryRun, Disposable, Fresh
    <2>3. \A p \in Runs :
            run'[p] = IF p = q THEN new ELSE IF p = r THEN old ELSE run[p]
      BY <1>6, <2>1, <2>2 DEF RetryRun
    <2>4. SameAttempt(run[r], old)
      BY <2>1 DEF SameAttempt, RunRow
    <2>5. SameAttempt(run[q], new)
      BY <1>1, <1>2, <2>2 DEF SameAttempt, Claimed
    <2> HIDE DEF old, new
    <2>6. \A p \in Runs : SameAttempt(run[p], run'[p])
      BY <2>3, <2>4, <2>5 DEF SameAttempt
    <2>7. QED
      BY <2>2, <2>6, SameStep DEF Kept
  <1>7. CASE ArchiveSession \/ RestoreSession \/ DeleteSession
    BY <1>7, NoRow DEF ArchiveSession, RestoreSession, DeleteSession
  <1>8. QED
    BY <1>3, <1>4, <1>5, <1>6, <1>7 DEF Owner

LEMMA KeptByWorker ==
    ASSUME LInv, Inv', NEW w \in Workers, Worker(w)
    PROVE  Kept
  <1>1. CASE Start(w) \/ Heartbeat(w)
    BY <1>1, KeptByRenewal
  <1>2. CASE Crash(w)
    BY <1>2, NoRow DEF Crash
  <1>3. ASSUME NEW lag \in 0..MaxLag, Work(w, lag) PROVE Kept
    <2>1. ASSUME NEW r \in Runs, Claim(w, r, lag) PROVE Kept
      BY <2>1, KeptByClaim
    <2>2. CASE Reserve(w, lag)
      BY <2>2, NoRow DEF Reserve
    <2>3. CASE \/ ReleaseUnused(w, lag) \/ MarkUncertain(w, lag)
               \/ Commit(w, lag)
      BY <2>3, NoRow DEF ReleaseUnused, MarkUncertain, Commit, Reconcile
    <2>4. CASE \/ PersistProviderTurn(w, lag) \/ PersistToolBatch(w, lag)
               \/ ConsumeAdoptionCheckpoint(w, lag)
               \/ AppendProviderOutput(w, lag)
      BY <2>4, KeptByRenewal
    <2>5. ASSUME NEW s \in Closing, NEW err \in ErrorCodes,
                 Finish(w, s, err, lag)
          PROVE  Kept
      BY <2>5, KeptByFinish
    <2>6. CASE ScheduleRetry(w, lag)
      BY <2>6, KeptByScheduleRetry
    <2>7. QED
      BY <1>3, <2>1, <2>2, <2>3, <2>4, <2>5, <2>6 DEF Work
  <1>4. QED
    BY <1>1, <1>2, <1>3 DEF Worker

LEMMA KeptByNext == LInv /\ Inv' /\ [Next]_vars => Kept
  <1> SUFFICES ASSUME LInv, Inv', [Next]_vars PROVE Kept
    OBVIOUS
  <1>1. CASE Owner
    BY <1>1, KeptByOwner
  <1>2. ASSUME NEW w \in Workers, Worker(w) PROVE Kept
    BY <1>2, KeptByWorker
  <1>3. CASE Recover
    BY <1>3, KeptByRecovery DEF Recover
  <1>4. CASE Tick
    BY <1>4, KeptByTick
  <1>5. CASE UNCHANGED vars
    BY <1>5, NoRow DEF vars
  <1>6. QED
    BY <1>1, <1>2, <1>3, <1>4, <1>5 DEF Next

LEMMA InitOutcomes == Init => Outcomes /\ Ledger!Init
  <1> SUFFICES ASSUME Init PROVE Outcomes /\ Ledger!Init
    OBVIOUS
  <1>1. \A r \in Runs : run[r].gen = 0 /\ run[r].attempt = None
                        /\ run[r].state = "Absent"
    BY DEF Init, Absent
  <1>2. outcomes = {}
    BY DEF Init
  <1>3. Outcomes
    BY <1>1, <1>2 DEF Outcomes, AttemptOutcomes, HasOutcome
  <1>4. Ledger!Init
    BY <1>1, <1>2 DEF Ledger!Init, Active
  <1>5. QED
    BY <1>3, <1>4

-----------------------------------------------------------------------------
LEMMA LInvHolds == Spec => []LInv
  <1>1. Init => LInv
    BY InitInv, InitOutcomes DEF LInv
  <1>2. LInv /\ [Next]_vars => LInv'
    BY InvStep, KeptByNext DEF LInv, Kept
  <1>3. QED
    BY <1>1, <1>2, PTL DEF Spec

(* Every attempt that is over has exactly one outcome and the leased one   *)
(* has none, whichever of finish, schedule_retry, recover_expired_leases   *)
(* and request_cancellation ended it.                                      *)
THEOREM AttemptOutcomesHolds == Spec => []AttemptOutcomes
  <1>1. LInv => AttemptOutcomes
    BY DEF LInv, Outcomes
  <1>2. QED
    BY <1>1, LInvHolds, PTL

(* The runs implement the attempt ledger: claim_next opens an attempt, the *)
(* operations that end attempts close them, and every other operation      *)
(* leaves the ledger as it is.                                             *)
THEOREM ImplementsLedgerHolds == Spec => ImplementsLedger
  <1>1. Init => Ledger!Init
    BY InitOutcomes
  <1>2. LInv /\ LInv' /\ [Next]_vars => [Ledger!Next]_(Ledger!vars)
    BY KeptByNext DEF LInv, Kept
  <1>3. QED
    BY <1>1, <1>2, LInvHolds, PTL DEF Spec, ImplementsLedger, Ledger!Spec

-----------------------------------------------------------------------------
(***************************************************************************)
(* The provider turns of a run and the reservations that pay for them.     *)
(* Reservations outlive the attempt that made them, so what an attempt may *)
(* send next depends on where the attempts before it left the row and on   *)
(* where the worker of the current attempt is.                             *)
(***************************************************************************)
Behind(rs, n) == \A v \in rs : v.state # "released" => v.turn <= n
Unsent(rs) == \A v \in rs : v.state = "released"
Paid(rs, g) == \E v \in rs : v.state = "committed" /\ v.gen = g

(* Of a row and its reservations: an attempt that starts from nothing      *)
(* finds nothing sent; one that adopts a checkpoint finds nothing sent     *)
(* after it; an answer was paid for.                                       *)
RowTurns(row, rs) ==
    /\ \A v \in rs : v.turn >= 1
    /\ row.state = "Absent" => rs = {}
    /\ (Waiting(row.state) /\ row.err # "adoption_ready") => Unsent(rs)
    /\ (row.state = "Leased" /\ row.ckpt = None) => Unsent(rs)
    /\ (Waiting(row.state) /\ row.err = "adoption_ready") =>
          row.ckpt # None /\ row.ckpt.kind = "batch"
    /\ (row.state = "Leased" /\ row.ckpt # None) =>
          row.ckpt.kind = "batch" /\ row.ckpt.gen < row.gen
    /\ row.ckpt # None =>
          /\ row.ckpt.gen <= row.gen
          /\ row.ckpt.kind = "batch" => Behind(rs, row.ckpt.turns)
          /\ ~ToolTurns => row.ckpt.kind = "output"
    /\ HasOutput(row) => Paid(rs, row.gen)

(* Where the worker of the current attempt is, so much has been sent.      *)
Pending(h, rs, s) ==
    \A v \in rs : v.state # "released" =>
        \/ v.turn <= h.turns
        \/ v = [gen |-> h.lease.gen, turn |-> h.turns + 1, state |-> s]
Place(h, row, rs) ==
    /\ row.state = "Leased" <=> h.phase = "claimed"
    /\ h.phase \in {"ready", "reserved", "refused", "sent", "settled"} =>
          row.ckpt = None
    /\ (h.phase \in {"ready", "reserved", "refused", "sent"} /\ ~ToolTurns) =>
          h.turns = 0
    /\ h.phase = "turned" => ToolTurns
    /\ h.phase \in {"adopting", "batched"} =>
          row.ckpt # None /\ row.ckpt.kind = "batch" /\ h.turns = row.ckpt.turns
    /\ h.phase \notin {"claimed", "reserved", "sent"} => Behind(rs, h.turns)
    /\ h.phase = "reserved" => Pending(h, rs, "reserved")
    /\ h.phase = "sent" => Pending(h, rs, "uncertain")

HeldTurns(h, row, rs) ==
    /\ h.lease.gen <= row.gen
    /\ h.phase \in {"settled", "turned", "batched", "answered"} =>
          Paid(rs, h.lease.gen)
    /\ (h.lease.gen = row.gen /\ Claimed(row.state)) => Place(h, row, rs)

(* No two workers hold leases of the same attempt.                         *)
OneHolder ==
    \A u, w \in Workers :
        (u # w /\ held[u] # None /\ held[w] # None
           /\ held[u].lease.run = held[w].lease.run) =>
        held[u].lease.gen # held[w].lease.gen

Turns ==
    /\ \A r \in Runs : RowTurns(run[r], resv[r])
    /\ \A w \in Workers : held[w] # None =>
          HeldTurns(held[w], run[held[w].lease.run], resv[held[w].lease.run])
    /\ OneHolder

TInv == Inv /\ Turns /\ TurnSentOnce

-----------------------------------------------------------------------------
(* The types behind a run's turns.                                         *)
LEMMA TurnTypes ==
    ASSUME Inv, NEW r \in Runs
    PROVE  /\ run[r] \in RunRow /\ RowOK(run[r]) /\ run[r].gen \in Nat
           /\ run[r].ckpt # None =>
                 /\ run[r].ckpt \in Checkpoint
                 /\ run[r].ckpt.gen \in Nat /\ run[r].ckpt.turns \in Nat
           /\ \A v \in resv[r] : /\ v \in Reservation
                                 /\ v.gen \in Nat /\ v.turn \in Nat
  <1>1. run[r] \in RunRow /\ RowOK(run[r])
    BY DEF Inv, TypeOK, Rows
  <1>2. run[r].gen \in Nat /\ run[r].ckpt \in Checkpoint \cup {None}
    BY <1>1 DEF RunRow
  <1>3. \A c \in Checkpoint : c.gen \in Nat /\ c.turns \in Nat
    BY DEF Checkpoint
  <1>4. \A v \in resv[r] : v \in Reservation
    BY DEF Inv, TypeOK
  <1>5. \A v \in Reservation : v.gen \in Nat /\ v.turn \in Nat
    BY DEF Reservation
  <1>6. QED
    BY <1>1, <1>2, <1>3, <1>4, <1>5
LEMMA HeldTypes ==
    ASSUME Inv, NEW w \in Workers, held[w] # None
    PROVE  /\ held[w] \in Held /\ held[w].lease \in AiRunLease
           /\ held[w].lease.run \in Runs
           /\ held[w].lease.gen \in Nat /\ held[w].turns \in Nat
           /\ held[w].phase \in Phases
  BY DEF Inv, TypeOK, Held, AiRunLease

(* A step that sends nothing and keeps every attempt's generation: what    *)
(* ends attempts, what the owner does, and the passing of time.            *)
LEMMA RowsFrame ==
    ASSUME Inv, Turns, TurnSentOnce, resv' = resv,
           \A w \in Workers : held'[w] = held[w] \/ held'[w] = None,
           \A r \in Runs :
             /\ run'[r].gen = run[r].gen
             /\ RowTurns(run'[r], resv[r])
             /\ Claimed(run'[r].state) =>
                  run'[r].state = run[r].state /\ run'[r].ckpt = run[r].ckpt
    PROVE  Turns' /\ TurnSentOnce'
  <1>1. ASSUME NEW w \in Workers, held'[w] # None
        PROVE  HeldTurns(held'[w], run'[held'[w].lease.run],
                         resv'[held'[w].lease.run])
    <2> DEFINE h == held[w]
               r == held[w].lease.run
    <2>1. /\ held'[w] = h /\ h # None /\ r \in Runs
          /\ HeldTurns(h, run[r], resv[r])
      BY <1>1, HeldTypes DEF Turns
    <2>2. /\ run'[r].gen = run[r].gen
          /\ Claimed(run'[r].state) =>
               run'[r].state = run[r].state /\ run'[r].ckpt = run[r].ckpt
          /\ resv'[r] = resv[r]
      BY <2>1
    <2> HIDE DEF h, r
    <2>3. HeldTurns(h, run'[r], resv'[r])
      BY <2>1, <2>2 DEF HeldTurns, Place
    <2>4. QED
      BY <2>1, <2>3 DEF r, h
  <1>2. OneHolder'
    BY DEF Turns, OneHolder
  <1>3. TurnSentOnce'
    BY DEF TurnSentOnce
  <1>4. QED
    BY <1>1, <1>2, <1>3 DEF Turns

(* A step of the worker of an attempt, the current one or the next.        *)
LEMMA WorkerFrame ==
    ASSUME Inv, Turns, NEW w \in Workers, NEW r \in Runs,
           \A u \in Workers \ {w} : held'[u] = held[u],
           \A q \in Runs \ {r} : run'[q] = run[q] /\ resv'[q] = resv[q],
           \A u \in Workers \ {w} :
             (held[u] # None /\ held[u].lease.run = r) =>
               /\ held[u].lease.gen <= run'[r].gen
               /\ held[u].lease.gen # run'[r].gen,
           \A v \in resv[r] : v.state = "committed" => v \in resv'[r],
           RowTurns(run'[r], resv'[r]),
           held'[w].lease.run = r, held'[w].lease.gen = run'[r].gen,
           HeldTurns(held'[w], run'[r], resv'[r])
    PROVE  Turns'
  <1>1. ASSUME NEW q \in Runs PROVE RowTurns(run'[q], resv'[q])
    BY DEF Turns
  <1>2. ASSUME NEW u \in Workers, held'[u] # None
        PROVE  HeldTurns(held'[u], run'[held'[u].lease.run],
                         resv'[held'[u].lease.run])
    <2>1. CASE u = w
      BY <2>1
    <2>2. CASE u # w
      <3> DEFINE q == held[u].lease.run
      <3>1. /\ q \in Runs /\ held'[u] = held[u] /\ held[u] # None
            /\ HeldTurns(held[u], run[q], resv[q])
        BY <1>2, <2>2, HeldTypes DEF Turns
      <3>2. CASE q # r
        BY <2>2, <3>1, <3>2
      <3>3. CASE q = r
        <4>1. /\ held[u].lease.gen <= run'[r].gen
              /\ held[u].lease.gen # run'[r].gen
          BY <2>2, <3>1, <3>3
        <4>2. Paid(resv[r], held[u].lease.gen) =>
                Paid(resv'[r], held[u].lease.gen)
          BY DEF Paid
        <4>3. HeldTurns(held[u], run[r], resv[r])
          BY <3>1, <3>3
        <4>4. HeldTurns(held[u], run'[r], resv'[r])
          BY <4>1, <4>2, <4>3 DEF HeldTurns
        <4>5. QED
          BY <3>1, <3>3, <4>4
      <3>4. QED
        BY <3>2, <3>3
    <2>3. QED
      BY <2>1, <2>2
  <1>3. OneHolder'
    <2> SUFFICES ASSUME NEW u \in Workers, NEW x \in Workers, u # x,
                        held'[u] # None, held'[x] # None,
                        held'[u].lease.run = held'[x].lease.run
                 PROVE  held'[u].lease.gen # held'[x].lease.gen
      BY DEF OneHolder
    <2>1. CASE u # w /\ x # w
      BY <2>1 DEF Turns, OneHolder
    <2>2. CASE u = w
      BY <2>2
    <2>3. CASE x = w
      BY <2>3
    <2>4. QED
      BY <2>1, <2>2, <2>3
  <1>4. QED
    BY <1>1, <1>2, <1>3 DEF Turns

(* The workers of other attempts of a run, when one of them is current and *)
(* when a claim begins the next.                                           *)
LEMMA OthersOlder ==
    ASSUME Inv, Turns, NEW w \in Workers, held[w] # None,
           held[w].lease.gen = run[held[w].lease.run].gen
    PROVE  \A u \in Workers \ {w} :
             (held[u] # None /\ held[u].lease.run = held[w].lease.run) =>
               /\ held[u].lease.gen <= run[held[w].lease.run].gen
               /\ held[u].lease.gen # run[held[w].lease.run].gen
  BY DEF Turns, OneHolder, HeldTurns
LEMMA AllOlder ==
    ASSUME Inv, Turns, NEW r \in Runs, NEW u \in Workers, held[u] # None,
           held[u].lease.run = r
    PROVE  /\ held[u].lease.gen <= run[r].gen + 1
           /\ held[u].lease.gen # run[r].gen + 1
  <1>1. held[u].lease.gen <= run[r].gen
    BY DEF Turns, HeldTurns
  <1>2. held[u].lease.gen \in Nat /\ run[r].gen \in Nat
    BY HeldTypes, TurnTypes
  <1>3. QED
    BY <1>1, <1>2

(* A worker that renews its lease and sends nothing.                       *)
LEMMA RenewalTurns ==
    ASSUME TInv, NEW w \in Workers, NEW r \in Runs, NEW row, NEW h,
           run' = [run EXCEPT ![r] = row], held' = [held EXCEPT ![w] = h],
           resv' = resv, h.lease.run = r, h.lease.gen = row.gen,
           row.gen \in Nat,
           \A u \in Workers \ {w} :
             (held[u] # None /\ held[u].lease.run = r) =>
               held[u].lease.gen <= row.gen /\ held[u].lease.gen # row.gen,
           RowTurns(row, resv[r]),
           h.phase \in {"settled", "turned", "batched", "answered"} =>
             Paid(resv[r], h.lease.gen),
           Place(h, row, resv[r])
    PROVE  Turns' /\ TurnSentOnce'
  <1>1. /\ run'[r] = row /\ \A q \in Runs \ {r} : run'[q] = run[q]
        /\ held'[w] = h /\ \A u \in Workers \ {w} : held'[u] = held[u]
    BY DEF TInv, Inv, TypeOK
  <1>2. HeldTurns(h, row, resv[r])
    BY DEF HeldTurns
  <1>3. Turns'
    BY <1>1, <1>2, WorkerFrame DEF TInv
  <1>4. TurnSentOnce'
    BY DEF TInv, TurnSentOnce
  <1>5. QED
    BY <1>3, <1>4

LEMMA ClaimTurns ==
    ASSUME TInv, NEW w \in Workers, NEW r \in Runs,
           NEW lag \in 0..MaxLag, Claim(w, r, lag)
    PROVE  Turns' /\ TurnSentOnce'
  <1> DEFINE old == run[r]
             row == Leased(old, w, lag)
             h == [lease |-> LeaseFromRecord(r, row), phase |-> "claimed",
                   turns |-> 0]
             rs == resv[r]
  <1>1. /\ old \in RunRow /\ old.gen \in Nat
        /\ old.ckpt # None => old.ckpt.gen \in Nat
    BY TurnTypes DEF TInv
  <1>2. Waiting(old.state) /\ RowTurns(old, rs)
    BY DEF Claim, Claimable, Oldest, Waiting, TInv, Turns
  <1>3. /\ row.state = "Leased" /\ row.gen = old.gen + 1
        /\ row.err = "none"
        /\ row.ckpt = IF old.err = "adoption_ready" THEN old.ckpt ELSE None
    BY <1>1 DEF Leased, RunRow
  <1>4. h.lease.run = r /\ h.lease.gen = row.gen /\ h.phase = "claimed"
    BY DEF LeaseFromRecord
  <1>5. run' = [run EXCEPT ![r] = row] /\ held' = [held EXCEPT ![w] = h]
        /\ resv' = resv
    BY DEF Claim, Renew
  <1> HIDE DEF old, row, h, rs
  <1>6. RowTurns(row, rs)
    BY <1>1, <1>2, <1>3 DEF RowTurns, Waiting, HasOutput
  <1>7. Place(h, row, rs)
    BY <1>3, <1>4 DEF Place
  <1>8. \A u \in Workers \ {w} :
          (held[u] # None /\ held[u].lease.run = r) =>
            held[u].lease.gen <= row.gen /\ held[u].lease.gen # row.gen
    BY <1>3, AllOlder DEF TInv, old
  <1>9. row.gen \in Nat
    BY <1>1, <1>3
  <1>10. QED
    BY <1>4, <1>5, <1>6, <1>7, <1>8, <1>9, RenewalTurns, ZenonT(40) DEF rs

LEMMA StartTurns ==
    ASSUME TInv, NEW w \in Workers, Start(w)
    PROVE  Turns' /\ TurnSentOnce'
  <1> DEFINE r == held[w].lease.run
             old == run[r]
             row == [old EXCEPT !.state = "Running", !.expiry = Ttl]
             h == [lease |-> LeaseFromRecord(r, row),
                   phase |-> IF row.ckpt = None THEN "ready" ELSE "adopting",
                   turns |-> IF row.ckpt = None THEN 0 ELSE row.ckpt.turns]
             rs == resv[r]
  <1>1. Fenced(w, 0) /\ 0 \in 0..MaxLag /\ held[w] # None
    BY RunRowsAssumption, SMTT(20) DEF Start, Fenced
  <1>2. r \in Runs /\ old \in RunRow /\ old.gen = held[w].lease.gen
    BY <1>1, FencedFacts DEF TInv
  <1>3. /\ old.state = "Leased" /\ RowTurns(old, rs) /\ old.gen \in Nat
        /\ old.ckpt # None => old.ckpt.gen \in Nat
        /\ \A v \in rs : v.turn \in Nat
    BY <1>2, TurnTypes DEF Start, TInv, Turns
  <1>4. /\ row.state = "Running" /\ row.gen = old.gen /\ row.err = old.err
        /\ row.ckpt = old.ckpt
    BY <1>2 DEF RunRow
  <1>5. /\ h.lease.run = r /\ h.lease.gen = row.gen
        /\ h.phase = IF row.ckpt = None THEN "ready" ELSE "adopting"
        /\ h.turns = IF row.ckpt = None THEN 0 ELSE row.ckpt.turns
    BY DEF LeaseFromRecord
  <1>6. run' = [run EXCEPT ![r] = row] /\ held' = [held EXCEPT ![w] = h]
        /\ resv' = resv
    BY DEF Start, Renew
  <1>7. \A u \in Workers \ {w} :
          (held[u] # None /\ held[u].lease.run = r) =>
            held[u].lease.gen <= row.gen /\ held[u].lease.gen # row.gen
    BY <1>1, <1>2, <1>4, OthersOlder DEF TInv
  <1> HIDE DEF old, row, h, rs
  <1>8. RowTurns(row, rs)
    BY <1>3, <1>4 DEF RowTurns, Waiting, HasOutput
  <1>9. Place(h, row, rs)
    <2>1. CASE row.ckpt = None
      BY <1>3, <1>4, <1>5, <2>1 DEF Place, RowTurns, Unsent, Behind
    <2>2. CASE row.ckpt # None
      BY <1>3, <1>4, <1>5, <2>2 DEF Place, RowTurns
    <2>3. QED
      BY <2>1, <2>2
  <1> HIDE DEF r
  <1>10. /\ row.gen \in Nat
         /\ h.phase \notin {"settled", "turned", "batched", "answered"}
    BY <1>3, <1>4, <1>5
  <1>11. QED
    BY <1>2, <1>5, <1>6, <1>7, <1>8, <1>9, <1>10, RenewalTurns DEF rs

LEMMA HeartbeatTurns ==
    ASSUME TInv, NEW w \in Workers, Heartbeat(w)
    PROVE  Turns' /\ TurnSentOnce'
  <1> DEFINE r == held[w].lease.run
             old == run[r]
             row == [old EXCEPT !.expiry = Ttl]
             g == held[w]
             h == [lease |-> LeaseFromRecord(r, row), phase |-> g.phase,
                   turns |-> g.turns]
             rs == resv[r]
  <1>1. Fenced(w, 0) /\ 0 \in 0..MaxLag /\ g # None
        /\ g.phase \in {"ready", "reserved", "sent"}
    BY RunRowsAssumption DEF Heartbeat, Fenced
  <1>2. /\ r \in Runs /\ old \in RunRow /\ old.gen = g.lease.gen
        /\ Claimed(old.state)
    BY <1>1, FencedFacts DEF TInv
  <1>3. RowTurns(old, rs) /\ old.gen \in Nat /\ Place(g, old, rs)
    BY <1>1, <1>2, TurnTypes DEF TInv, Turns, HeldTurns
  <1>4. /\ row.state = old.state /\ row.gen = old.gen /\ row.err = old.err
        /\ row.ckpt = old.ckpt
    BY <1>2 DEF RunRow
  <1>5. /\ h.lease.run = r /\ h.lease.gen = row.gen
        /\ h.phase = g.phase /\ h.turns = g.turns
    BY DEF LeaseFromRecord
  <1>6. run' = [run EXCEPT ![r] = row] /\ held' = [held EXCEPT ![w] = h]
        /\ resv' = resv
    BY DEF Heartbeat, Renew
  <1>7. \A u \in Workers \ {w} :
          (held[u] # None /\ held[u].lease.run = r) =>
            held[u].lease.gen <= row.gen /\ held[u].lease.gen # row.gen
    BY <1>1, <1>2, <1>4, OthersOlder DEF TInv
  <1> HIDE DEF old, row, h, rs, g
  <1>8. RowTurns(row, rs)
    BY <1>3, <1>4 DEF RowTurns, HasOutput
  <1>9. Place(h, row, rs)
    BY <1>2, <1>3, <1>4, <1>5 DEF Place, Pending
  <1> HIDE DEF r
  <1>10. /\ row.gen \in Nat
         /\ h.phase \notin {"settled", "turned", "batched", "answered"}
    BY <1>1, <1>3, <1>4, <1>5
  <1>11. QED
    BY <1>2, <1>5, <1>6, <1>7, <1>8, <1>9, <1>10, RenewalTurns DEF rs

(* What a worker with the current attempt knows of its place.              *)
LEMMA PlaceFacts ==
    ASSUME TInv, NEW w \in Workers, held[w] # None,
           held[w].lease.gen = run[held[w].lease.run].gen,
           Claimed(run[held[w].lease.run].state)
    PROVE  LET r == held[w].lease.run
           IN  /\ r \in Runs /\ run[r] \in RunRow /\ run[r].gen \in Nat
               /\ RowTurns(run[r], resv[r])
               /\ Place(held[w], run[r], resv[r])
               /\ held[w].phase \in {"settled", "turned", "batched",
                                     "answered"} =>
                    Paid(resv[r], held[w].lease.gen)
               /\ held[w].turns \in Nat
               /\ \A v \in resv[r] : v \in Reservation /\ v.turn \in Nat
               /\ \A u \in Workers \ {w} :
                    (held[u] # None /\ held[u].lease.run = r) =>
                      /\ held[u].lease.gen <= run[r].gen
                      /\ held[u].lease.gen # run[r].gen
  <1> DEFINE r == held[w].lease.run
  <1>1. r \in Runs /\ held[w].turns \in Nat
    BY HeldTypes DEF TInv
  <1>2. /\ run[r] \in RunRow /\ run[r].gen \in Nat
        /\ \A v \in resv[r] : v \in Reservation /\ v.turn \in Nat
    BY <1>1, TurnTypes DEF TInv
  <1>3. RowTurns(run[r], resv[r]) /\ HeldTurns(held[w], run[r], resv[r])
    BY <1>1 DEF TInv, Turns
  <1>4. Place(held[w], run[r], resv[r])
        /\ (held[w].phase \in {"settled", "turned", "batched", "answered"} =>
              Paid(resv[r], held[w].lease.gen))
    BY <1>3 DEF HeldTurns
  <1>5. \A u \in Workers \ {w} :
          (held[u] # None /\ held[u].lease.run = r) =>
            held[u].lease.gen <= run[r].gen /\ held[u].lease.gen # run[r].gen
    BY OthersOlder DEF TInv
  <1>6. QED
    BY <1>1, <1>2, <1>3, <1>4, <1>5

(* The checkpoints of a running attempt: the pointer moves to c, or is     *)
(* taken back, and the worker goes on in phase p.                          *)
LEMMA PointedTurns ==
    ASSUME TInv, NEW w \in Workers, NEW lag \in 0..MaxLag, Fenced(w, lag),
           run[held[w].lease.run].state = "Running",
           NEW c \in Checkpoint \cup {None},
           NEW p \in {"ready", "turned", "batched", "answered"},
           run' = [run EXCEPT ![held[w].lease.run] =
                     Pointed(run[held[w].lease.run], c, Ttl - lag)],
           held' = [held EXCEPT ![w] =
                      [lease |-> LeaseFromRecord(held[w].lease.run,
                         Pointed(run[held[w].lease.run], c, Ttl - lag)),
                       phase |-> p, turns |-> held[w].turns]],
           resv' = resv,
           c # None => /\ c.gen = held[w].lease.gen
                       /\ c.turns = held[w].turns
                       /\ ~ToolTurns => c.kind = "output",
           p # "ready" => Paid(resv[held[w].lease.run], held[w].lease.gen),
           p = "ready" => c = None /\ ToolTurns,
           p = "turned" => ToolTurns,
           p = "batched" => c # None /\ c.kind = "batch",
           (c # None /\ c.kind = "output") => p = "answered",
           held[w].phase \notin {"claimed", "reserved", "sent"}
    PROVE  Turns' /\ TurnSentOnce'
  <1> DEFINE r == held[w].lease.run
             old == run[r]
             row == Pointed(old, c, Ttl - lag)
             g == held[w]
             h == [lease |-> LeaseFromRecord(r, row), phase |-> p,
                   turns |-> g.turns]
             rs == resv[r]
  <1>1. g # None /\ g.lease.gen = old.gen /\ old.state = "Running"
        /\ Claimed(old.state)
    BY FencedFacts DEF Fenced, TInv
  <1>2. /\ r \in Runs /\ old \in RunRow /\ old.gen \in Nat
        /\ RowTurns(old, rs) /\ Place(g, old, rs) /\ g.turns \in Nat
        /\ \A u \in Workers \ {w} :
             (held[u] # None /\ held[u].lease.run = r) =>
               held[u].lease.gen <= old.gen /\ held[u].lease.gen # old.gen
    BY <1>1, PlaceFacts
  <1>3. /\ row.state = "Running" /\ row.gen = old.gen /\ row.err = old.err
        /\ row.ckpt = c
    BY <1>1, <1>2 DEF RunRow, Pointed
  <1>4. /\ h.lease.run = r /\ h.lease.gen = row.gen
        /\ h.phase = p /\ h.turns = g.turns
    BY DEF LeaseFromRecord
  <1>5. run' = [run EXCEPT ![r] = row] /\ held' = [held EXCEPT ![w] = h]
        /\ g.phase \notin {"claimed", "reserved", "sent"}
        /\ (c # None => /\ c.gen = old.gen /\ c.turns = g.turns
                        /\ ~ToolTurns => c.kind = "output")
        /\ (p # "ready" => Paid(rs, old.gen))
    BY <1>1
  <1> HIDE DEF old, row, h, rs, g, r
  <1>6. Behind(rs, g.turns)
    BY <1>2, <1>5 DEF Place
  <1>7. RowTurns(row, rs)
    BY <1>2, <1>3, <1>5, <1>6 DEF RowTurns, Waiting, HasOutput
  <1>8. Place(h, row, rs)
    BY <1>3, <1>4, <1>5, <1>6 DEF Place
  <1>9. /\ row.gen \in Nat
        /\ h.phase \in {"settled", "turned", "batched", "answered"} =>
             Paid(rs, h.lease.gen)
        /\ \A u \in Workers \ {w} :
             (held[u] # None /\ held[u].lease.run = r) =>
               held[u].lease.gen <= row.gen /\ held[u].lease.gen # row.gen
    BY <1>2, <1>3, <1>4, <1>5
  <1>10. RowTurns(row, resv[r]) /\ Place(h, row, resv[r])
         /\ (h.phase \in {"settled", "turned", "batched", "answered"} =>
               Paid(resv[r], h.lease.gen))
    BY <1>7, <1>8, <1>9 DEF rs
  <1>11. /\ run' = [run EXCEPT ![r] = row] /\ held' = [held EXCEPT ![w] = h]
         /\ resv' = resv /\ h.lease.run = r /\ h.lease.gen = row.gen
    BY <1>4, <1>5
  <1>12. PICK b, x, q : b = row /\ x = h /\ q = r
    OBVIOUS
  <1>13. /\ run' = [run EXCEPT ![q] = b] /\ held' = [held EXCEPT ![w] = x]
         /\ q \in Runs
         /\ resv' = resv /\ x.lease.run = q /\ x.lease.gen = b.gen
         /\ b.gen \in Nat
         /\ \A u \in Workers \ {w} :
              (held[u] # None /\ held[u].lease.run = q) =>
                held[u].lease.gen <= b.gen /\ held[u].lease.gen # b.gen
         /\ RowTurns(b, resv[q]) /\ Place(x, b, resv[q])
         /\ (x.phase \in {"settled", "turned", "batched", "answered"} =>
               Paid(resv[q], x.lease.gen))
    BY <1>2, <1>9, <1>10, <1>11, <1>12
  <1>14. QED
    BY ONLY TInv, <1>13, RenewalTurns, ZenonT(40)

LEMMA CheckpointsTurns ==
    ASSUME TInv, NEW w \in Workers, NEW lag \in 0..MaxLag,
           \/ PersistProviderTurn(w, lag)
           \/ PersistToolBatch(w, lag)
           \/ ConsumeAdoptionCheckpoint(w, lag)
           \/ AppendProviderOutput(w, lag)
    PROVE  Turns' /\ TurnSentOnce'
  <1> DEFINE r == held[w].lease.run
             g == held[w]
  <1>1. Fenced(w, lag) /\ run[r].state = "Running" /\ resv' = resv
    BY DEF PersistProviderTurn, PersistToolBatch, AppendCoordinatorCheckpoint,
           ConsumeAdoptionCheckpoint, AppendProviderOutput
  <1>2. /\ g # None /\ g.lease.gen = run[r].gen /\ g \in Held
        /\ g.lease \in AiRunLease /\ Claimed(run[r].state)
    BY <1>1, FencedFacts DEF Fenced, TInv
  <1>3. /\ RowTurns(run[r], resv[r]) /\ Place(g, run[r], resv[r])
        /\ g.phase \in {"settled", "turned", "batched", "answered"} =>
             Paid(resv[r], g.lease.gen)
    BY <1>2, PlaceFacts
  <1>4. \A k \in {"turn", "batch", "output"} :
          LET c == CheckpointOf(w, k)
          IN  /\ c \in Checkpoint /\ c # None /\ c.kind = k
              /\ c.gen = g.lease.gen /\ c.turns = g.turns
    BY <1>2, CheckpointAssumption
    DEF CheckpointOf, Checkpoint, Held, AiRunLease
  <1>5. CASE PersistProviderTurn(w, lag)
    <2> DEFINE c == CheckpointOf(w, "turn")
    <2>1. /\ run' = [run EXCEPT ![r] = Pointed(run[r], c, Ttl - lag)]
          /\ held' = [held EXCEPT ![w] =
               [lease |-> LeaseFromRecord(r, Pointed(run[r], c, Ttl - lag)),
                phase |-> "turned", turns |-> g.turns]]
          /\ ToolTurns /\ g.phase = "settled"
      BY <1>5 DEF PersistProviderTurn, AppendCoordinatorCheckpoint, Renew,
                  Pointed
    <2>2. /\ c \in Checkpoint /\ c # None /\ c.kind = "turn"
          /\ c.gen = g.lease.gen /\ c.turns = g.turns
      BY <1>4
    <2> HIDE DEF c
    <2>3. QED
      BY <1>1, <1>3, <2>1, <2>2, PointedTurns
  <1>6. CASE PersistToolBatch(w, lag)
    <2> DEFINE c == CheckpointOf(w, "batch")
    <2>1. /\ run' = [run EXCEPT ![r] = Pointed(run[r], c, Ttl - lag)]
          /\ held' = [held EXCEPT ![w] =
               [lease |-> LeaseFromRecord(r, Pointed(run[r], c, Ttl - lag)),
                phase |-> "batched", turns |-> g.turns]]
          /\ g.phase = "turned"
      BY <1>6 DEF PersistToolBatch, AppendCoordinatorCheckpoint, Renew,
                  Pointed
    <2>2. /\ c \in Checkpoint /\ c # None /\ c.kind = "batch"
          /\ c.gen = g.lease.gen /\ c.turns = g.turns
      BY <1>4
    <2>3. ToolTurns
      BY <1>3, <2>1 DEF Place
    <2> HIDE DEF c
    <2>4. QED
      BY <1>1, <1>3, <2>1, <2>2, <2>3, PointedTurns
  <1>7. CASE ConsumeAdoptionCheckpoint(w, lag)
    <2>1. /\ run' = [run EXCEPT ![r] = Pointed(run[r], None, Ttl - lag)]
          /\ held' = [held EXCEPT ![w] =
               [lease |-> LeaseFromRecord(r, Pointed(run[r], None, Ttl - lag)),
                phase |-> "ready", turns |-> g.turns]]
          /\ g.phase \in {"adopting", "batched"}
          /\ run[r].ckpt # None /\ run[r].ckpt.kind = "batch"
      BY <1>7 DEF ConsumeAdoptionCheckpoint, Renew, Pointed
    <2>2. ToolTurns
      BY <1>3, <2>1 DEF RowTurns
    <2>3. QED
      BY <1>1, <1>3, <2>1, <2>2, PointedTurns
  <1>8. CASE AppendProviderOutput(w, lag)
    <2> DEFINE c == CheckpointOf(w, "output")
    <2>1. /\ run' = [run EXCEPT ![r] = Pointed(run[r], c, Ttl - lag)]
          /\ held' = [held EXCEPT ![w] =
               [lease |-> LeaseFromRecord(r, Pointed(run[r], c, Ttl - lag)),
                phase |-> "answered", turns |-> g.turns]]
          /\ g.phase \in {"turned", "settled"}
      BY <1>8 DEF AppendProviderOutput, Renew, Pointed
    <2>2. /\ c \in Checkpoint /\ c # None /\ c.kind = "output"
          /\ c.gen = g.lease.gen /\ c.turns = g.turns
      BY <1>4
    <2> HIDE DEF c
    <2>3. QED
      BY <1>1, <1>3, <2>1, <2>2, PointedTurns
  <1>9. QED
    BY <1>5, <1>6, <1>7, <1>8

-----------------------------------------------------------------------------
(* What the ledger of a running attempt may become: its worker's turn is   *)
(* reserved, given back, sent or committed.                                *)
LEMMA BudgetFacts ==
    ASSUME TInv, NEW w \in Workers, NEW lag \in 0..MaxLag,
           BudgetFenced(w, lag)
    PROVE  /\ held[w] # None
           /\ held[w].lease.gen = run[held[w].lease.run].gen
           /\ Claimed(run[held[w].lease.run].state)
           /\ run[held[w].lease.run].state = "Running"
           /\ held[w] \in Held /\ held[w].lease \in AiRunLease
  BY DEF BudgetFenced, Claimed, TInv, Inv, TypeOK, Held

LEMMA LedgerTurns ==
    ASSUME TInv, NEW w \in Workers, NEW lag \in 0..MaxLag,
           BudgetFenced(w, lag), NEW rs, NEW h,
           run' = run, held' = [held EXCEPT ![w] = h],
           resv' = [resv EXCEPT ![held[w].lease.run] = rs],
           h.lease = held[w].lease,
           run[held[w].lease.run].ckpt = None,
           \A v \in resv[held[w].lease.run] : v.state = "committed" => v \in rs,
           \A v \in rs : v.turn >= 1,
           \A u, v \in rs :
             (u.turn = v.turn /\ u.state # "released"
                /\ v.state # "released") => u = v,
           h.phase = "settled" => Paid(rs, h.lease.gen),
           h.phase \in {"reserved", "refused", "sent", "settled"},
           (h.phase # "settled" /\ ~ToolTurns) => h.turns = 0,
           h.phase \in {"refused", "settled"} => Behind(rs, h.turns),
           h.phase = "reserved" => Pending(h, rs, "reserved"),
           h.phase = "sent" => Pending(h, rs, "uncertain")
    PROVE  Turns' /\ TurnSentOnce'
  <1> DEFINE r == held[w].lease.run
             row == run[r]
  <1>1. /\ r \in Runs /\ row.gen \in Nat /\ row.state = "Running"
        /\ held[w].lease.gen = row.gen
        /\ \A u \in Workers \ {w} :
             (held[u] # None /\ held[u].lease.run = r) =>
               held[u].lease.gen <= row.gen /\ held[u].lease.gen # row.gen
    BY BudgetFacts, PlaceFacts
  <1>2. /\ resv'[r] = rs /\ \A q \in Runs \ {r} : resv'[q] = resv[q]
        /\ held'[w] = h /\ \A u \in Workers \ {w} : held'[u] = held[u]
        /\ h.lease.run = r /\ h.lease.gen = row.gen
        /\ run'[r] = row /\ \A q \in Runs \ {r} : run'[q] = run[q]
        /\ row.ckpt = None
        /\ \A v \in resv[r] : v.state = "committed" => v \in rs
    BY <1>1 DEF TInv, Inv, TypeOK
  <1> HIDE DEF r, row
  <1>3. RowTurns(row, rs)
    BY <1>1, <1>2 DEF RowTurns, Waiting, HasOutput
  <1>4. Place(h, row, rs)
    BY <1>1, <1>2 DEF Place
  <1>5. HeldTurns(h, row, rs)
    BY <1>1, <1>2, <1>4 DEF HeldTurns
  <1>6. Turns'
    <2>1. /\ \A u \in Workers \ {w} : held'[u] = held[u]
          /\ \A q \in Runs \ {r} : run'[q] = run[q] /\ resv'[q] = resv[q]
          /\ \A u \in Workers \ {w} :
               (held[u] # None /\ held[u].lease.run = r) =>
                 /\ held[u].lease.gen <= run'[r].gen
                 /\ held[u].lease.gen # run'[r].gen
          /\ \A v \in resv[r] : v.state = "committed" => v \in resv'[r]
          /\ RowTurns(run'[r], resv'[r])
          /\ held'[w].lease.run = r /\ held'[w].lease.gen = run'[r].gen
          /\ HeldTurns(held'[w], run'[r], resv'[r])
      BY <1>1, <1>2, <1>3, <1>5
    <2>2. Inv /\ Turns
      BY DEF TInv
    <2>3. QED
      BY ONLY <1>1, <2>1, <2>2, w \in Workers, WorkerFrame
  <1>7. TurnSentOnce'
    BY <1>1, <1>2 DEF TInv, TurnSentOnce
  <1>8. QED
    BY <1>6, <1>7

LEMMA ReserveTurns ==
    ASSUME TInv, NEW w \in Workers, NEW lag \in 0..MaxLag, Reserve(w, lag)
    PROVE  Turns' /\ TurnSentOnce'
  <1> DEFINE g == held[w]
             r == g.lease.run
             old == resv[r]
             x == [gen |-> g.lease.gen, turn |-> g.turns + 1,
                   state |-> "reserved"]
             rs == old \cup {x}
             h == [g EXCEPT !.phase = "reserved"]
  <1>1. /\ BudgetFenced(w, lag) /\ g.phase = "ready" /\ run' = run
        /\ held' = [held EXCEPT ![w].phase = "reserved"]
        /\ resv' = [resv EXCEPT ![r] = rs]
    BY DEF Reserve
  <1>2. g # None /\ g \in Held /\ run[r].state = "Running"
    BY <1>1, BudgetFacts
  <1>3. /\ r \in Runs /\ RowTurns(run[r], old) /\ Place(g, run[r], old)
        /\ g.turns \in Nat /\ \A v \in old : v.turn \in Nat
    BY <1>1, BudgetFacts, PlaceFacts
  <1>4. /\ h.lease = g.lease /\ h.phase = "reserved" /\ h.turns = g.turns
        /\ held' = [held EXCEPT ![w] = h]
    BY <1>1, <1>2 DEF Held
  <1>5. /\ run[r].ckpt = None /\ Behind(old, g.turns)
        /\ ~ToolTurns => g.turns = 0
        /\ \A v \in old : v.turn >= 1
    BY <1>1, <1>2, <1>3 DEF Place, RowTurns
  <1>6. /\ x.turn = g.turns + 1 /\ x.state = "reserved"
        /\ x = [gen |-> h.lease.gen, turn |-> h.turns + 1,
                state |-> "reserved"]
    BY <1>4
  <1>7. \A u, v \in old :
          (u.turn = v.turn /\ u.state # "released"
             /\ v.state # "released") => u = v
    BY <1>3 DEF TInv, TurnSentOnce
  <1> HIDE DEF g, r, old, x, h
  <1>8. \A v \in rs : v.turn >= 1
    BY <1>3, <1>5, <1>6
  <1>9. \A u, v \in rs :
          (u.turn = v.turn /\ u.state # "released"
             /\ v.state # "released") => u = v
    BY <1>3, <1>5, <1>6, <1>7 DEF Behind
  <1>10. Pending(h, rs, "reserved")
    BY <1>4, <1>5, <1>6 DEF Pending, Behind
  <1>11. \A v \in old : v.state = "committed" => v \in rs
    OBVIOUS
  <1> HIDE DEF rs
  <1>12. (h.phase # "settled" /\ ~ToolTurns) => h.turns = 0
    BY <1>4, <1>5
  <1>13. /\ h.phase = "settled" => Paid(rs, h.lease.gen)
         /\ h.phase \in {"reserved", "refused", "sent", "settled"}
         /\ h.phase \in {"refused", "settled"} => Behind(rs, h.turns)
         /\ h.phase = "reserved" => Pending(h, rs, "reserved")
         /\ h.phase = "sent" => Pending(h, rs, "uncertain")
    BY <1>4, <1>10
  <1>14. /\ held' = [held EXCEPT ![w] = h] /\ h.lease = held[w].lease
         /\ resv' = [resv EXCEPT ![held[w].lease.run] = rs]
         /\ run[held[w].lease.run].ckpt = None
         /\ \A v \in resv[held[w].lease.run] :
              v.state = "committed" => v \in rs
         /\ run' = run /\ BudgetFenced(w, lag)
    BY <1>1, <1>4, <1>5, <1>11 DEF g, r, old
  <1>15. QED
    BY ONLY TInv, lag \in 0..MaxLag, <1>8, <1>9, <1>12, <1>13, <1>14,
       LedgerTurns

(* A reconciliation moves one reservation x of the turn to y.              *)
LEMMA ReconcileTurns ==
    ASSUME TInv, NEW w \in Workers, NEW lag \in 0..MaxLag,
           NEW from \in {"reserved", "uncertain"},
           NEW to \in {"uncertain", "committed", "released"},
           NEW p \in {"refused", "sent", "settled"}, NEW turns \in Nat,
           Reconcile(w, lag, from, to, p, turns),
           held[w].phase = IF from = "reserved" THEN "reserved" ELSE "sent",
           p = "settled" => to = "committed" /\ turns = held[w].turns + 1,
           p # "settled" => turns = held[w].turns,
           p = "refused" <=> to = "released",
           p = "sent" => to = "uncertain"
    PROVE  Turns' /\ TurnSentOnce'
  <1> DEFINE g == held[w]
             r == g.lease.run
             old == resv[r]
             mine == {v \in old : v.gen = g.lease.gen /\ v.turn = g.turns + 1
                                  /\ v.state = from}
             rs == (old \ mine) \cup {[v EXCEPT !.state = to] : v \in mine}
             h == [g EXCEPT !.phase = p, !.turns = turns]
  <1>1. /\ BudgetFenced(w, lag) /\ run' = run /\ mine # {}
        /\ held' = [held EXCEPT ![w].phase = p, ![w].turns = turns]
        /\ resv' = [resv EXCEPT ![r] = rs]
    BY DEF Reconcile
  <1>2. g # None /\ g \in Held /\ run[r].state = "Running"
    BY <1>1, BudgetFacts
  <1>3. /\ r \in Runs /\ RowTurns(run[r], old) /\ Place(g, run[r], old)
        /\ g.turns \in Nat
        /\ \A v \in old : v \in Reservation /\ v.turn \in Nat
    BY <1>1, BudgetFacts, PlaceFacts
  <1>4. /\ h.lease = g.lease /\ h.phase = p /\ h.turns = turns
        /\ held' = [held EXCEPT ![w] = h]
    BY <1>1, <1>2 DEF Held, TInv, Inv, TypeOK
  <1>5. /\ run[r].ckpt = None /\ Pending(g, old, from)
        /\ ~ToolTurns => g.turns = 0
        /\ \A v \in old : v.turn >= 1
    BY <1>1, <1>2, <1>3 DEF Place, RowTurns
  <1> DEFINE x == [gen |-> g.lease.gen, turn |-> g.turns + 1, state |-> from]
             y == [gen |-> g.lease.gen, turn |-> g.turns + 1, state |-> to]
  <1>6. \A v \in mine : v = x
    BY <1>3 DEF Reservation
  <1>7. mine = {x} /\ [x EXCEPT !.state = to] = y
    BY <1>1, <1>6
  <1>8. rs = (old \ {x}) \cup {y} /\ x \in old
    <2>1. {[v EXCEPT !.state = to] : v \in mine} = {y}
      BY <1>7
    <2>2. x \in old
      BY <1>7
    <2>3. QED
      BY <1>7, <2>1, <2>2
  <1>9. /\ x.turn = g.turns + 1 /\ x.state = from /\ y.turn = g.turns + 1
        /\ y.state = to /\ y.gen = g.lease.gen
        /\ x = [gen |-> g.lease.gen, turn |-> g.turns + 1, state |-> from]
        /\ y = [gen |-> g.lease.gen, turn |-> g.turns + 1, state |-> to]
    OBVIOUS
  <1>10. \A u, v \in old :
          (u.turn = v.turn /\ u.state # "released"
             /\ v.state # "released") => u = v
    BY <1>3 DEF TInv, TurnSentOnce
  <1> HIDE DEF g, r, old, mine, x, y, h, rs
  <1>11. \A v \in rs : v = y \/ (v \in old /\ v # x)
    BY <1>8
  <1>12. \A v \in rs : v.turn >= 1
    BY <1>3, <1>5, <1>9, <1>11
  <1>13. \A u, v \in rs :
          (u.turn = v.turn /\ u.state # "released"
             /\ v.state # "released") => u = v
    <2>1. \A v \in old : v # x /\ v.turn = g.turns + 1 => v.state = "released"
      BY <1>8, <1>9, <1>10
    <2>2. QED
      BY <1>9, <1>10, <1>11, <2>1
  <1>14. \A v \in old : (v # x /\ v.state # "released") => v.turn <= g.turns
    BY <1>5, <1>9 DEF Pending
  <1>15. \A v \in old : v.state = "committed" => v \in rs
    BY <1>8, <1>9
  <1>16. p = "settled" => Paid(rs, h.lease.gen) /\ Behind(rs, h.turns)
    <2>1. SUFFICES ASSUME p = "settled"
                   PROVE  Paid(rs, h.lease.gen) /\ Behind(rs, h.turns)
      OBVIOUS
    <2>2. turns = g.turns + 1 /\ to = "committed"
      BY <2>1 DEF g
    <2>3. Paid(rs, h.lease.gen)
      BY <1>4, <1>8, <1>9, <2>2 DEF Paid
    <2>4. \A v \in rs : v.state # "released" => v.turn <= turns
      BY <1>3, <1>9, <1>11, <1>14, <2>2
    <2>5. QED
      BY <1>4, <2>3, <2>4 DEF Behind
  <1>17. p = "refused" => Behind(rs, h.turns)
    <2>1. p = "refused" => turns = g.turns /\ to = "released"
      BY DEF g
    <2>2. QED
      BY <1>4, <1>9, <1>11, <1>14, <2>1 DEF Behind
  <1>18. p = "sent" => Pending(h, rs, "uncertain")
    <2>1. p = "sent" => turns = g.turns /\ to = "uncertain"
      BY DEF g
    <2>2. QED
      BY <1>4, <1>9, <1>11, <1>14, <2>1 DEF Pending
  <1>19. (h.phase # "settled" /\ ~ToolTurns) => h.turns = 0
    BY <1>4, <1>5 DEF g
  <1>20. /\ h.phase = "settled" => Paid(rs, h.lease.gen)
         /\ h.phase \in {"reserved", "refused", "sent", "settled"}
         /\ h.phase \in {"refused", "settled"} => Behind(rs, h.turns)
         /\ h.phase = "reserved" => Pending(h, rs, "reserved")
         /\ h.phase = "sent" => Pending(h, rs, "uncertain")
    BY <1>4, <1>16, <1>17, <1>18
  <1>21. /\ held' = [held EXCEPT ![w] = h] /\ h.lease = held[w].lease
         /\ resv' = [resv EXCEPT ![held[w].lease.run] = rs]
         /\ run[held[w].lease.run].ckpt = None
         /\ \A v \in resv[held[w].lease.run] :
              v.state = "committed" => v \in rs
         /\ run' = run /\ BudgetFenced(w, lag)
    BY <1>1, <1>4, <1>5, <1>15 DEF g, r, old
  <1>22. QED
    BY ONLY TInv, lag \in 0..MaxLag, <1>12, <1>13, <1>19, <1>20, <1>21,
       LedgerTurns

-----------------------------------------------------------------------------
(* The rows that are left when nothing is sent.                            *)
LEMMA SameRowTurns ==
    ASSUME NEW row, NEW new, NEW rs, RowTurns(row, rs),
           new.state = row.state \/ new.state \in Closing,
           new.err = row.err \/ new.state \in Closing,
           new.ckpt = row.ckpt, new.gen = row.gen
    PROVE  RowTurns(new, rs)
  BY DEF RowTurns, Closing, Waiting, HasOutput

LEMMA ClosedTurns ==
    ASSUME NEW row \in RunRow, NEW rs, RowTurns(row, rs), NEW s \in Closing,
           NEW err
    PROVE  /\ RowTurns(Closed(row, s, err), rs)
           /\ RowTurns([Closed(row, s, err) EXCEPT !.attempt = None], rs)
  <1> DEFINE a == Closed(row, s, err)
             b == [Closed(row, s, err) EXCEPT !.attempt = None]
  <1>1. /\ a.state = s /\ a.ckpt = row.ckpt /\ a.gen = row.gen
        /\ b.state = s /\ b.ckpt = row.ckpt /\ b.gen = row.gen
    BY DEF Closed, RunRow
  <1> HIDE DEF a, b
  <1>2. RowTurns(a, rs) /\ RowTurns(b, rs)
    BY <1>1 DEF RowTurns, Closing, Waiting, HasOutput
  <1>3. QED
    BY <1>2 DEF a, b

(* An attempt that is given up is attempted again from the start only when *)
(* nothing was sent, and from its checkpoint only after the tool batch.    *)
LEMMA RequeuedTurns ==
    ASSUME NEW row \in RunRow, NEW rs, RowTurns(row, rs), NEW err, NEW d,
           err # "adoption_ready" => Unsent(rs),
           err = "adoption_ready" => row.ckpt # None /\ row.ckpt.kind = "batch",
           ~HasOutput(row)
    PROVE  RowTurns(Requeued(row, err, d), rs)
  <1> DEFINE a == Requeued(row, err, d)
  <1>1. /\ a.state = "RetryScheduled" /\ a.err = err
        /\ a.ckpt = row.ckpt /\ a.gen = row.gen
    BY DEF Requeued, RunRow
  <1> HIDE DEF a
  <1>2. RowTurns(a, rs)
    BY <1>1 DEF RowTurns, Waiting, HasOutput
  <1>3. QED
    BY <1>2 DEF a

LEMMA RecoveredTurns ==
    ASSUME Inv, Turns, NEW r \in Runs, NEW lag \in 0..MaxLag,
           Claimed(run[r].state), ~Malformed(r)
    PROVE  RowTurns(Recovered(run[r], lag), resv[r])
  <1> DEFINE row == run[r]
             rs == resv[r]
             kind == IF row.ckpt = None THEN "none" ELSE row.ckpt.kind
             Left(s, err) == [Closed(row, s, err) EXCEPT !.attempt = None]
             retry == row.retries < MaxRetries
  <1>1. /\ row \in RunRow /\ RowOK(row) /\ row.gen \in Nat
        /\ row.ckpt # None => row.ckpt.gen \in Nat
        /\ RowTurns(row, rs)
    BY TurnTypes DEF Turns
  <1>2. row.ckpt # None => row.ckpt.gen = row.gen
    BY DEF Malformed
  <1>3. row.state = "Leased" => Unsent(rs) /\ ~HasOutput(row)
    BY <1>1, <1>2 DEF RowTurns, HasOutput
  <1>4. kind = "batch" => row.ckpt # None /\ row.ckpt.kind = "batch"
                          /\ ~HasOutput(row)
    BY DEF HasOutput
  <1>5. /\ RowTurns(Left("Failed", "other"), rs)
        /\ RowTurns(Left("Completed", "none"), rs)
        /\ RowTurns(Left("RecoveryRequired", "other"), rs)
    BY <1>1, ClosedTurns DEF Closing
  <1>6. row.state = "Leased" => RowTurns(Requeued(row, "other", 0 - lag), rs)
    BY <1>1, <1>3, RequeuedTurns
  <1>7. kind = "batch" =>
          RowTurns(Requeued(row, "adoption_ready", 0 - lag), rs)
    BY <1>1, <1>4, RequeuedTurns
  <1>8. QED
    BY <1>5, <1>6, <1>7 DEF Recovered

LEMMA OneRowTurns ==
    ASSUME TInv, NEW r \in Runs, NEW row,
           run' = [run EXCEPT ![r] = row], resv' = resv,
           \A w \in Workers : held'[w] = held[w] \/ held'[w] = None,
           row.gen = run[r].gen, RowTurns(row, resv[r]), ~Claimed(row.state)
    PROVE  Turns' /\ TurnSentOnce'
  <1>1. \A q \in Runs : run'[q] = IF q = r THEN row ELSE run[q]
    BY DEF TInv, Inv, TypeOK
  <1>2. \A q \in Runs :
          /\ run'[q].gen = run[q].gen
          /\ RowTurns(run'[q], resv[q])
          /\ Claimed(run'[q].state) =>
               run'[q].state = run[q].state /\ run'[q].ckpt = run[q].ckpt
    BY <1>1 DEF TInv, Turns
  <1>3. QED
    BY <1>2, RowsFrame DEF TInv

LEMMA FinishTurns ==
    ASSUME TInv, NEW w \in Workers, NEW lag \in 0..MaxLag,
           NEW s \in Closing, NEW err \in ErrorCodes, Finish(w, s, err, lag)
    PROVE  Turns' /\ TurnSentOnce'
  <1> DEFINE r == held[w].lease.run
             row == Closed(run[r], s, err)
  <1>1. Fenced(w, lag)
    BY DEF Finish
  <1>2. r \in Runs /\ run[r] \in RunRow /\ RowTurns(run[r], resv[r])
    BY <1>1, FencedFacts DEF TInv, Turns
  <1>3. row.state = s /\ row.gen = run[r].gen
    BY <1>2 DEF Closed, RunRow
  <1>4. RowTurns(row, resv[r])
    BY <1>2, ClosedTurns
  <1>5. /\ run' = [run EXCEPT ![r] = row] /\ resv' = resv
        /\ \A u \in Workers : held'[u] = held[u] \/ held'[u] = None
    BY DEF Finish, TInv, Inv, TypeOK
  <1> HIDE DEF row, r
  <1>6. ~Claimed(row.state)
    BY <1>3 DEF Claimed, Closing
  <1>7. QED
    BY <1>2, <1>3, <1>4, <1>5, <1>6, OneRowTurns

LEMMA ScheduleRetryTurns ==
    ASSUME TInv, NEW w \in Workers, NEW lag \in 0..MaxLag,
           ScheduleRetry(w, lag)
    PROVE  Turns' /\ TurnSentOnce'
  <1> DEFINE r == held[w].lease.run
             row == Requeued(run[r], "other", RetryDelay - lag)
  <1>1. /\ Fenced(w, lag) /\ held[w].phase \in {"ready", "refused"}
        /\ ~ToolTurns /\ held[w] # None
    BY DEF ScheduleRetry, Fenced
  <1>2. held[w].lease.gen = run[r].gen /\ Claimed(run[r].state)
    BY <1>1, FencedFacts DEF TInv
  <1>3. /\ r \in Runs /\ run[r] \in RunRow /\ RowTurns(run[r], resv[r])
        /\ Place(held[w], run[r], resv[r])
        /\ \A v \in resv[r] : v.turn \in Nat
    BY <1>1, <1>2, PlaceFacts
  <1>4. run[r].ckpt = None /\ held[w].turns = 0 /\ Behind(resv[r], 0)
    BY <1>1, <1>3 DEF Place
  <1>5. Unsent(resv[r]) /\ ~HasOutput(run[r])
    BY <1>3, <1>4 DEF Unsent, Behind, RowTurns, HasOutput
  <1>6. row.state = "RetryScheduled" /\ row.gen = run[r].gen
    BY <1>3 DEF Requeued, RunRow
  <1>7. RowTurns(row, resv[r])
    BY <1>3, <1>5, RequeuedTurns
  <1>8. /\ run' = [run EXCEPT ![r] = row] /\ resv' = resv
        /\ \A u \in Workers : held'[u] = held[u] \/ held'[u] = None
    BY DEF ScheduleRetry, TInv, Inv, TypeOK
  <1> HIDE DEF row, r
  <1>9. ~Claimed(row.state)
    BY <1>6 DEF Claimed
  <1>10. QED
    BY <1>3, <1>6, <1>7, <1>8, <1>9, OneRowTurns

LEMMA CancellationTurns ==
    ASSUME TInv, NEW r \in Runs, RequestCancellation(r)
    PROVE  Turns' /\ TurnSentOnce'
  <1> DEFINE row == Closed(run[r], "Cancelled", "other")
  <1>1. run[r] \in RunRow /\ RowTurns(run[r], resv[r])
    BY TurnTypes DEF TInv, Turns
  <1>2. row.state = "Cancelled" /\ row.gen = run[r].gen
    BY <1>1 DEF Closed, RunRow
  <1>3. RowTurns(row, resv[r])
    BY <1>1, ClosedTurns DEF Closing
  <1>4. /\ run' = [run EXCEPT ![r] = row] /\ resv' = resv
        /\ \A u \in Workers : held'[u] = held[u] \/ held'[u] = None
    BY DEF RequestCancellation
  <1> HIDE DEF row
  <1>5. ~Claimed(row.state)
    BY <1>2 DEF Claimed
  <1>6. QED
    BY <1>2, <1>3, <1>4, <1>5, OneRowTurns

LEMMA RecoveryTurns ==
    ASSUME TInv, NEW lag \in 0..MaxLag, RecoverExpiredLeases(lag)
    PROVE  Turns' /\ TurnSentOnce'
  <1> DEFINE due == {r \in Oldest(Active, ScanLimit) :
                       run[r].expiry + lag <= 0}
             next(r) == Recovered(run[r], lag)
  <1>1. due \subseteq Runs /\ \A r \in due : Claimed(run[r].state)
    BY DEF Oldest, Active, Claimed
  <1>2. /\ \A r \in due : ~Malformed(r)
        /\ run' = [r \in Runs |-> IF r \in due THEN next(r) ELSE run[r]]
        /\ held' = held /\ resv' = resv
    BY DEF RecoverExpiredLeases
  <1>3. \A r \in due : RowTurns(next(r), resv[r])
    BY <1>1, <1>2, RecoveredTurns DEF TInv
  <1>4. \A r \in due : next(r).gen = run[r].gen /\ ~Claimed(next(r).state)
    <2> SUFFICES ASSUME NEW r \in due
                 PROVE  next(r).gen = run[r].gen /\ ~Claimed(next(r).state)
      OBVIOUS
    <2> DEFINE row == run[r]
    <2>1. row \in RunRow
      BY <1>1, TurnTypes DEF TInv
    <2> HIDE DEF row
    <2>2. \A s, err : LET a == [Closed(row, s, err) EXCEPT !.attempt = None]
                      IN  a.state = s /\ a.gen = row.gen
      BY <2>1 DEF Closed, RunRow
    <2>3. \A err, d : LET a == Requeued(row, err, d)
                      IN  a.state = "RetryScheduled" /\ a.gen = row.gen
      BY <2>1 DEF Requeued, RunRow
    <2>4. /\ Recovered(row, lag).gen = row.gen
          /\ Recovered(row, lag).state \in
               {"RetryScheduled", "Failed", "Completed", "RecoveryRequired"}
      BY <2>2, <2>3 DEF Recovered
    <2>5. QED
      BY <2>4 DEF row, Claimed
  <1> HIDE DEF due, next
  <1>5. \A r \in Runs :
          /\ run'[r].gen = run[r].gen
          /\ RowTurns(run'[r], resv[r])
          /\ Claimed(run'[r].state) =>
               run'[r].state = run[r].state /\ run'[r].ckpt = run[r].ckpt
    BY <1>2, <1>3, <1>4 DEF TInv, Turns
  <1>6. QED
    BY <1>2, <1>5, RowsFrame DEF TInv

LEMMA TickTurns ==
    ASSUME TInv, Tick
    PROVE  Turns' /\ TurnSentOnce'
  <1>1. \A r \in Runs : run[r] \in RunRow
    BY TurnTypes DEF TInv
  <1>2. \A r \in Runs :
          /\ run'[r].gen = run[r].gen /\ run'[r].state = run[r].state
          /\ run'[r].err = run[r].err /\ run'[r].ckpt = run[r].ckpt
    BY <1>1 DEF Tick, RowLater, RunRow
  <1>3. \A r \in Runs : RowTurns(run'[r], resv[r])
    BY <1>2, SameRowTurns DEF TInv, Turns
  <1>4. held' = held /\ resv' = resv
    BY DEF Tick
  <1>5. QED
    BY <1>2, <1>3, <1>4, RowsFrame DEF TInv

LEMMA NoRowTurns ==
    ASSUME TInv, UNCHANGED <<run, resv>>,
           \A w \in Workers : held'[w] = held[w] \/ held'[w] = None
    PROVE  Turns' /\ TurnSentOnce'
  <1>1. \A r \in Runs :
          /\ run'[r].gen = run[r].gen
          /\ RowTurns(run'[r], resv[r])
          /\ Claimed(run'[r].state) =>
               run'[r].state = run[r].state /\ run'[r].ckpt = run[r].ckpt
    BY DEF TInv, Turns
  <1>2. QED
    BY <1>1, RowsFrame DEF TInv

(* A run that is inserted has no reservations.                             *)
LEMMA FreshTurns ==
    ASSUME TInv, NEW q \in Runs, Fresh(q), NEW m
    PROVE  /\ RowTurns(QueuedRun(m), resv[q])
           /\ QueuedRun(m).gen = run[q].gen
           /\ ~Claimed(QueuedRun(m).state)
  <1> DEFINE a == QueuedRun(m)
  <1>1. a.state = "Queued" /\ a.gen = 0 /\ a.ckpt = None /\ a.err = "none"
    BY DEF QueuedRun, Absent
  <1>2. resv[q] = {} /\ run[q].gen = 0
    BY TurnTypes DEF TInv, Turns, RowTurns, Fresh, RowOK
  <1> HIDE DEF a
  <1>3. RowTurns(a, {}) /\ ~Claimed(a.state)
    BY <1>1 DEF RowTurns, Waiting, HasOutput, Unsent, Claimed
  <1>4. QED
    BY <1>1, <1>2, <1>3 DEF a

LEMMA OwnerTurns ==
    ASSUME TInv, Owner
    PROVE  Turns' /\ TurnSentOnce'
  <1>1. ASSUME NEW r \in Runs, SendMessage(r) PROVE Turns' /\ TurnSentOnce'
    <2>1. /\ RowTurns(QueuedRun(r), resv[r])
          /\ QueuedRun(r).gen = run[r].gen /\ ~Claimed(QueuedRun(r).state)
      BY <1>1, FreshTurns DEF SendMessage
    <2>2. run' = [run EXCEPT ![r] = QueuedRun(r)] /\ resv' = resv
          /\ held' = held
      BY <1>1 DEF SendMessage
    <2>3. QED
      BY <2>1, <2>2, OneRowTurns
  <1>2. ASSUME NEW r \in Runs, RequestCancellation(r)
        PROVE  Turns' /\ TurnSentOnce'
    BY <1>2, CancellationTurns
  <1>3. ASSUME NEW r \in Runs, AcknowledgeRunFailure(r)
        PROVE  Turns' /\ TurnSentOnce'
    <2> DEFINE row == [run[r] EXCEPT !.disposed = "acknowledged"]
    <2>1. /\ run[r] \in RunRow /\ RowTurns(run[r], resv[r])
          /\ run[r].state \in Closing
      BY <1>3, TurnTypes
      DEF TInv, Turns, AcknowledgeRunFailure, Disposable, Closing
    <2>2. /\ row.state = run[r].state /\ row.err = run[r].err
          /\ row.ckpt = run[r].ckpt /\ row.gen = run[r].gen
      BY <2>1 DEF RunRow
    <2>3. run' = [run EXCEPT ![r] = row] /\ resv' = resv /\ held' = held
      BY <1>3 DEF AcknowledgeRunFailure, TInv, Inv, TypeOK
    <2> HIDE DEF row
    <2>4. RowTurns(row, resv[r]) /\ ~Claimed(row.state)
      BY <2>1, <2>2, SameRowTurns DEF Claimed, Closing
    <2>5. QED
      BY <2>2, <2>3, <2>4, OneRowTurns
  <1>4. ASSUME NEW r \in Runs, NEW q \in Runs, RetryRun(r, q)
        PROVE  Turns' /\ TurnSentOnce'
    <2> DEFINE old == [run[r] EXCEPT !.disposed = "retried"]
               new == QueuedRun(run[r].input)
    <2>1. /\ run[r] \in RunRow /\ RowTurns(run[r], resv[r])
          /\ run \in [Runs -> RunRow]
      BY TurnTypes DEF TInv, Inv, TypeOK, Turns
    <2>2. r # q /\ Fresh(q) /\ resv' = resv /\ held' = held
      BY <1>4 DEF RetryRun, Disposable, Fresh
    <2>3. \A p \in Runs :
            run'[p] = IF p = q THEN new ELSE IF p = r THEN old ELSE run[p]
      BY <1>4, <2>1, <2>2 DEF RetryRun
    <2>4. /\ old.state = run[r].state /\ old.err = run[r].err
          /\ old.ckpt = run[r].ckpt /\ old.gen = run[r].gen
      BY <2>1 DEF RunRow
    <2>5. /\ RowTurns(new, resv[q]) /\ new.gen = run[q].gen
          /\ ~Claimed(new.state)
      BY <2>2, FreshTurns
    <2> HIDE DEF old, new
    <2>6. RowTurns(old, resv[r])
      BY <2>1, <2>4, SameRowTurns
    <2>7. \A p \in Runs :
            /\ run'[p].gen = run[p].gen
            /\ RowTurns(run'[p], resv[p])
            /\ Claimed(run'[p].state) =>
                 run'[p].state = run[p].state /\ run'[p].ckpt = run[p].ckpt
      BY <2>3, <2>4, <2>5, <2>6 DEF TInv, Turns
    <2>8. QED
      BY <2>2, <2>7, RowsFrame DEF TInv
  <1>5. CASE ArchiveSession \/ RestoreSession \/ DeleteSession
    BY <1>5, NoRowTurns DEF ArchiveSession, RestoreSession, DeleteSession
  <1>6. QED
    BY <1>1, <1>2, <1>3, <1>4, <1>5 DEF Owner

LEMMA LedgerStepTurns ==
    ASSUME TInv, NEW w \in Workers, NEW lag \in 0..MaxLag,
           ReleaseUnused(w, lag) \/ MarkUncertain(w, lag) \/ Commit(w, lag)
    PROVE  Turns' /\ TurnSentOnce'
  <1>1. held[w].turns \in Nat /\ held[w].turns + 1 \in Nat
    BY HeldTypes DEF TInv, ReleaseUnused, MarkUncertain, Commit
  <1>2. CASE ReleaseUnused(w, lag)
    <2>1. /\ Reconcile(w, lag, "reserved", "released", "refused",
                       held[w].turns)
          /\ held[w].phase = "reserved"
      BY <1>2 DEF ReleaseUnused
    <2>2. QED
      BY <1>1, <2>1, ReconcileTurns
  <1>3. CASE MarkUncertain(w, lag)
    <2>1. /\ Reconcile(w, lag, "reserved", "uncertain", "sent",
                       held[w].turns)
          /\ held[w].phase = "reserved"
      BY <1>3 DEF MarkUncertain
    <2>2. QED
      BY <1>1, <2>1, ReconcileTurns
  <1>4. CASE Commit(w, lag)
    <2>1. /\ Reconcile(w, lag, "uncertain", "committed", "settled",
                       held[w].turns + 1)
          /\ held[w].phase = "sent"
      BY <1>4 DEF Commit
    <2>2. QED
      BY <1>1, <2>1, ReconcileTurns
  <1>5. QED
    BY <1>2, <1>3, <1>4

LEMMA WorkerTurns ==
    ASSUME TInv, NEW w \in Workers, Worker(w)
    PROVE  Turns' /\ TurnSentOnce'
  <1>1. CASE Start(w)
    BY <1>1, StartTurns
  <1>2. CASE Heartbeat(w)
    BY <1>2, HeartbeatTurns
  <1>3. CASE Crash(w)
    BY <1>3, NoRowTurns DEF Crash, TInv, Inv, TypeOK
  <1>4. ASSUME NEW lag \in 0..MaxLag, Work(w, lag)
        PROVE  Turns' /\ TurnSentOnce'
    <2>1. ASSUME NEW r \in Runs, Claim(w, r, lag)
          PROVE  Turns' /\ TurnSentOnce'
      BY <2>1, ClaimTurns
    <2>2. CASE Reserve(w, lag)
      BY <2>2, ReserveTurns
    <2>3. CASE \/ ReleaseUnused(w, lag) \/ MarkUncertain(w, lag)
               \/ Commit(w, lag)
      BY <2>3, LedgerStepTurns
    <2>4. CASE \/ PersistProviderTurn(w, lag) \/ PersistToolBatch(w, lag)
               \/ ConsumeAdoptionCheckpoint(w, lag)
               \/ AppendProviderOutput(w, lag)
      BY <2>4, CheckpointsTurns
    <2>5. ASSUME NEW s \in Closing, NEW err \in ErrorCodes,
                 Finish(w, s, err, lag)
          PROVE  Turns' /\ TurnSentOnce'
      BY <2>5, FinishTurns
    <2>6. CASE ScheduleRetry(w, lag)
      BY <2>6, ScheduleRetryTurns
    <2>7. QED
      BY <1>4, <2>1, <2>2, <2>3, <2>4, <2>5, <2>6 DEF Work
  <1>5. QED
    BY <1>1, <1>2, <1>3, <1>4 DEF Worker

LEMMA NextTurns == TInv /\ [Next]_vars => Turns' /\ TurnSentOnce'
  <1> SUFFICES ASSUME TInv, [Next]_vars PROVE Turns' /\ TurnSentOnce'
    OBVIOUS
  <1>1. CASE Owner
    BY <1>1, OwnerTurns
  <1>2. ASSUME NEW w \in Workers, Worker(w) PROVE Turns' /\ TurnSentOnce'
    BY <1>2, WorkerTurns
  <1>3. CASE Recover
    BY <1>3, RecoveryTurns DEF Recover
  <1>4. CASE Tick
    BY <1>4, TickTurns
  <1>5. CASE UNCHANGED vars
    BY <1>5, NoRowTurns DEF vars
  <1>6. QED
    BY <1>1, <1>2, <1>3, <1>4, <1>5 DEF Next

LEMMA InitTurns == Init => Turns /\ TurnSentOnce
  <1> SUFFICES ASSUME Init PROVE Turns /\ TurnSentOnce
    OBVIOUS
  <1>1. \A r \in Runs : run[r] = Absent /\ resv[r] = {}
    BY DEF Init
  <1>2. Absent.state = "Absent" /\ Absent.ckpt = None
    BY DEF Absent
  <1>3. \A w \in Workers : held[w] = None
    BY DEF Init
  <1>4. RowTurns(Absent, {})
    BY <1>2 DEF RowTurns, Waiting, HasOutput
  <1>5. QED
    BY <1>1, <1>3, <1>4 DEF Turns, OneHolder, TurnSentOnce

LEMMA TInvHolds == Spec => []TInv
  <1>1. Init => TInv
    BY InitInv, InitTurns DEF TInv
  <1>2. TInv /\ [Next]_vars => TInv'
    BY InvStep, NextTurns DEF TInv
  <1>3. QED
    BY <1>1, <1>2, PTL DEF Spec

(* No provider turn of a run is sent twice: an attempt started by          *)
(* recovery, adoption or schedule_retry goes on after the last turn that   *)
(* may have been sent, whatever the workers before it still do.            *)
THEOREM TurnSentOnceHolds == Spec => []TurnSentOnce
  <1>1. TInv => TurnSentOnce
    BY DEF TInv
  <1>2. QED
    BY <1>1, TInvHolds, PTL

(* An answer appended by append_provider_output is paid for by a turn of   *)
(* the attempt that appended it.                                           *)
THEOREM AnswerIsBilledHolds == Spec => []AnswerIsBilled
  <1>1. TInv => AnswerIsBilled
    <2> SUFFICES ASSUME TInv, NEW r \in Runs, answers[r] > 0
                 PROVE  Paid(resv[r], run[r].gen)
      BY DEF AnswerIsBilled, Paid
    <2>1. HasOutput(run[r])
      BY DEF TInv, Inv, Answers
    <2>2. QED
      BY <2>1 DEF TInv, Turns, RowTurns
  <1>2. QED
    BY <1>1, TInvHolds, PTL

-----------------------------------------------------------------------------
(***************************************************************************)
(* The retry admission a client was told of.  A closed run is left as it   *)
(* is, or closed anew with an event of its own; its reservations and its   *)
(* answer do not change any more.                                          *)
(***************************************************************************)
Told(r) ==
    run'[r].state \in Closing =>
        /\ resv'[r] = resv[r] /\ answers'[r] = answers[r]
        /\ \/ /\ run'[r].state = run[r].state /\ run'[r].err = run[r].err
              /\ events'[r] = events[r]
           \/ \E e : /\ Tells(e, r, run'[r].state, run'[r].err)
                     /\ events'[r] = Append(events[r], e)

LEMMA ToldStep ==
    ASSUME Inv, AdvertisedAdmission, \A r \in Runs : Told(r)
    PROVE  AdvertisedAdmission'
  <1> SUFFICES ASSUME NEW r \in Runs, NEW s, NEW err, s = run'[r].state,
                      err = run'[r].err, s \in Closing
               PROVE  /\ events'[r] # <<>>
                      /\ events'[r][Len(events'[r])].state = s
                      /\ events'[r][Len(events'[r])].admission
                           \in {None, Admission(r, s, err)'}
                      /\ s \in {"Failed", "RecoveryRequired"} =>
                           events'[r][Len(events'[r])].admission
                             = Admission(r, s, err)'
    BY DEF AdvertisedAdmission, Admission
  <1>1. resv'[r] = resv[r] /\ answers'[r] = answers[r]
    BY DEF Told
  <1>2. Admission(r, s, err)' = Admission(r, s, err)
    BY <1>1 DEF Admission, ProducedOutput, DispatchPossible
  <1>3. CASE s = run[r].state /\ err = run[r].err /\ events'[r] = events[r]
    BY <1>2, <1>3 DEF AdvertisedAdmission
  <1>4. ASSUME NEW e, Tells(e, r, s, err), events'[r] = Append(events[r], e)
        PROVE  events'[r] # <<>> /\ events'[r][Len(events'[r])] = e
    <2>1. events[r] \in Seq(Event) /\ e \in Event
      BY <1>4 DEF Inv, TypeOK, Event, Tells
    <2>2. QED
      BY <1>4, <2>1
  <1>5. CASE \E e : Tells(e, r, s, err) /\ events'[r] = Append(events[r], e)
    BY <1>2, <1>4, <1>5 DEF Tells
  <1>6. QED
    BY <1>3, <1>5 DEF Told

(* A step that writes at most one row, and the ledger and the answers only *)
(* of a run that it does not close.                                        *)
LEMMA OneRowTold ==
    ASSUME Inv, AdvertisedAdmission, NEW r \in Runs, NEW row,
           run' = [run EXCEPT ![r] = row],
           \A q \in Runs \ {r} :
             /\ resv'[q] = resv[q] /\ answers'[q] = answers[q]
             /\ events'[q] = events[q],
           row.state \in Closing =>
             /\ resv' = resv /\ answers' = answers
             /\ \/ /\ row.state = run[r].state /\ row.err = run[r].err
                   /\ events' = events
                \/ \E e : /\ Tells(e, r, row.state, row.err)
                          /\ events'[r] = Append(events[r], e)
    PROVE  AdvertisedAdmission'
  <1>1. \A q \in Runs : run'[q] = IF q = r THEN row ELSE run[q]
    BY DEF Inv, TypeOK
  <1>2. \A q \in Runs \ {r} : Told(q)
    BY <1>1 DEF Told
  <1>3. Told(r)
    BY <1>1 DEF Told
  <1>4. QED
    BY <1>2, <1>3, ToldStep

LEMMA WorkTold ==
    ASSUME Inv, AdvertisedAdmission, NEW w \in Workers,
           \/ Start(w)
           \/ Heartbeat(w)
           \/ \E lag \in 0..MaxLag :
                \/ \E r \in Runs : Claim(w, r, lag)
                \/ PersistProviderTurn(w, lag)
                \/ PersistToolBatch(w, lag)
                \/ ConsumeAdoptionCheckpoint(w, lag)
                \/ AppendProviderOutput(w, lag)
    PROVE  AdvertisedAdmission'
  <1>1. ASSUME NEW lag \in 0..MaxLag, NEW r \in Runs, Claim(w, r, lag)
        PROVE  AdvertisedAdmission'
    <2> DEFINE row == Leased(run[r], w, lag)
    <2>1. row.state = "Leased"
      BY TurnTypes DEF Leased, RunRow
    <2>2. /\ run' = [run EXCEPT ![r] = row]
          /\ UNCHANGED <<resv, events, answers>>
      BY <1>1 DEF Claim, Renew
    <2> HIDE DEF row
    <2>3. QED
      BY <2>1, <2>2, OneRowTold DEF Closing
  <1> DEFINE r == held[w].lease.run
  <1>2. ASSUME NEW lag \in 0..MaxLag, Fenced(w, lag)
        PROVE  r \in Runs /\ run[r] \in RunRow /\ Claimed(run[r].state)
    BY <1>2, FencedFacts
  <1>3. 0 \in 0..MaxLag
    BY RunRowsAssumption
  <1>4. CASE Start(w)
    <2> DEFINE row == [run[r] EXCEPT !.state = "Running", !.expiry = Ttl]
    <2>1. r \in Runs /\ run[r] \in RunRow
      BY <1>2, <1>3, <1>4 DEF Start
    <2>2. row.state = "Running"
      BY <2>1 DEF RunRow
    <2>3. /\ run' = [run EXCEPT ![r] = row]
          /\ UNCHANGED <<resv, events, answers>>
      BY <1>4 DEF Start, Renew
    <2> HIDE DEF row, r
    <2>4. QED
      BY <2>1, <2>2, <2>3, OneRowTold DEF Closing
  <1>5. CASE Heartbeat(w)
    <2> DEFINE row == [run[r] EXCEPT !.expiry = Ttl]
    <2>1. r \in Runs /\ run[r] \in RunRow /\ Claimed(run[r].state)
      BY <1>2, <1>3, <1>5 DEF Heartbeat
    <2>2. row.state \notin Closing
      BY <2>1 DEF RunRow, Claimed, Closing
    <2>3. /\ run' = [run EXCEPT ![r] = row]
          /\ UNCHANGED <<resv, events, answers>>
      BY <1>5 DEF Heartbeat, Renew
    <2> HIDE DEF row, r
    <2>4. QED
      BY <2>1, <2>2, <2>3, OneRowTold
  <1>6. ASSUME NEW lag \in 0..MaxLag,
               \/ PersistProviderTurn(w, lag)
               \/ PersistToolBatch(w, lag)
               \/ ConsumeAdoptionCheckpoint(w, lag)
               \/ AppendProviderOutput(w, lag)
        PROVE  AdvertisedAdmission'
    <2>1. Fenced(w, lag) /\ run[r].state = "Running"
      BY <1>6
      DEF PersistProviderTurn, PersistToolBatch, AppendCoordinatorCheckpoint,
          ConsumeAdoptionCheckpoint, AppendProviderOutput
    <2>2. r \in Runs /\ run[r] \in RunRow
      BY <1>2, <2>1
    <2>3. /\ resv' = resv /\ events' = events
          /\ \A q \in Runs \ {r} : answers'[q] = answers[q]
      BY <1>6
      DEF PersistProviderTurn, PersistToolBatch, AppendCoordinatorCheckpoint,
          ConsumeAdoptionCheckpoint, AppendProviderOutput, Inv, TypeOK
    <2>4. \E c : run' = [run EXCEPT ![r] = Pointed(run[r], c, Ttl - lag)]
      BY <1>6
      DEF PersistProviderTurn, PersistToolBatch, AppendCoordinatorCheckpoint,
          ConsumeAdoptionCheckpoint, AppendProviderOutput, Renew, Pointed
    <2>5. PICK c : run' = [run EXCEPT ![r] = Pointed(run[r], c, Ttl - lag)]
      BY <2>4
    <2> DEFINE row == Pointed(run[r], c, Ttl - lag)
    <2>6. row.state = "Running"
      BY <2>1, <2>2 DEF Pointed, RunRow
    <2>7. run' = [run EXCEPT ![r] = row]
      BY <2>5
    <2> HIDE DEF row, r
    <2>8. QED
      BY <2>2, <2>3, <2>6, <2>7, OneRowTold DEF Closing
  <1>7. QED
    BY <1>1, <1>4, <1>5, <1>6

(* The ledger of a run moves only while the run is running.                *)
LEMMA LedgerTold ==
    ASSUME Inv, AdvertisedAdmission, NEW w \in Workers, NEW lag \in 0..MaxLag,
           \/ Reserve(w, lag) \/ ReleaseUnused(w, lag)
           \/ MarkUncertain(w, lag) \/ Commit(w, lag)
    PROVE  AdvertisedAdmission'
  <1> DEFINE r == held[w].lease.run
  <1>1. BudgetFenced(w, lag) /\ UNCHANGED <<run, events, answers>>
    BY DEF Reserve, ReleaseUnused, MarkUncertain, Commit, Reconcile
  <1>2. \E rs : resv' = [resv EXCEPT ![r] = rs]
    BY DEF Reserve, ReleaseUnused, MarkUncertain, Commit, Reconcile
  <1>3. run[r].state = "Running"
    BY <1>1 DEF BudgetFenced
  <1>4. \A q \in Runs \ {r} : resv'[q] = resv[q]
    BY <1>2 DEF Inv, TypeOK
  <1> HIDE DEF r
  <1>5. \A q \in Runs : Told(q)
    BY <1>1, <1>3, <1>4 DEF Told, Closing
  <1>6. QED
    BY <1>5, ToldStep

LEMMA FinishTold ==
    ASSUME Inv, AdvertisedAdmission, NEW w \in Workers, NEW lag \in 0..MaxLag,
           NEW s \in Closing, NEW err \in ErrorCodes, Finish(w, s, err, lag)
    PROVE  AdvertisedAdmission'
  <1> DEFINE r == held[w].lease.run
             row == Closed(run[r], s, err)
  <1>1. r \in Runs /\ run[r] \in RunRow
    BY FencedFacts DEF Finish
  <1>2. row.state = s /\ row.err = err
    BY <1>1 DEF Closed, RunRow
  <1>3. /\ run' = [run EXCEPT ![r] = row] /\ resv' = resv
        /\ answers' = answers
        /\ events' = [events EXCEPT ![r] =
             Append(events[r], TerminalEvent(r, row.state, row.err))]
    BY <1>2 DEF Finish
  <1>4. Tells(TerminalEvent(r, row.state, row.err), r, row.state, row.err)
    BY <1>1, <1>2, TerminalEventTells
  <1> HIDE DEF row, r
  <1>5. /\ events'[r] =
             Append(events[r], TerminalEvent(r, row.state, row.err))
        /\ \A q \in Runs \ {r} : events'[q] = events[q]
    BY <1>1, <1>3 DEF Inv, TypeOK
  <1>6. QED
    BY <1>1, <1>3, <1>4, <1>5, OneRowTold

LEMMA ScheduleRetryTold ==
    ASSUME Inv, AdvertisedAdmission, NEW w \in Workers, NEW lag \in 0..MaxLag,
           ScheduleRetry(w, lag)
    PROVE  AdvertisedAdmission'
  <1> DEFINE r == held[w].lease.run
             row == Requeued(run[r], "other", RetryDelay - lag)
  <1>1. r \in Runs /\ run[r] \in RunRow
    BY FencedFacts DEF ScheduleRetry
  <1>2. row.state = "RetryScheduled"
    BY <1>1 DEF Requeued, RunRow
  <1>3. /\ run' = [run EXCEPT ![r] = row]
        /\ UNCHANGED <<resv, events, answers>>
    BY DEF ScheduleRetry
  <1> HIDE DEF row, r
  <1>4. QED
    BY <1>1, <1>2, <1>3, OneRowTold DEF Closing

LEMMA RecoveryTold ==
    ASSUME Inv, AdvertisedAdmission, NEW lag \in 0..MaxLag,
           RecoverExpiredLeases(lag)
    PROVE  AdvertisedAdmission'
  <1> DEFINE due == {r \in Oldest(Active, ScanLimit) :
                       run[r].expiry + lag <= 0}
             next(r) == Recovered(run[r], lag)
  <1>1. /\ run' = [r \in Runs |-> IF r \in due THEN next(r) ELSE run[r]]
        /\ events' = [r \in Runs |->
              IF r \in due /\ next(r).state \in Closing
              THEN Append(events[r],
                          TerminalEvent(r, next(r).state, next(r).err))
              ELSE events[r]]
        /\ resv' = resv /\ answers' = answers
    BY DEF RecoverExpiredLeases
  <1> HIDE DEF due, next
  <1>2. \A r \in Runs : next(r).state \in Closing =>
          Tells(TerminalEvent(r, next(r).state, next(r).err), r,
                next(r).state, next(r).err)
    BY TerminalEventTells
  <1>3. \A r \in Runs : Told(r)
    BY <1>1, <1>2 DEF Told
  <1>4. QED
    BY <1>3, ToldStep

LEMMA TickTold ==
    ASSUME Inv, AdvertisedAdmission, Tick
    PROVE  AdvertisedAdmission'
  <1>1. \A r \in Runs : run[r] \in RunRow
    BY TurnTypes
  <1>2. \A r \in Runs :
          run'[r].state = run[r].state /\ run'[r].err = run[r].err
    BY <1>1 DEF Tick, RowLater, RunRow
  <1>3. UNCHANGED <<resv, events, answers>>
    BY DEF Tick
  <1>4. QED
    BY <1>2, <1>3, ToldStep DEF Told

LEMMA NoRowTold ==
    ASSUME Inv, AdvertisedAdmission, UNCHANGED <<run, resv, events, answers>>
    PROVE  AdvertisedAdmission'
  BY ToldStep DEF Told

LEMMA OwnerTold ==
    ASSUME Inv, AdvertisedAdmission, Owner
    PROVE  AdvertisedAdmission'
  <1>1. \A m : QueuedRun(m).state = "Queued"
    BY DEF QueuedRun, Absent
  <1>2. ASSUME NEW r \in Runs, SendMessage(r) PROVE AdvertisedAdmission'
    BY <1>1, <1>2, OneRowTold DEF SendMessage, Closing
  <1>3. ASSUME NEW r \in Runs, RequestCancellation(r)
        PROVE  AdvertisedAdmission'
    <2> DEFINE row == Closed(run[r], "Cancelled", "other")
    <2>1. row.state = "Cancelled" /\ row.err = "other"
      BY TurnTypes DEF Closed, RunRow
    <2>2. /\ run' = [run EXCEPT ![r] = row] /\ resv' = resv
          /\ answers' = answers
          /\ events' = [events EXCEPT ![r] =
               Append(events[r], CancelledEvent)]
      BY <1>3 DEF RequestCancellation
    <2>3. Tells(CancelledEvent, r, row.state, row.err)
      BY <2>1, CancelledEventTells
    <2> HIDE DEF row
    <2>4. /\ events'[r] = Append(events[r], CancelledEvent)
          /\ \A q \in Runs \ {r} : events'[q] = events[q]
      BY <2>2 DEF Inv, TypeOK
    <2>5. QED
      BY <2>2, <2>3, <2>4, OneRowTold
  <1>4. ASSUME NEW r \in Runs, AcknowledgeRunFailure(r)
        PROVE  AdvertisedAdmission'
    <2>1. run[r] \in RunRow
      BY TurnTypes
    <2>2. /\ run' = [run EXCEPT ![r] =
                       [run[r] EXCEPT !.disposed = "acknowledged"]]
          /\ UNCHANGED <<resv, events, answers>>
      BY <1>4 DEF AcknowledgeRunFailure, Inv, TypeOK
    <2>3. /\ [run[r] EXCEPT !.disposed = "acknowledged"].state = run[r].state
          /\ [run[r] EXCEPT !.disposed = "acknowledged"].err = run[r].err
      BY <2>1 DEF RunRow
    <2>4. QED
      BY <2>2, <2>3, OneRowTold
  <1>5. ASSUME NEW r \in Runs, NEW q \in Runs, RetryRun(r, q)
        PROVE  AdvertisedAdmission'
    <2> DEFINE old == [run[r] EXCEPT !.disposed = "retried"]
               new == QueuedRun(run[r].input)
    <2>1. run[r] \in RunRow /\ run \in [Runs -> RunRow]
      BY TurnTypes DEF Inv, TypeOK
    <2>2. r # q /\ UNCHANGED <<resv, events, answers>>
      BY <1>5 DEF RetryRun, Disposable, Fresh
    <2>3. \A p \in Runs :
            run'[p] = IF p = q THEN new ELSE IF p = r THEN old ELSE run[p]
      BY <1>5, <2>1, <2>2 DEF RetryRun
    <2>4. old.state = run[r].state /\ old.err = run[r].err
      BY <2>1 DEF RunRow
    <2>5. new.state = "Queued"
      BY <1>1
    <2> HIDE DEF old, new
    <2>6. \A p \in Runs : Told(p)
      BY <2>2, <2>3, <2>4, <2>5 DEF Told, Closing
    <2>7. QED
      BY <2>6, ToldStep
  <1>6. CASE ArchiveSession \/ RestoreSession \/ DeleteSession
    BY <1>6, NoRowTold DEF ArchiveSession, RestoreSession, DeleteSession
  <1>7. QED
    BY <1>2, <1>3, <1>4, <1>5, <1>6 DEF Owner

LEMMA NextTold == Inv /\ AdvertisedAdmission /\ [Next]_vars =>
                    AdvertisedAdmission'
  <1> SUFFICES ASSUME Inv, AdvertisedAdmission, [Next]_vars
               PROVE  AdvertisedAdmission'
    OBVIOUS
  <1>1. CASE Owner
    BY <1>1, OwnerTold
  <1>2. ASSUME NEW w \in Workers, Worker(w) PROVE AdvertisedAdmission'
    <2>1. CASE Start(w) \/ Heartbeat(w)
      BY <2>1, WorkTold
    <2>2. CASE Crash(w)
      BY <2>2, NoRowTold DEF Crash
    <2>3. ASSUME NEW lag \in 0..MaxLag, Work(w, lag)
          PROVE  AdvertisedAdmission'
      BY <2>3, WorkTold, LedgerTold, FinishTold, ScheduleRetryTold DEF Work
    <2>4. QED
      BY <1>2, <2>1, <2>2, <2>3 DEF Worker
  <1>3. CASE Recover
    BY <1>3, RecoveryTold DEF Recover
  <1>4. CASE Tick
    BY <1>4, TickTold
  <1>5. CASE UNCHANGED vars
    BY <1>5, NoRowTold DEF vars
  <1>6. QED
    BY <1>1, <1>2, <1>3, <1>4, <1>5 DEF Next

(* A closed run's last terminal event says its state, and the admission a  *)
(* client read in it is the one dispose computes whenever the client acts; *)
(* a failed run and one in recovery always have one.  The event of a       *)
(* cancellation by the owner has none, as in the code.                     *)
THEOREM AdvertisedAdmissionHolds == Spec => []AdvertisedAdmission
  <1>1. Init => AdvertisedAdmission
    BY DEF Init, Absent, AdvertisedAdmission, Closing
  <1>2. Inv /\ AdvertisedAdmission /\ [Next]_vars => AdvertisedAdmission'
    BY NextTold
  <1>3. QED
    BY <1>1, <1>2, InvHolds, PTL DEF Spec
=============================================================================
