----------------------------- MODULE AiRunRows -----------------------------
(***************************************************************************)
(* The AiRunRecord rows of crates/graphql-orm-ai and what an operation     *)
(* makes of one: the row a claim leases, the row a relinquished attempt or *)
(* a closed run leaves, and the fence every worker's operation passes.     *)
(*                                                                         *)
(* Time is relative: a deadline is the number of ticks left until it.  An  *)
(* operation that reads the clock before it waits for the transaction lock *)
(* judges deadlines as they were lag ticks ago, so a deadline is kept down *)
(* to -MaxLag and no further.  The attempt id of a claim is fresh, as its  *)
(* lease generation is: the generation stands for both.  row_version is    *)
(* not kept: only the lease's own holder writes a row without changing the *)
(* state, attempt, retry count or checkpoint that a fence compares too.    *)
(***************************************************************************)
EXTENDS AiRunState, Integers, FiniteSets

CONSTANTS
    Workers,     \* worker_id values
    MaxRuns,     \* bound: runs created, in created_at order
    MaxRetries,  \* limits.maximum_run_retries
    Ttl,         \* limits.lease_ttl, in ticks
    RetryDelay,  \* the delay of a deferred turn's retry, in ticks
    MaxLag,      \* bound: ticks an operation waits for the lock
    None         \* Option::None

ASSUME RunRowsAssumption ==
    /\ MaxRuns \in Nat /\ MaxRetries \in Nat
    /\ Ttl \in Nat \ {0}
    /\ RetryDelay \in Nat /\ MaxLag \in Nat

ASSUME RunNoneAssumption == None \notin Workers /\ None \notin Int

Runs == 1..MaxRuns

\* A deadline, in ticks; the past is told apart down to MaxLag.
Ticks == (0 - MaxLag)..(Ttl + RetryDelay)

\* AiRunCheckpointRecord: "turn" is provider_turn_persisted, "batch" a
\* completed tool batch, "output" assistant_output_persisted, "parked" an
\* approval or subscription wait, "adoption" the outcome of one.
Checkpoint ==
    [kind : {"turn", "batch", "output", "parked", "adoption"},
     gen : Nat, turns : Nat]

ASSUME CheckpointAssumption == None \notin Checkpoint

\* AiRunRecord.  input names the user message by the run that first
\* answered to it; disposed is the run's AiRunFailureDispositionRecord.
RunRow ==
    [state    : States \cup {"Absent"},
     attempt  : Nat \cup {None},
     owner    : Workers \cup {None},
     gen      : Nat,
     expiry   : Ticks \cup {None},
     retries  : 0..MaxRetries,
     eligible : Ticks \cup {None},
     err      : ErrorCodes,
     ckpt     : Checkpoint \cup {None},
     input    : Nat,
     disposed : {"no", "acknowledged", "retried"}]

Absent ==
    [state |-> "Absent", attempt |-> None, owner |-> None, gen |-> 0,
     expiry |-> None, retries |-> 0, eligible |-> None, err |-> "none",
     ckpt |-> None, input |-> 0, disposed |-> "no"]

\* The row a message or a retry inserts.
QueuedRun(message) ==
    [Absent EXCEPT !.state = "Queued", !.eligible = 0, !.input = message]

\* AiRunLease and lease_from_record.
AiRunLease ==
    [run : Runs, attempt : Nat, gen : Nat, state : States,
     retries : 0..MaxRetries, ckpt : Checkpoint \cup {None}]

LeaseFromRecord(r, row) ==
    [run |-> r, attempt |-> row.attempt, gen |-> row.gen,
     state |-> row.state, retries |-> row.retries, ckpt |-> row.ckpt]

\* The first n rows of a query in its default order, created_at ascending.
Oldest(S, n) == {r \in S : Cardinality({q \in S : q < r}) < n}

-----------------------------------------------------------------------------
\* load_and_validate_active_lease: the row still is the one lease l
\* remembers, and worker w owns it until later than now.
LeaseHolds(l, w, row, lag) ==
    /\ row.owner = w
    /\ LeaseFromRecord(l.run, row) = l
    /\ row.expiry # None
    /\ row.expiry + lag > 0

\* The row a closed run leaves, its attempt and checkpoint kept.
Closed(row, s, err) ==
    [row EXCEPT !.state = s, !.owner = None, !.expiry = None,
                !.eligible = None, !.err = err]

\* The row of a relinquished attempt that may be claimed again after delay.
RequeuedStillOwned(row, err, delay) ==
    [row EXCEPT !.state = "RetryScheduled", !.attempt = None,
                !.expiry = None, !.retries = @ + 1,
                !.eligible = delay, !.err = err]
Requeued(row, err, delay) ==
    [row EXCEPT !.state = "RetryScheduled", !.attempt = None,
                !.owner = None, !.expiry = None, !.retries = @ + 1,
                !.eligible = delay, !.err = err]

\* claim_once refuses a malformed row, and every row behind it.
WellFormedClaim(row) ==
    /\ row.attempt = None
    /\ row.owner = None
    /\ row.expiry = None
    /\ row.err = "adoption_ready" => row.ckpt # None

\* The claimed row: the checkpoint survives only to be adopted.
LeasedFromTheStart(row, w, lag) ==
    [row EXCEPT !.state = "Leased", !.attempt = row.gen + 1, !.owner = w,
                !.gen = row.gen + 1, !.expiry = Ttl - lag,
                !.eligible = None, !.err = "none", !.ckpt = None]
LeasedSameGeneration(row, w, lag) ==
    [row EXCEPT !.state = "Leased", !.attempt = row.gen, !.owner = w,
                !.expiry = Ttl - lag, !.eligible = None, !.err = "none"]
Leased(row, w, lag) ==
    [row EXCEPT !.state = "Leased", !.attempt = row.gen + 1, !.owner = w,
                !.gen = row.gen + 1, !.expiry = Ttl - lag,
                !.eligible = None, !.err = "none",
                !.ckpt = IF row.err = "adoption_ready" THEN row.ckpt
                                                       ELSE None]

\* Time passes for one deadline.
Sooner(t) == IF t = None \/ t = 0 - MaxLag THEN t ELSE t - 1

\* ... and for the deadlines of a row.
RowLater(row) == [row EXCEPT !.expiry = Sooner(@), !.eligible = Sooner(@)]
=============================================================================
