------------------------------- MODULE AiRuns -------------------------------
(***************************************************************************)
(* The durable runs of crates/graphql-orm-ai: the rows of AiRunRecord and  *)
(* their attempts, outcomes, reservations, checkpoints and terminal        *)
(* events; the workers that claim a run and carry it through the           *)
(* coordinator's provider turns; the pass that recovers expired leases;    *)
(* and the owner, who sends messages, cancels, retries and deletes.        *)
(*                                                                         *)
(* Every repository operation is one serialised transaction, so it is one  *)
(* action; between two of them a worker may be overtaken, lose its lease   *)
(* or die.  A worker acts on the AiRunLease it REMEMBERS.  An operation    *)
(* that returns an error changes nothing and is a stuttering step.         *)
(***************************************************************************)
EXTENDS AiRunRows, Sequences

CONSTANTS
    ScanLimit,   \* limits.maximum_candidate_scan
    MaxTurns,    \* loop_limits: provider turns of one run
    ToolTurns    \* whether turns offer application tools, or are chat only

ASSUME RunBoundsAssumption ==
    /\ ScanLimit \in Nat \ {0}
    /\ MaxTurns \in Nat
    /\ ToolTurns \in BOOLEAN

VARIABLES
    run,       \* run[r]: the AiRunRecord
    held,      \* held[w]: the lease and place of worker w, or None
    resv,      \* resv[r]: its budget reservations
    outcomes,  \* the AiRunAttemptOutcomeRecord rows
    events,    \* events[r]: its terminal events, in stream order
    answers,   \* answers[r]: its durable assistant messages
    session    \* the state of the session that owns the runs

vars == <<run, held, resv, outcomes, events, answers, session>>

-----------------------------------------------------------------------------
\* Where the coordinator of a held lease is.
Phases == {"claimed", "adopting", "ready", "reserved", "refused", "sent",
           "settled", "turned", "batched", "answered"}

Held == [lease : AiRunLease, phase : Phases, turns : Nat]

Reservation ==
    [gen : Nat, turn : Nat,
     state : {"reserved", "uncertain", "committed", "released"}]

ActiveWithoutLeased == {r \in Runs : run[r].state = "Running"}
Active == {r \in Runs : run[r].state \in {"Leased", "Running"}}

\* The next run the session can insert.
Fresh(r) ==
    /\ run[r].state = "Absent"
    /\ \A q \in Runs : q < r => run[q].state # "Absent"

-----------------------------------------------------------------------------
\* load_and_validate_active_lease
Fenced(w, lag) ==
    /\ held[w] # None
    /\ LeaseHolds(held[w].lease, w, run[held[w].lease.run], lag)

\* validate_run_fence and validate_reconciliation_fence: the attempt and the
\* generation, not the rest of the remembered row.
BudgetFenced(w, lag) ==
    /\ held[w] # None
    /\ LET l == held[w].lease
           row == run[l.run]
       IN  /\ row.state = "Running"
           /\ row.attempt = l.attempt
           /\ row.gen = l.gen
           /\ row.owner # None
           /\ row.expiry # None
           /\ row.expiry + lag > 0

\* run_provider_dispatch_possible
DispatchPossible(r) == \E v \in resv[r] : v.state # "released"

\* run_produced_assistant_output
ProducedOutput(r) == answers[r] > 0

\* Retry admission of run r, closed in state s with error code err.
Admission(r, s, err) ==
    ClassifyRunRetry(s, ProducedOutput(r), DispatchPossible(r), err)

HasOutcome(r, attempt) ==
    \E o \in outcomes : o.run = r /\ o.attempt = attempt

\* append_attempt_outcome; attempt_id is unique.
Outcome(r, s) == [run |-> r, attempt |-> run[r].attempt, state |-> s]

\* append_terminal_run_event: only a failure has a retry admission.
TerminalEventOfOldCode(r, s, err) ==
    [state |-> s,
     admission |-> IF s = "Completed" THEN None
                   ELSE Admission(r, s, run[r].err)]
TerminalEvent(r, s, err) ==
    [state |-> s,
     admission |-> IF s = "Completed" THEN None ELSE Admission(r, s, err)]

\* The run_cancelled event of request_cancellation, which has none.
CancelledEvent == [state |-> "Cancelled", admission |-> None]

\* A renewed lease: its worker moves on to phase p with the row it wrote.
Renew(w, r, row, p, turns) ==
    /\ run' = [run EXCEPT ![r] = row]
    /\ held' = [held EXCEPT ![w] =
          [lease |-> LeaseFromRecord(r, row), phase |-> p, turns |-> turns]]

-----------------------------------------------------------------------------
Init ==
    /\ run = [r \in Runs |-> Absent]
    /\ held = [w \in Workers |-> None]
    /\ resv = [r \in Runs |-> {}]
    /\ outcomes = {}
    /\ events = [r \in Runs |-> <<>>]
    /\ answers = [r \in Runs |-> 0]
    /\ session = "active"

\* AiSessionService::send_message; a replayed client_message_id is a stutter.
SendMessage(r) ==
    /\ session = "active"
    /\ Fresh(r)
    /\ run' = [run EXCEPT ![r] = QueuedRun(r)]
    /\ UNCHANGED <<held, resv, outcomes, events, answers, session>>

\* transition_session and delete_session.
ArchiveSession ==
    /\ session = "active"
    /\ session' = "archived"
    /\ UNCHANGED <<run, held, resv, outcomes, events, answers>>

RestoreSession ==
    /\ session = "archived"
    /\ session' = "active"
    /\ UNCHANGED <<run, held, resv, outcomes, events, answers>>

DeleteSession ==
    /\ session # "deleting"
    /\ session' = "deleting"
    /\ UNCHANGED <<run, held, resv, outcomes, events, answers>>

-----------------------------------------------------------------------------
\* The rows claim_once considers.
Claimable(lag) ==
    {r \in UNION {Oldest({q \in Runs : run[q].state = s}, ScanLimit) :
                    s \in {"Queued", "RetryScheduled"}} :
       run[r].eligible = None \/ run[r].eligible + lag <= 0}

\* OrmAiRunRepository::claim_next
Claim(w, r, lag) ==
    /\ held[w] = None
    /\ r \in Claimable(lag)
    /\ \A q \in Claimable(lag) : r <= q
    /\ WellFormedClaim(run[r])
    /\ Renew(w, r, Leased(run[r], w, lag), "claimed", 0)
    /\ UNCHANGED <<resv, outcomes, events, answers, session>>

\* start: the clock is read inside the transaction.
Start(w) ==
    /\ Fenced(w, 0)
    /\ LET r == held[w].lease.run
           row == [run[r] EXCEPT !.state = "Running", !.expiry = Ttl]
       IN  /\ run[r].state = "Leased"
           /\ Renew(w, r, row,
                    IF row.ckpt = None THEN "ready" ELSE "adopting",
                    IF row.ckpt = None THEN 0 ELSE row.ckpt.turns)
    /\ UNCHANGED <<resv, outcomes, events, answers, session>>

\* heartbeat, which the coordinator sends while a provider turn runs.
Heartbeat(w) ==
    /\ Fenced(w, 0)
    /\ held[w].phase \in {"ready", "reserved", "sent"}
    /\ LET r == held[w].lease.run
           row == [run[r] EXCEPT !.expiry = Ttl]
       IN  Renew(w, r, row, held[w].phase, held[w].turns)
    /\ UNCHANGED <<resv, outcomes, events, answers, session>>

-----------------------------------------------------------------------------
\* reserve_once: the next provider turn's reservation.
Reserve(w, lag) ==
    /\ BudgetFenced(w, lag)
    /\ held[w].phase = "ready"
    /\ held[w].turns < MaxTurns
    /\ session = "active"
    /\ resv' = [resv EXCEPT ![held[w].lease.run] = @ \cup
          {[gen |-> held[w].lease.gen, turn |-> held[w].turns + 1,
            state |-> "reserved"]}]
    /\ held' = [held EXCEPT ![w].phase = "reserved"]
    /\ UNCHANGED <<run, outcomes, events, answers, session>>

\* reconcile_once: worker w moves its turn's reservation from one state to
\* another and goes on in phase p.
Reconcile(w, lag, from, to, p, turns) ==
    /\ BudgetFenced(w, lag)
    /\ LET r == held[w].lease.run
           mine == {v \in resv[r] : /\ v.gen = held[w].lease.gen
                                    /\ v.turn = held[w].turns + 1
                                    /\ v.state = from}
       IN  /\ mine # {}
           /\ resv' = [resv EXCEPT ![r] = (@ \ mine) \cup
                 {[v EXCEPT !.state = to] : v \in mine}]
    /\ held' = [held EXCEPT ![w].phase = p, ![w].turns = turns]
    /\ UNCHANGED <<run, outcomes, events, answers, session>>

\* Nothing crossed the transport: the capacity is given back.
ReleaseUnused(w, lag) ==
    /\ held[w] # None
    /\ held[w].phase = "reserved"
    /\ Reconcile(w, lag, "reserved", "released", "refused", held[w].turns)

\* The provider's stream started, or the call failed after it may have been
\* sent (a background submission is marked before it is made).  Between the
\* call and this step the reservation is still "reserved".
MarkUncertain(w, lag) ==
    /\ held[w] # None
    /\ held[w].phase = "reserved"
    /\ Reconcile(w, lag, "reserved", "uncertain", "sent", held[w].turns)

\* The provider answered and reported its usage.
CommitWithoutUsage(w, lag) ==
    /\ held[w] # None
    /\ held[w].phase = "sent"
    /\ Reconcile(w, lag, "uncertain", "uncertain", "settled",
                 held[w].turns + 1)
Commit(w, lag) ==
    /\ held[w] # None
    /\ held[w].phase = "sent"
    /\ Reconcile(w, lag, "uncertain", "committed", "settled",
                 held[w].turns + 1)

-----------------------------------------------------------------------------
CheckpointOf(w, kind) ==
    [kind |-> kind, gen |-> held[w].lease.gen, turns |-> held[w].turns]

\* The reservation a checkpoint names is committed, for its own attempt.
CommittedTurn(r, c) ==
    \E v \in resv[r] : v.gen = c.gen /\ v.turn = c.turns
                       /\ v.state = "committed"

\* append_coordinator_checkpoint: the settled turn, then its tool batch.
AppendCoordinatorCheckpoint(w, kind, p, lag) ==
    /\ Fenced(w, lag)
    /\ LET r == held[w].lease.run
           c == CheckpointOf(w, kind)
       IN  /\ run[r].state = "Running"
           /\ session = "active"
           /\ CommittedTurn(r, c)
           /\ Renew(w, r, [run[r] EXCEPT !.ckpt = c, !.expiry = Ttl - lag],
                    p, held[w].turns)
    /\ UNCHANGED <<resv, outcomes, events, answers, session>>

PersistProviderTurn(w, lag) ==
    /\ held[w] # None
    /\ held[w].phase = "settled"
    /\ ToolTurns
    /\ AppendCoordinatorCheckpoint(w, "turn", "turned", lag)

PersistToolBatch(w, lag) ==
    /\ held[w] # None
    /\ held[w].phase = "turned"
    /\ AppendCoordinatorCheckpoint(w, "batch", "batched", lag)

\* consume_adoption_checkpoint, before the next provider turn.
ConsumeAdoptionCheckpoint(w, lag) ==
    /\ Fenced(w, lag)
    /\ held[w].phase \in {"adopting", "batched"}
    /\ held[w].turns < MaxTurns
    /\ LET r == held[w].lease.run
           row == [run[r] EXCEPT !.ckpt = None, !.expiry = Ttl - lag]
       IN  /\ run[r].state = "Running"
           /\ run[r].ckpt # None
           /\ run[r].ckpt.kind = "batch"
           /\ Renew(w, r, row, "ready", held[w].turns)
    /\ UNCHANGED <<resv, outcomes, events, answers, session>>

\* append_provider_output: the assistant message and its checkpoint.
AppendProviderOutputUnfenced(w, lag) ==
    /\ held[w] # None
    /\ held[w].phase = IF ToolTurns THEN "turned" ELSE "settled"
    /\ session = "active"
    /\ LET r == held[w].lease.run
           row == [run[r] EXCEPT !.ckpt = CheckpointOf(w, "output")]
       IN  /\ answers' = [answers EXCEPT ![r] = @ + 1]
           /\ Renew(w, r, row, "answered", held[w].turns)
    /\ UNCHANGED <<resv, outcomes, events, session>>
AppendProviderOutput(w, lag) ==
    /\ Fenced(w, lag)
    /\ held[w].phase = IF ToolTurns THEN "turned" ELSE "settled"
    /\ session = "active"
    /\ LET r == held[w].lease.run
           row == [run[r] EXCEPT !.ckpt = CheckpointOf(w, "output"),
                                 !.expiry = Ttl - lag]
       IN  /\ run[r].state = "Running"
           /\ answers' = [answers EXCEPT ![r] = @ + 1]
           /\ Renew(w, r, row, "answered", held[w].turns)
    /\ UNCHANGED <<resv, outcomes, events, session>>

-----------------------------------------------------------------------------
\* How execute_claimed_inner concludes a run, by where it is: the final
\* state and the class of the error code (finish_failed, finish_recovery,
\* finish_completed_provider_turn).
Conclusions(phase) ==
    CASE phase = "answered" ->
           {<<"Completed", "none">>, <<"RecoveryRequired", "other">>}
      [] phase = "ready" ->
           {<<"Failed", "guarded">>, <<"Failed", "clean">>,
            <<"Failed", "other">>, <<"RecoveryRequired", "other">>}
      [] phase = "refused" ->
           {<<"Failed", "guarded">>, <<"Failed", "clean">>}
      [] phase = "settled" ->
           {<<"Failed", "clean">>, <<"RecoveryRequired", "other">>}
      [] phase \in {"adopting", "turned", "batched"} ->
           {<<"Failed", "other">>, <<"RecoveryRequired", "other">>}
      [] phase \in {"reserved", "sent"} -> {<<"RecoveryRequired", "other">>}
      [] OTHER -> {}

\* OrmAiRunRepository::finish
Finish(w, s, err, lag) ==
    /\ Fenced(w, lag)
    /\ <<s, err>> \in Conclusions(held[w].phase)
    /\ LET r == held[w].lease.run
       IN  /\ CanTransitionTo(run[r].state, s)
           /\ ~HasOutcome(r, run[r].attempt)
           /\ run' = [run EXCEPT ![r] = Closed(@, s, err)]
           /\ outcomes' = outcomes \cup {Outcome(r, s)}
           /\ events' = [events EXCEPT ![r] =
                           Append(@, TerminalEvent(r, s, err))]
    /\ held' = [held EXCEPT ![w] = None]
    /\ UNCHANGED <<resv, answers, session>>

\* schedule_retry: the turn was deferred before its transport was called.
\* Only a retained provider session defers, and with_provider_session
\* refuses turns that offer application tools.
ScheduleRetry(w, lag) ==
    /\ Fenced(w, lag)
    /\ held[w].phase \in {"ready", "refused"}
    /\ ~ToolTurns
    /\ held[w].lease.retries < MaxRetries
    /\ LET r == held[w].lease.run
       IN  /\ CanTransitionTo(run[r].state, "RetryScheduled")
           /\ ~HasOutcome(r, run[r].attempt)
           /\ run' = [run EXCEPT ![r] =
                        Requeued(@, "other", RetryDelay - lag)]
           /\ outcomes' = outcomes \cup {Outcome(r, "RetryScheduled")}
    /\ held' = [held EXCEPT ![w] = None]
    /\ UNCHANGED <<resv, events, answers, session>>

\* The worker dies, or returns because it found its lease lost.
Crash(w) ==
    /\ held[w] # None
    /\ held' = [held EXCEPT ![w] = None]
    /\ UNCHANGED <<run, resv, outcomes, events, answers, session>>

-----------------------------------------------------------------------------
\* What makes recover_expired_leases give up its whole pass at row r.
Malformed(r) ==
    LET row == run[r] IN
    \/ row.expiry = None \/ row.attempt = None
    \/ /\ row.ckpt # None
       /\ \/ row.ckpt.gen # row.gen
          \/ /\ row.ckpt.kind \in {"batch", "output"}
             /\ ~CommittedTurn(r, row.ckpt) \/ row.state # "Running"
    \/ HasOutcome(r, row.attempt)

\* The row an expired lease leaves.
Recovered(row, lag) ==
    LET retry == row.retries < MaxRetries
        kind == IF row.ckpt = None THEN "none" ELSE row.ckpt.kind
        Left(s, err) == [Closed(row, s, err) EXCEPT !.attempt = None]
    IN  CASE row.state = "Leased" /\ retry -> Requeued(row, "other", 0 - lag)
          [] row.state = "Leased" /\ ~retry -> Left("Failed", "other")
          [] row.state # "Leased" /\ kind = "output" ->
               Left("Completed", "none")
          [] row.state # "Leased" /\ kind = "batch" /\ retry ->
               Requeued(row, "adoption_ready", 0 - lag)
          [] OTHER -> Left("RecoveryRequired", "other")

\* recover_expired_leases: one transaction over a bounded window of active
\* leases; lag as for the other operations.
RecoverExpiredLeases(lag) ==
    LET window == Oldest(Active, ScanLimit)
        due == {r \in window : run[r].expiry + lag <= 0}
        next(r) == Recovered(run[r], lag)
    IN  /\ \A r \in window : run[r].expiry # None /\ run[r].attempt # None
        /\ due # {}
        /\ \A r \in due : ~Malformed(r)
        /\ run' = [r \in Runs |-> IF r \in due THEN next(r) ELSE run[r]]
        /\ outcomes' = outcomes \cup {Outcome(r, next(r).state) : r \in due}
        /\ events' = [r \in Runs |->
              IF r \in due /\ next(r).state \in Closing
              THEN Append(events[r],
                          TerminalEvent(r, next(r).state, next(r).err))
              ELSE events[r]]
        /\ UNCHANGED <<held, resv, answers, session>>

-----------------------------------------------------------------------------
\* request_cancellation.  A run cancelled before is terminal, and a
\* RecoveryRequired run is not.
RequestCancellationOfAnswered(r) ==
    LET row == run[r] IN
    /\ session \in {"active", "archived"}
    /\ row.state # "Absent"
    /\ ~IsTerminal(row.state)
    /\ row.attempt # None => ~HasOutcome(r, row.attempt)
    /\ run' = [run EXCEPT ![r] = Closed(@, "Cancelled", "other")]
    /\ outcomes' = IF row.attempt = None THEN outcomes
                   ELSE outcomes \cup {Outcome(r, "Cancelled")}
    /\ events' = [events EXCEPT ![r] = Append(@, CancelledEvent)]
    /\ UNCHANGED <<held, resv, answers, session>>
RequestCancellation(r) ==
    LET row == run[r] IN
    /\ session \in {"active", "archived"}
    /\ row.state # "Absent"
    /\ ~IsTerminal(row.state)
    /\ row.ckpt # None => row.ckpt.kind # "output"
    /\ row.attempt # None => ~HasOutcome(r, row.attempt)
    /\ run' = [run EXCEPT ![r] = Closed(@, "Cancelled", "other")]
    /\ outcomes' = IF row.attempt = None THEN outcomes
                   ELSE outcomes \cup {Outcome(r, "Cancelled")}
    /\ events' = [events EXCEPT ![r] = Append(@, CancelledEvent)]
    /\ UNCHANGED <<held, resv, answers, session>>

\* dispose: an owner closes the matter of a failed run ...
Disposable(r) ==
    /\ session = "active"
    /\ run[r].state \in {"Failed", "Cancelled", "RecoveryRequired"}
    /\ run[r].disposed = "no"

AcknowledgeRunFailure(r) ==
    /\ Disposable(r)
    /\ run' = [run EXCEPT ![r].disposed = "acknowledged"]
    /\ UNCHANGED <<held, resv, outcomes, events, answers, session>>

\* ... or has a new run q answer the same message.
RetryRun(r, q) ==
    /\ Disposable(r)
    /\ Admission(r, run[r].state, run[r].err) = "Allowed"
    /\ Fresh(q)
    /\ run' = [run EXCEPT ![r].disposed = "retried",
                          ![q] = QueuedRun(run[r].input)]
    /\ UNCHANGED <<held, resv, outcomes, events, answers, session>>

\* Time passes.
Tick ==
    /\ run' = [r \in Runs |-> RowLater(run[r])]
    /\ run' # run
    /\ UNCHANGED <<held, resv, outcomes, events, answers, session>>

-----------------------------------------------------------------------------
Owner ==
    \/ \E r \in Runs : SendMessage(r)
    \/ \E r \in Runs : RequestCancellation(r)
    \/ \E r \in Runs : AcknowledgeRunFailure(r)
    \/ \E r, q \in Runs : RetryRun(r, q)
    \/ ArchiveSession
    \/ RestoreSession
    \/ DeleteSession

Work(w, lag) ==
    \/ \E r \in Runs : Claim(w, r, lag)
    \/ Reserve(w, lag)
    \/ ReleaseUnused(w, lag)
    \/ MarkUncertain(w, lag)
    \/ Commit(w, lag)
    \/ PersistProviderTurn(w, lag)
    \/ PersistToolBatch(w, lag)
    \/ ConsumeAdoptionCheckpoint(w, lag)
    \/ AppendProviderOutput(w, lag)
    \/ \E s \in Closing, err \in ErrorCodes : Finish(w, s, err, lag)
    \/ ScheduleRetry(w, lag)

Worker(w) ==
    \/ Start(w)
    \/ Heartbeat(w)
    \/ Crash(w)
    \/ \E lag \in 0..MaxLag : Work(w, lag)

Recover == \E lag \in 0..MaxLag : RecoverExpiredLeases(lag)

Next ==
    \/ Owner
    \/ \E w \in Workers : Worker(w)
    \/ Recover
    \/ Tick

Spec == Init /\ [][Next]_vars

\* The host repeats the recovery pass, and time passes.
FairSpec == Spec /\ WF_vars(Recover) /\ WF_vars(Tick)

-----------------------------------------------------------------------------
(* Rows, remembered leases, reservations, outcomes and events have the     *)
(* types of persistence.rs and orm_runs.rs.                                *)
TypeOK ==
    /\ run \in [Runs -> RunRow]
    /\ held \in [Workers -> Held \cup {None}]
    /\ resv \in [Runs -> SUBSET Reservation]
    /\ outcomes \subseteq [run : Runs, attempt : Nat, state : States]
    /\ events \in [Runs -> Seq([state : Closing,
                    admission : {"Allowed", "RefusedUncertain",
                                 "RefusedAlreadyAnswered", None}])]
    /\ answers \in [Runs -> Nat]
    /\ session \in {"active", "archived", "deleting"}

(* Every attempt that is over has exactly one outcome, the attempt that is *)
(* still leased has none, and no attempt is ever skipped, although five    *)
(* operations may end an attempt and race each other (finish,              *)
(* schedule_retry, recover_expired_leases, request_cancellation).          *)
AttemptOutcomes ==
    /\ \A r \in Runs : \A g \in 1..run[r].gen :
         HasOutcome(r, g) <=>
           (g < run[r].gen \/ run[r].state \notin {"Leased", "Running"})
    /\ \A o, p \in outcomes :
         o.run = p.run /\ o.attempt = p.attempt => o = p

(* A run waiting to be claimed is one claim_once accepts: a row left with  *)
(* an attempt, an owner or an adoption marker without its checkpoint would *)
(* block every younger run behind it.                                      *)
ClaimableWellFormed ==
    \A r \in Runs : run[r].state \in {"Queued", "RetryScheduled"} =>
        WellFormedClaim(run[r])

(* However often a run expires, is deferred or is adopted, it is attempted *)
(* at most once more than maximum_run_retries.                             *)
BoundedAttempts == \A r \in Runs : run[r].gen <= MaxRetries + 1

(* A user message gets at most one durable answer, over every attempt of   *)
(* every run authored for it, whoever is late: a cancelled or superseded   *)
(* worker, or a retry (append_provider_output, classify_run_retry).        *)
AnsweredOnce ==
    \A r \in Runs :
        /\ answers[r] <= 1
        /\ answers[r] > 0 => \A q \in Runs \ {r} :
             run[q].input = run[r].input => answers[q] = 0

(* A persisted answer is never abandoned: its run cannot be cancelled,     *)
(* failed, requeued or retried any more, and a run that completed has one. *)
(* The worker may die between append_provider_output and finish.           *)
AnswerNeverLost ==
    \A r \in Runs :
        /\ answers[r] > 0 =>
             /\ run[r].state \in {"Running", "Completed", "RecoveryRequired"}
             /\ run[r].disposed # "retried"
        /\ run[r].state = "Completed" => answers[r] > 0

(* An answer is paid for: it was appended by an attempt whose provider     *)
(* turn's reservation was committed, so that a run only completes over     *)
(* usage that is on the ledger (orm_runs.rs finish: "Budget usage must be  *)
(* reconciled before a successful/failed terminal completion").            *)
AnswerIsBilled ==
    \A r \in Runs : answers[r] > 0 =>
        \E v \in resv[r] : v.state = "committed" /\ v.gen = run[r].gen

(* No provider turn of a run is sent twice: whatever attempt recovery,     *)
(* adoption or deferral starts, it goes on after the last turn that may    *)
(* have been sent, or the run is closed (docs/worker-provider-turn.md:     *)
(* "never replayed").                                                      *)
TurnSentOnce ==
    \A r \in Runs : \A u, v \in resv[r] :
        (u.turn = v.turn /\ u.state # "released" /\ v.state # "released") =>
            u = v

(* The last terminal event of a closed run says the state the run is in,   *)
(* and the retry admission in it is the one dispose computes when the      *)
(* client acts on it, however late: a failed run and one in recovery       *)
(* always have it (append_terminal_run_event: "Retry admission is decided  *)
(* from committed rows only").  A run that completed, or that its owner    *)
(* cancelled, tells of none: run_cancelled carries only the cancellation,  *)
(* and a client must ask dispose.                                          *)
AdvertisedAdmission ==
    \A r \in Runs : run[r].state \in Closing =>
        LET event == events[r][Len(events[r])]
            admission == Admission(r, run[r].state, run[r].err)
        IN  /\ events[r] # <<>>
            /\ event.state = run[r].state
            /\ event.admission \in {None, admission}
            /\ run[r].state \in {"Failed", "RecoveryRequired"} =>
                 event.admission = admission

(* A lease that expired is not left to expire: the recovery pass or its    *)
(* own worker ends that condition.                                         *)
Expired(r) == run[r].state \in {"Leased", "Running"} /\ run[r].expiry <= 0
ExpiredLeaseRecovered == \A r \in Runs : Expired(r) ~> ~Expired(r)

(* The same for every run but those claimed to adopt a checkpoint that     *)
(* they have not consumed yet: one of these stops recover_expired_leases.  *)
Adopting(r) == run[r].ckpt # None /\ run[r].ckpt.gen # run[r].gen
OwnLeaseRecovered ==
    \A r \in Runs :
        Expired(r) ~> ~Expired(r) \/ \E q \in Runs : Adopting(q)

-----------------------------------------------------------------------------
(* The runs implement the attempt ledger: claims and every way an attempt  *)
(* ends (finish, schedule_retry, recover_expired_leases,                   *)
(* request_cancellation) are the ledger's steps, in whatever order workers *)
(* and the owner take them, and nothing else touches an attempt.           *)
Ledger == INSTANCE AttemptLedger WITH
    issued <- [r \in Runs |-> run[r].gen],
    current <- [r \in Runs |-> IF r \in Active THEN run[r].attempt ELSE 0],
    closed <- {<<o.run, o.attempt>> : o \in outcomes}
ImplementsLedger == Ledger!Spec
=============================================================================
