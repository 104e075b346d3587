------------------------- MODULE AiProviderSession -------------------------
(***************************************************************************)
(* Retained provider sessions of crates/graphql-orm-ai: the one            *)
(* AiProviderSessionBindingRecord of a session, the provider's threads it  *)
(* may name, the workers that claim it for one chat turn                   *)
(* (execute_with_provider_session_inner), and the cleaners that delete a   *)
(* thread whose content is no longer trusted.                              *)
(*                                                                         *)
(* Runs live as in AiRuns, whose rows these are; of a run's own records    *)
(* only what the binding depends on is kept: whether a provider dispatch   *)
(* is possible, and the messages.  The provider is a system of its own: a  *)
(* prompt that was sent stays in its thread whatever becomes of the        *)
(* worker, and its reply comes whether or not anyone is left to read it.   *)
(* Each transaction is one action, and so is each call to the provider;    *)
(* between two of them everything else may happen.                         *)
(***************************************************************************)
EXTENDS AiRunRows, Sequences

CONSTANTS
    Cleaners,      \* worker ids of the cleanup service
    MaxThreads,    \* bound: provider threads created
    ClaimTtl,      \* limits.claim_lease_ttl, in ticks
    CleanupTtl,    \* limits.cleanup_lease_ttl, in ticks
    CleanupDelay,  \* the delay of a cleanup retry, in ticks
    MaxCleanups    \* limits.maximum_retries

ASSUME SessionBoundsAssumption ==
    /\ MaxThreads \in Nat /\ MaxCleanups \in Nat
    /\ ClaimTtl \in 1..Ttl
    /\ CleanupTtl \in 1..Ttl
    /\ CleanupDelay \in 1..(Ttl + RetryDelay)
    /\ None \notin Cleaners

VARIABLES
    run,         \* run[r]: the AiRunRecord
    dispatched,  \* the runs with a reservation that was not released
    messages,    \* the session's AiMessageRecord rows, in sequence order
    binding,     \* its AiProviderSessionBindingRecord, or None
    thread,      \* thread[t]: a thread at the provider
    turn,        \* turn[w]: the lease worker w holds and its turn, or None
    cleaner      \* cleaner[c]: the cleanup claim of c, or None

vars == <<run, dispatched, messages, binding, thread, turn, cleaner>>

Threads == 1..MaxThreads

\* A message by its author: a prompt by the run that first answers to it, an
\* answer by the run that gave it.
Message == [role : {"user", "assistant"}, run : Runs]
Prompt(r) == [role |-> "user", run |-> run[r].input]
Answer(r) == [role |-> "assistant", run |-> r]

BindingStates ==
    {"active", "claimed", "cleanup_required", "cleanup_in_progress",
     "cleanup_backoff", "cleanup_exhausted", "deleted"}

\* AiProviderSessionBindingRecord.  lapsed: its absolute deadline or the
\* provider's has passed or, unclaimed, its idle one, which a release renews;
\* reason tells the codes of is_pre_dispatch_rebind_cleanup_reason ("pre")
\* from the others.  An attempt claims at most once: run and gen stand for
\* claim_generation.
Binding ==
    [state         : BindingStates,
     cursor        : Threads,
     through       : Nat,
     run           : Runs \cup {None},
     gen           : Nat \cup {None},
     owner         : Workers \cup {None},
     claimExpiry   : Ticks \cup {None},
     lastRun       : Runs \cup {None},
     reason        : {"none", "pre", "other"},
     lapsed        : BOOLEAN,
     cleanupOwner  : Cleaners \cup {None},
     cleanupGen    : Nat,
     cleanupExpiry : Ticks \cup {None},
     cleanups      : 0..(MaxCleanups + 1),
     next          : Ticks \cup {None}]

ASSUME BindingAssumption == None \notin Binding

\* A thread: the messages it was shown or produced after the first base of
\* the session's, and the run whose reply it is still producing.
Thread ==
    [state : {"none", "live", "gone"}, base : Nat, log : Seq(Message),
     pending : Runs \cup {None}]

Gone == [state |-> "gone", base |-> 0, log |-> <<>>, pending |-> None]

\* Where the worker of a lease is in execute_with_provider_session_inner.
\* From "claimed" on it holds the claim its lease names.  auth is the cleanup
\* generation of its rebind authorization, new whether it made the thread.
Turn ==
    [lease  : AiRunLease,
     phase  : {"leased", "ready", "resume", "create", "created", "claimed",
               "opened", "reserved", "refused", "sent", "replied",
               "answered", "finished", "deferred", "failed"},
     cursor : Threads \cup {None}, new : BOOLEAN, auth : Nat \cup {None}]

\* A turn of lease l that holds nothing of the provider's.
Bare(l, p) ==
    [lease |-> l, phase |-> p, cursor |-> None, new |-> FALSE, auth |-> None]

Cleanup ==
    [gen : Nat, cursor : Threads, phase : {"claimed", "opened", "absent"}]

\* input.sequence
InputSequence(r) ==
    CHOOSE i \in 1..Len(messages) : messages[i] = Prompt(r)

Answered(r) == \E i \in 1..Len(messages) : messages[i] = Answer(r)

Least(a, b) == IF a < b THEN a ELSE b

\* load_and_validate_active_lease
Fenced(w, lag) ==
    /\ turn[w] # None
    /\ LeaseHolds(turn[w].lease, w, run[turn[w].lease.run], lag)

\* Worker w is in one of the phases P.
In(w, P) == turn[w] # None /\ turn[w].phase \in P

-----------------------------------------------------------------------------
Init ==
    /\ run = [r \in Runs |-> Absent]
    /\ dispatched = {}
    /\ messages = <<>>
    /\ binding = None
    /\ thread = [t \in Threads |->
          [state |-> "none", base |-> 0, log |-> <<>>, pending |-> None]]
    /\ turn = [w \in Workers |-> None]
    /\ cleaner = [c \in Cleaners |-> None]

\* The next run the session can insert.
Fresh(r) ==
    /\ run[r].state = "Absent"
    /\ \A q \in Runs : q < r => run[q].state # "Absent"

\* send_message
SendMessage(r) ==
    /\ Fresh(r)
    /\ run' = [run EXCEPT ![r] = QueuedRun(r)]
    /\ messages' = Append(messages, [role |-> "user", run |-> r])
    /\ UNCHANGED <<dispatched, binding, thread, turn, cleaner>>

\* request_cancellation
RequestCancellation(r) ==
    /\ run[r].state # "Absent"
    /\ ~IsTerminal(run[r].state)
    /\ run[r].ckpt = None
    /\ run' = [run EXCEPT ![r] = Closed(@, "Cancelled", "other")]
    /\ UNCHANGED <<dispatched, messages, binding, thread, turn, cleaner>>

\* dispose: a new run q answers the same message.
RetryRun(r, q) ==
    /\ run[r].state \in {"Failed", "Cancelled", "RecoveryRequired"}
    /\ run[r].disposed = "no"
    /\ ClassifyRunRetry(run[r].state, Answered(r), r \in dispatched,
                        run[r].err) = "Allowed"
    /\ Fresh(q)
    /\ run' = [run EXCEPT ![r].disposed = "retried",
                          ![q] = QueuedRun(run[r].input)]
    /\ UNCHANGED <<dispatched, messages, binding, thread, turn, cleaner>>

\* The row a worker wrote, and the lease it goes on with in phase p.
Renewed(w, r, row, p) ==
    /\ run' = [run EXCEPT ![r] = row]
    /\ turn' = [turn EXCEPT ![w].lease = LeaseFromRecord(r, row),
                            ![w].phase = p]

\* claim_next
Claim(w, r, lag) ==
    LET claimable == {q \in Runs :
            /\ run[q].state \in {"Queued", "RetryScheduled"}
            /\ run[q].eligible = None \/ run[q].eligible + lag <= 0}
        row == Leased(run[r], w, lag)
    IN  /\ turn[w] = None
        /\ r \in claimable
        /\ \A q \in claimable : r <= q
        /\ run' = [run EXCEPT ![r] = row]
        /\ turn' = [turn EXCEPT ![w] =
              Bare(LeaseFromRecord(r, row), "leased")]
        /\ UNCHANGED <<dispatched, messages, binding, thread, cleaner>>

\* start
Start(w) ==
    /\ In(w, {"leased"})
    /\ Fenced(w, 0)
    /\ LET r == turn[w].lease.run IN
       Renewed(w, r, [run[r] EXCEPT !.state = "Running", !.expiry = Ttl],
               "ready")
    /\ UNCHANGED <<dispatched, messages, binding, thread, cleaner>>

\* heartbeat, of the run
Heartbeat(w) ==
    /\ In(w, {"ready", "opened", "reserved", "sent"})
    /\ Fenced(w, 0)
    /\ LET r == turn[w].lease.run IN
       Renewed(w, r, [run[r] EXCEPT !.expiry = Ttl], turn[w].phase)
    /\ UNCHANGED <<dispatched, messages, binding, thread, cleaner>>

\* recover_expired_leases, a row at a time.
RecoverExpiredLease(r, lag) ==
    LET row == run[r]
        Left(s, err) == [Closed(row, s, err) EXCEPT !.attempt = None]
    IN  /\ row.state \in {"Leased", "Running"}
        /\ row.expiry + lag <= 0
        /\ run' = [run EXCEPT ![r] =
              CASE row.state = "Leased" /\ row.retries < MaxRetries ->
                     Requeued(row, "other", 0 - lag)
                [] row.state = "Leased" /\ row.retries >= MaxRetries ->
                     Left("Failed", "other")
                [] row.state = "Running" /\ row.ckpt # None ->
                     Left("Completed", "none")
                [] OTHER -> Left("RecoveryRequired", "other")]
        /\ UNCHANGED <<dispatched, messages, binding, thread, turn, cleaner>>

-----------------------------------------------------------------------------
\* An active binding may go on with run r's message: it is the next one,
\* and no deadline of the session has passed.
ResumableLate(b, r) == ~b.lapsed
Resumable(b, r) == b.through + 1 = InputSequence(r) /\ ~b.lapsed

\* disposition_for_run, for a planned turn whose descriptor and transcript
\* fingerprint match the binding's or do not.
Disposition(b, r, same) ==
    CASE b = None -> "New"
      [] b # None /\ b.state = "active" ->
           IF same /\ Resumable(b, r) THEN "Resume" ELSE "Reset"
      [] b # None /\ b.state = "deleted" ->
           IF b.lastRun # r \/ (b.reason = "pre" /\ r \notin dispatched)
           THEN "RebindAllowed" ELSE "Unavailable"
      [] OTHER -> "Unavailable"

\* cleanup_required_update
CleanupRequired(b, reason, r) ==
    [b EXCEPT !.state = "cleanup_required", !.lastRun = r, !.run = None,
              !.gen = None, !.owner = None, !.claimExpiry = None,
              !.cleanupOwner = None, !.cleanupExpiry = None, !.next = 0,
              !.reason = reason, !.lapsed = FALSE]

\* The run is leased, running, and answers to the newest message.
TurnFenced(w, lag) ==
    /\ Fenced(w, lag)
    /\ LET r == turn[w].lease.run IN
       /\ run[r].state = "Running"
       /\ InputSequence(r) = Len(messages)

DispositionForRun(w, lag, same) ==
    /\ In(w, {"ready"})
    /\ TurnFenced(w, lag)
    /\ LET r == turn[w].lease.run
           d == Disposition(binding, r, same)
       IN  /\ binding' = IF d = "Reset"
                         THEN CleanupRequired(binding, "pre", r)
                         ELSE binding
           /\ turn' = [turn EXCEPT
                 ![w].phase = CASE d = "Resume" -> "resume"
                                [] d \in {"New", "RebindAllowed"} -> "create"
                                [] d \in {"Reset", "Unavailable"} -> "deferred",
                 ![w].auth = IF d = "RebindAllowed" THEN binding.cleanupGen
                                                    ELSE None]
    /\ UNCHANGED <<run, dispatched, messages, thread, cleaner>>

-----------------------------------------------------------------------------
\* The claim that worker w takes on a binding for its run.
ClaimedBy(b, w, lag) ==
    LET l == turn[w].lease IN
    [b EXCEPT !.state = "claimed", !.run = l.run, !.gen = l.gen, !.owner = w,
              !.claimExpiry = Least(ClaimTtl - lag, run[l.run].expiry)]

\* claim_for_run
ClaimForRun(w, lag) ==
    /\ In(w, {"resume"})
    /\ TurnFenced(w, lag)
    /\ binding.state = "active"
    /\ Resumable(binding, turn[w].lease.run)
    /\ binding' = ClaimedBy(binding, w, lag)
    /\ turn' = [turn EXCEPT ![w].phase = "claimed",
                            ![w].cursor = binding.cursor]
    /\ UNCHANGED <<run, dispatched, messages, thread, cleaner>>

\* create_empty_provider_session
CreateThread(w, t) ==
    /\ In(w, {"create"})
    /\ thread[t].state = "none"
    /\ \A u \in Threads : u < t => thread[u].state # "none"
    /\ thread' = [thread EXCEPT ![t].state = "live"]
    /\ turn' = [turn EXCEPT ![w].phase = "created", ![w].cursor = t,
                            ![w].new = TRUE]
    /\ UNCHANGED <<run, dispatched, messages, binding, cleaner>>

\* The row that bind_for_run inserts and rebind_for_run rewrites.
FreshBinding(t, through, cleanupGen) ==
    [state |-> "active", cursor |-> t, through |-> through, run |-> None,
     gen |-> None, owner |-> None, claimExpiry |-> None,
     lastRun |-> None, reason |-> "none", lapsed |-> FALSE,
     cleanupOwner |-> None, cleanupGen |-> cleanupGen,
     cleanupExpiry |-> None, cleanups |-> 0, next |-> None]

\* bind_for_run admits no other binding; rebind_for_run the deleted one of
\* its authorization.
MayBind(auth) ==
    IF auth = None THEN binding = None
    ELSE binding.state = "deleted" /\ binding.cleanupGen = auth

\* bind_for_run and rebind_for_run.  An error is answered by discarding the
\* empty thread, although the transaction may have committed (~acked).
Bind(w, lag, acked) ==
    /\ In(w, {"created"})
    /\ TurnFenced(w, lag)
    /\ MayBind(turn[w].auth)
    /\ LET t == turn[w].cursor
           through == InputSequence(turn[w].lease.run) - 1
           cleans == IF binding = None THEN 0 ELSE binding.cleanupGen
       IN  /\ binding' = ClaimedBy(FreshBinding(t, through, cleans), w, lag)
           /\ thread' = [thread EXCEPT ![t] =
                 IF acked THEN [@ EXCEPT !.base = through] ELSE Gone]
           /\ turn' = [turn EXCEPT ![w] =
                 IF acked THEN [@ EXCEPT !.phase = "claimed", !.auth = None]
                          ELSE Bare(@.lease, "failed")]
    /\ UNCHANGED <<run, dispatched, messages, cleaner>>

\* A failure before a claim is held.  The discarding of an empty thread is
\* best effort; a lost fence of rebind_for_run is a deferral, and so is a
\* refusal of the provider's to create a thread.
BindFailed(w, discarded, deferred) ==
    /\ In(w, {"resume", "create", "created"})
    /\ discarded => turn[w].phase = "created"
    /\ deferred => turn[w].phase = "create" \/ turn[w].auth # None
    /\ thread' = IF discarded
                 THEN [thread EXCEPT ![turn[w].cursor] = Gone]
                 ELSE thread
    /\ turn' = [turn EXCEPT ![w] =
                  Bare(@.lease, IF deferred THEN "deferred" ELSE "failed")]
    /\ UNCHANGED <<run, dispatched, messages, binding, cleaner>>

-----------------------------------------------------------------------------
\* validate_claim_record_without_run
ClaimRecorded(w) ==
    /\ binding # None
    /\ binding.state = "claimed"
    /\ binding.run = turn[w].lease.run
    /\ binding.gen = turn[w].lease.gen

\* validate_active_claim
ActiveClaim(w, lag) ==
    /\ ClaimRecorded(w)
    /\ binding.owner = w
    /\ binding.claimExpiry + lag > 0

\* open_for_run
OpenForRun(w, lag) ==
    /\ In(w, {"claimed"})
    /\ Fenced(w, lag)
    /\ ActiveClaim(w, lag)
    /\ turn' = [turn EXCEPT ![w].phase = "opened"]
    /\ UNCHANGED <<run, dispatched, messages, binding, thread, cleaner>>

\* heartbeat, of the claim
HeartbeatClaim(w, lag) ==
    /\ In(w, {"opened", "reserved", "sent"})
    /\ Fenced(w, lag)
    /\ ActiveClaim(w, lag)
    /\ binding' = [binding EXCEPT !.claimExpiry =
          Least(ClaimTtl - lag, run[turn[w].lease.run].expiry)]
    /\ UNCHANGED <<run, dispatched, messages, thread, turn, cleaner>>

\* require_cleanup, after any failure of a claimed turn; a newly bound
\* thread that could not be opened is discarded too.
RequireCleanup(w) ==
    /\ In(w, {"claimed", "opened", "reserved", "refused", "sent",
              "replied", "answered", "finished"})
    /\ ClaimRecorded(w)
    /\ binding' = CleanupRequired(binding, "other", turn[w].lease.run)
    /\ thread' = IF turn[w].new /\ turn[w].phase = "claimed"
                 THEN [thread EXCEPT ![turn[w].cursor] = Gone]
                 ELSE thread
    /\ turn' = [turn EXCEPT ![w] =
          IF @.phase \in {"answered", "finished"} THEN None
          ELSE Bare(@.lease, IF @.phase = "refused" THEN "deferred"
                                                    ELSE "failed")]
    /\ UNCHANGED <<run, dispatched, messages, cleaner>>

-----------------------------------------------------------------------------
\* The reservation of the turn, and its release when nothing was sent.
Reserve(w, lag) ==
    /\ In(w, {"opened"})
    /\ Fenced(w, lag)
    /\ dispatched' = dispatched \cup {turn[w].lease.run}
    /\ turn' = [turn EXCEPT ![w].phase = "reserved"]
    /\ UNCHANGED <<run, messages, binding, thread, cleaner>>

ReleaseUnused(w, lag) ==
    /\ In(w, {"reserved"})
    /\ Fenced(w, lag)
    /\ dispatched' = dispatched \ {turn[w].lease.run}
    /\ turn' = [turn EXCEPT ![w].phase = "refused"]
    /\ UNCHANGED <<run, messages, binding, thread, cleaner>>

\* The prompt crosses the transport.  No fence is left to stop it.
SendPrompt(w) ==
    /\ In(w, {"reserved"})
    /\ thread[turn[w].cursor].state = "live"
    /\ thread' = [thread EXCEPT
          ![turn[w].cursor].log = Append(@, Prompt(turn[w].lease.run)),
          ![turn[w].cursor].pending = turn[w].lease.run]
    /\ turn' = [turn EXCEPT ![w].phase = "sent"]
    /\ UNCHANGED <<run, dispatched, messages, binding, cleaner>>

\* The provider completes its reply.
Reply(t) ==
    /\ thread[t].pending # None
    /\ thread[t].state = "live"
    /\ thread' = [thread EXCEPT ![t].pending = None,
                      ![t].log = Append(@, Answer(thread[t].pending))]
    /\ UNCHANGED <<run, dispatched, messages, binding, turn, cleaner>>

\* The worker receives the reply.
ReceiveReply(w) ==
    /\ In(w, {"sent"})
    /\ thread[turn[w].cursor].state = "live"
    /\ thread[turn[w].cursor].pending = None
    /\ turn' = [turn EXCEPT ![w].phase = "replied"]
    /\ UNCHANGED <<run, dispatched, messages, binding, thread, cleaner>>

\* append_provider_output
AppendProviderOutput(w, lag) ==
    /\ In(w, {"replied"})
    /\ Fenced(w, lag)
    /\ LET r == turn[w].lease.run
       IN  /\ messages' = Append(messages, Answer(r))
           /\ Renewed(w, r, [run[r] EXCEPT !.expiry = Ttl - lag,
                 !.ckpt = [kind |-> "output", gen |-> turn[w].lease.gen,
                           turns |-> 1]], "answered")
    /\ UNCHANGED <<dispatched, binding, thread, cleaner>>

\* finish: how the coordinator concludes the run, by how its turn ended.
Finish(w, s, err, lag) ==
    /\ \/ In(w, {"answered"}) /\ <<s, err>> = <<"Completed", "none">>
       \/ In(w, {"refused"}) /\ <<s, err>> = <<"Failed", "guarded">>
       \/ In(w, {"deferred"}) /\ <<s, err>> = <<"Failed", "clean">>
                              /\ turn[w].lease.retries = MaxRetries
       \/ In(w, {"ready", "failed", "reserved", "sent", "replied"})
            /\ <<s, err>> = <<"RecoveryRequired", "other">>
    /\ Fenced(w, lag)
    /\ run' = [run EXCEPT ![turn[w].lease.run] = Closed(@, s, err)]
    /\ turn' = [turn EXCEPT ![w] =
          IF s = "Completed" THEN [turn[w] EXCEPT !.phase = "finished"]
                             ELSE None]
    /\ UNCHANGED <<dispatched, messages, binding, thread, cleaner>>

\* schedule_retry of a deferred turn
ScheduleRetry(w, lag) ==
    /\ In(w, {"deferred"})
    /\ Fenced(w, lag)
    /\ turn[w].lease.retries < MaxRetries
    /\ run' = [run EXCEPT ![turn[w].lease.run] =
                 Requeued(@, "other", RetryDelay - lag)]
    /\ turn' = [turn EXCEPT ![w] = None]
    /\ UNCHANGED <<dispatched, messages, binding, thread, cleaner>>

\* load_and_validate_completed_run
CompletedRun(l) ==
    LeaseFromRecord(l.run, run[l.run]) = [l EXCEPT !.state = "Completed"]

\* The binding after a turn that left the thread trusted through n.
Released(b, n) ==
    [b EXCEPT !.state = "active", !.through = n, !.lastRun = b.run,
              !.run = None, !.gen = None, !.owner = None,
              !.claimExpiry = None]

\* commit_turn: the answer is the newest message, and the second after the
\* last the binding represents (provider_session_commit).
CommitTurnOverNewer(w, lag) ==
    /\ In(w, {"finished"})
    /\ CompletedRun(turn[w].lease)
    /\ ActiveClaim(w, lag)
    /\ ~binding.lapsed
    /\ messages[Len(messages)] = Answer(turn[w].lease.run)
    /\ binding' = Released(binding, Len(messages))
    /\ turn' = [turn EXCEPT ![w] = None]
    /\ UNCHANGED <<run, dispatched, messages, thread, cleaner>>
CommitTurn(w, lag) ==
    /\ In(w, {"finished"})
    /\ CompletedRun(turn[w].lease)
    /\ ActiveClaim(w, lag)
    /\ ~binding.lapsed
    /\ messages[Len(messages)] = Answer(turn[w].lease.run)
    /\ Len(messages) = binding.through + 2
    /\ binding' = Released(binding, Len(messages))
    /\ turn' = [turn EXCEPT ![w] = None]
    /\ UNCHANGED <<run, dispatched, messages, thread, cleaner>>

-----------------------------------------------------------------------------
\* The claim of a cancelled run's own lease, whatever the executor, whose
\* future was dropped, remembered of it.
InterruptedClaim(w) ==
    /\ turn[w] # None
    /\ run[turn[w].lease.run].state = "Cancelled"
    /\ binding # None
    /\ binding.state = "claimed"
    /\ binding.run = turn[w].lease.run
    /\ binding.gen = turn[w].lease.gen
    /\ binding.owner = w

\* interrupt_run proved that the thread dropped the partial reply, and
\* settle_interrupted_turn that the run left nothing else.
SettleInterruptedTurn(w, lag) ==
    /\ In(w, {"sent"})
    /\ InterruptedClaim(w)
    /\ thread[turn[w].cursor].state = "live"
    /\ thread[turn[w].cursor].pending = turn[w].lease.run
    /\ LET l == turn[w].lease IN
       /\ run[l.run].attempt = l.attempt /\ run[l.run].gen = l.gen
       /\ run[l.run].retries = l.retries
       /\ run[l.run].ckpt = None /\ l.ckpt = None
       /\ ~Answered(l.run)
       /\ binding.claimExpiry + lag > 0
       /\ Resumable(binding, l.run)
       /\ binding' = Released(binding, InputSequence(l.run))
    /\ thread' = [thread EXCEPT ![turn[w].cursor].pending = None]
    /\ turn' = [turn EXCEPT ![w] = None]
    /\ UNCHANGED <<run, dispatched, messages, cleaner>>

\* require_cleanup_for_run: anything less is not settled.
RequireCleanupForRun(w) ==
    /\ InterruptedClaim(w)
    /\ binding' = CleanupRequired(binding, "other", turn[w].lease.run)
    /\ turn' = [turn EXCEPT ![w] = None]
    /\ UNCHANGED <<run, dispatched, messages, thread, cleaner>>

\* The worker dies, or gives up a lost lease or a cancelled run; its future
\* is dropped wherever it is.
Crash(w) ==
    /\ turn[w] # None
    /\ turn' = [turn EXCEPT ![w] = None]
    /\ UNCHANGED <<run, dispatched, messages, binding, thread, cleaner>>

-----------------------------------------------------------------------------
\* The bindings claim_cleanup takes.
ReadyForCleanupOnce(b, lag) ==
    CASE b.state = "cleanup_required" -> TRUE
      [] b.state = "cleanup_backoff" -> b.next + lag <= 0
      [] b.state = "claimed" -> b.claimExpiry + lag <= 0
      [] b.state = "active" -> b.lapsed
      [] OTHER -> FALSE
ReadyForCleanup(b, lag) ==
    CASE b.state = "cleanup_required" -> TRUE
      [] b.state = "cleanup_backoff" -> b.next + lag <= 0
      [] b.state = "claimed" -> b.claimExpiry + lag <= 0
      [] b.state = "active" -> b.lapsed
      [] b.state = "cleanup_in_progress" -> b.cleanupExpiry + lag <= 0
      [] OTHER -> FALSE

\* The row a cleaner claims.  An attempt is counted when it begins.
InCleanup(b, c, lag) ==
    [b EXCEPT !.state = "cleanup_in_progress", !.run = None, !.gen = None,
              !.owner = None, !.claimExpiry = None, !.cleanupOwner = c,
              !.cleanupGen = @ + 1, !.cleanups = @ + 1,
              !.cleanupExpiry = CleanupTtl - lag, !.next = None,
              !.lapsed = FALSE,
              !.reason = IF @ # "none" THEN @
                         ELSE IF b.state = "active" THEN "pre" ELSE "other"]

\* The attempts of the cleanup budget are used up.
Spent(b) == b.cleanups > MaxCleanups

Exhausted(b) ==
    [b EXCEPT !.state = "cleanup_exhausted", !.cleanupOwner = None,
              !.cleanupExpiry = None, !.next = None]

\* claim_cleanup
ClaimCleanup(c, lag) ==
    /\ cleaner[c] = None
    /\ binding # None
    /\ ReadyForCleanup(binding, lag)
    /\ IF Spent(binding)
       THEN /\ binding' = Exhausted(binding)
            /\ UNCHANGED cleaner
       ELSE /\ binding' = InCleanup(binding, c, lag)
            /\ cleaner' = [cleaner EXCEPT ![c] =
                  [gen |-> binding.cleanupGen + 1, cursor |-> binding.cursor,
                   phase |-> "claimed"]]
    /\ UNCHANGED <<run, dispatched, messages, thread, turn>>

\* validate_cleanup_claim
CleanupFenced(c, lag) ==
    /\ binding.state = "cleanup_in_progress"
    /\ binding.cleanupOwner = c
    /\ binding.cleanupGen = cleaner[c].gen
    /\ binding.cleanupExpiry + lag > 0

\* open_for_cleanup
OpenForCleanup(c, lag) ==
    /\ cleaner[c] # None
    /\ cleaner[c].phase = "claimed"
    /\ CleanupFenced(c, lag)
    /\ cleaner' = [cleaner EXCEPT ![c].phase = "opened"]
    /\ UNCHANGED <<run, dispatched, messages, binding, thread, turn>>

\* The provider deletes the thread and proves its absence, however late.
DeleteThread(c) ==
    /\ cleaner[c] # None
    /\ cleaner[c].phase = "opened"
    /\ thread' = [thread EXCEPT ![cleaner[c].cursor] = Gone]
    /\ cleaner' = [cleaner EXCEPT ![c].phase = "absent"]
    /\ UNCHANGED <<run, dispatched, messages, binding, turn>>

\* complete_cleanup
CompleteCleanupUnfenced(c, lag) ==
    /\ cleaner[c] # None
    /\ cleaner[c].phase = "absent"
    /\ binding.state = "cleanup_in_progress"
    /\ binding' = [binding EXCEPT !.state = "deleted", !.cleanupOwner = None,
                                  !.cleanupExpiry = None, !.next = None]
    /\ cleaner' = [cleaner EXCEPT ![c] = None]
    /\ UNCHANGED <<run, dispatched, messages, thread, turn>>
CompleteCleanup(c, lag) ==
    /\ cleaner[c] # None
    /\ cleaner[c].phase = "absent"
    /\ CleanupFenced(c, lag)
    /\ cleaner[c].cursor = binding.cursor
    /\ binding' = [binding EXCEPT !.state = "deleted", !.cleanupOwner = None,
                                  !.cleanupExpiry = None, !.next = None]
    /\ cleaner' = [cleaner EXCEPT ![c] = None]
    /\ UNCHANGED <<run, dispatched, messages, thread, turn>>

\* schedule_cleanup_retry
ScheduleCleanupRetry(c, lag) ==
    /\ cleaner[c] # None
    /\ CleanupFenced(c, lag)
    /\ binding' = IF Spent(binding) THEN Exhausted(binding)
                  ELSE [binding EXCEPT !.state = "cleanup_backoff",
                          !.cleanupOwner = None, !.cleanupExpiry = None,
                          !.next = CleanupDelay - lag]
    /\ cleaner' = [cleaner EXCEPT ![c] = None]
    /\ UNCHANGED <<run, dispatched, messages, thread, turn>>

\* The cleaner returns with the Conflict of a claim it has lost.
LoseCleanup(c) ==
    /\ cleaner[c] # None
    /\ cleaner[c].phase # "opened"
    /\ ~CleanupFenced(c, 0)
    /\ cleaner' = [cleaner EXCEPT ![c] = None]
    /\ UNCHANGED <<run, dispatched, messages, binding, thread, turn>>

CrashCleaner(c) ==
    /\ cleaner[c] # None
    /\ cleaner' = [cleaner EXCEPT ![c] = None]
    /\ UNCHANGED <<run, dispatched, messages, binding, thread, turn>>

-----------------------------------------------------------------------------
\* A deadline of the retained session itself passes.
Lapse ==
    /\ binding # None
    /\ binding.state \in {"active", "claimed"}
    /\ ~binding.lapsed
    /\ binding' = [binding EXCEPT !.lapsed = TRUE]
    /\ UNCHANGED <<run, dispatched, messages, thread, turn, cleaner>>

Tick ==
    /\ run' = [r \in Runs |-> RowLater(run[r])]
    /\ binding' = IF binding = None THEN None
                  ELSE [binding EXCEPT !.claimExpiry = Sooner(@),
                                       !.cleanupExpiry = Sooner(@),
                                       !.next = Sooner(@)]
    /\ <<run, binding>>' # <<run, binding>>
    /\ UNCHANGED <<dispatched, messages, thread, turn, cleaner>>

Owner ==
    \/ \E r \in Runs : SendMessage(r)
    \/ \E r \in Runs : RequestCancellation(r)
    \/ \E r, q \in Runs : RetryRun(r, q)

Work(w, lag) ==
    \/ \E r \in Runs : Claim(w, r, lag)
    \/ \E same \in BOOLEAN : DispositionForRun(w, lag, same)
    \/ ClaimForRun(w, lag)
    \/ \E acked \in BOOLEAN : Bind(w, lag, acked)
    \/ OpenForRun(w, lag)
    \/ HeartbeatClaim(w, lag)
    \/ Reserve(w, lag)
    \/ ReleaseUnused(w, lag)
    \/ AppendProviderOutput(w, lag)
    \/ \E s \in Closing, err \in ErrorCodes : Finish(w, s, err, lag)
    \/ ScheduleRetry(w, lag)
    \/ CommitTurn(w, lag)
    \/ SettleInterruptedTurn(w, lag)

Worker(w) ==
    \/ Start(w)
    \/ Heartbeat(w)
    \/ \E t \in Threads : CreateThread(w, t)
    \/ \E discarded, deferred \in BOOLEAN : BindFailed(w, discarded, deferred)
    \/ RequireCleanup(w)
    \/ SendPrompt(w)
    \/ ReceiveReply(w)
    \/ RequireCleanupForRun(w)
    \/ Crash(w)
    \/ \E lag \in 0..MaxLag : Work(w, lag)

Cleaner(c) ==
    \/ DeleteThread(c)
    \/ LoseCleanup(c)
    \/ \E lag \in 0..MaxLag :
         \/ ClaimCleanup(c, lag)
         \/ OpenForCleanup(c, lag)
         \/ CompleteCleanup(c, lag)
         \/ ScheduleCleanupRetry(c, lag)

Next ==
    \/ Owner
    \/ \E w \in Workers : Worker(w)
    \/ \E r \in Runs, lag \in 0..MaxLag : RecoverExpiredLease(r, lag)
    \/ \E t \in Threads : Reply(t)
    \/ \E c \in Cleaners : Cleaner(c) \/ CrashCleaner(c)
    \/ Lapse
    \/ Tick

Spec == Init /\ [][Next]_vars

\* The host keeps its cleaners polling, and time passes.
FairSpec ==
    /\ Spec
    /\ \A c \in Cleaners : WF_vars(Cleaner(c))
    /\ WF_vars(Tick)

-----------------------------------------------------------------------------
(* The binding, the threads and what the workers and the cleaners hold     *)
(* have the types of persistence.rs and provider_session.rs.               *)
TypeOK ==
    /\ run \in [Runs -> RunRow]
    /\ dispatched \subseteq Runs
    /\ messages \in Seq(Message)
    /\ binding \in Binding \cup {None}
    /\ thread \in [Threads -> Thread]
    /\ turn \in [Workers -> Turn \cup {None}]
    /\ cleaner \in [Cleaners -> Cleanup \cup {None}]

(* A retained thread that may be resumed holds exactly the durable         *)
(* transcript from where it was bound: every message once, in order, no    *)
(* partial reply and nothing the session does not record, although owners  *)
(* write, cancel and retry while a turn runs (commit_turn,                 *)
(* settle_interrupted_turn, disposition_for_run).                          *)
ThreadMirrorsTranscript ==
    binding # None /\ binding.state = "active" =>
        LET t == thread[binding.cursor] IN
        /\ t.state = "live"
        /\ t.pending = None
        /\ t.log = SubSeq(messages, t.base + 1, binding.through)

(* A worker about to send a prompt sends it into exactly the messages that *)
(* come before it, even if its lease, its claim or its run is lost by then *)
(* (open_for_run is the last fence before the transport).                  *)
PromptInContext ==
    \A w \in Workers :
        In(w, {"opened", "reserved"}) =>
            LET t == thread[turn[w].cursor] IN
            t.state = "live" =>
                t.log = SubSeq(messages, t.base + 1,
                               InputSequence(turn[w].lease.run) - 1)

(* Content is never left at the provider without a binding that names it:  *)
(* a thread is forgotten only when it is proved absent, however late a     *)
(* prompt, a cleaner or a commit acknowledgement is (complete_cleanup,     *)
(* bind_for_run: the crash window holds "an empty orphan").                *)
ContentNeverOrphaned ==
    \A t \in Threads :
        thread[t].state = "live" /\ thread[t].log # <<>> =>
            binding # None /\ binding.cursor = t /\ binding.state # "deleted"

(* Cleanup that is due ends: the thread is proved absent, or the attempts  *)
(* are exhausted and an operator is told.  Cleaners may die at every step  *)
(* (claim_cleanup: "repeated worker death must not bypass the finite       *)
(* provider-call budget").                                                 *)
CleaningUp ==
    binding # None /\ binding.state \in {"cleanup_required",
        "cleanup_in_progress", "cleanup_backoff"}
CleanupConverges == CleaningUp ~> ~CleaningUp
=============================================================================
