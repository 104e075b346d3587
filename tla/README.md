# graphql-orm: a TLA+ verification project

graphql-orm is a Cargo workspace of nine crates: an async GraphQL/SQL object mapper, a durable AI
run service built on it, a backup repository, an object storage layer and a federation router. This
directory holds TLA+ modules translated from the source, the TLC configurations that check them on
small instances, and TLAPS proofs of the properties that matter most. `PROJECT.json` maps every
definition to the lines it models, and lists runs, mutants, hazards, findings and theorems.

To repeat the checks, in this directory:

    tlc -workers 2 -config MCAiRunsChat.cfg MCAiRuns        # one run; PROJECT.json lists them all
    tlapm AiRunsProofs.tla                                  # one module of proofs

## 1. Inventory

### Components, their state and their operations

| Component | State | Operations | Module |
|---|---|---|---|
| Fenced lease (`graphql-orm/.../lease.rs`) | one row per resource: owner, attempt, fencing token, expiry, version | claim, validate, heartbeat, commit_fenced_write, release | `FencedLease` |
| Cache synchronisation (`cache_sync.rs`) | partition state: generation, freshness, cooldown, failures; the lease; change streams | refresh claim, promote, fail, force, watch | `CacheSync` |
| AI run states (`run_state.rs`) | none | the transition table, retry classification | `AiRunState` |
| AI runs (`orm_runs.rs`, `orm_coordinator.rs`, `provider_calls.rs`) | run rows, attempt outcomes, checkpoints, terminal events, assistant messages | claim, start, heartbeat, reserve, dispatch, settle, checkpoint, adopt, append output, finish, defer, recover | `AiRunRows`, `AiRuns` |
| Cancellation, disposition, sessions (`orm_run_cancellation.rs`, `orm_run_disposition.rs`, `orm_sessions.rs`) | the same rows, the session row | send, cancel, retry, acknowledge, archive, restore, delete | `AiRuns` |
| Provider sessions (`orm_provider_session.rs`) | one binding per session, the provider's threads | claim, bind, resume, commit turn, interrupt, park, clean up | `AiProviderSession` |
| Approvals (`orm_approvals.rs`, `orm_tools.rs`) | approval rows, the tool call, the run that waits | request, decide, revoke, claim, consume, execute, reconcile | `AiApprovals` |
| Subscription waits (`orm_subscription_waits.rs`) | waiter, adoption, the source's log | register, claim, open, examine, advance, adopt, consume, close | `AiSubscriptionWaits` |
| Background submissions, webhooks (`orm_background.rs`, `orm_webhooks.rs`) | submission, receipt, budget hold, the provider's job | prepare, send, accept, reconcile, retrieve, commit, recover, expire | `AiBackground` |
| AI budget ledger (`orm_budget.rs`, `orm_budget_provisioning.rs`, `orm_configuration.rs`) | policies, period counters, reservations, usage entries | reserve, mark uncertain, release, commit, background commit, reclaim, ensure and upsert of policies | `AiBudget` |
| Attachments (`orm_attachments.rs`) and their retention (`orm_session_retention.rs`) | attachment rows, blob objects | ticket, upload, release, link, remove, clean up, prune | `AiAttachments` |
| Backup repository (`graphql-orm-backup`) | blobs: the lock, manifests, payloads, content-addressed objects | full, incremental, compact, prune, delete | `BackupRepository` |
| Backup restore (`restore.rs`) | the target database, the progress report | restore, dry run | `BackupRepository` |
| Inbox, session activity, retention of messages and tools, native tools, automatic mutations | rows with a version, batch cursors | see their files | planned |
| ORM mutations, migrations, change events, pagination | transactions, migration history, broadcast channels, cursors | see their files | planned |
| Object storage (`graphql-orm-storage`) | local files, multipart sessions | conditional put, complete, abort | planned |
| Federation router (`graphql-orm-router`) | active supergraph, candidate, subscriptions | activate, roll back, subscribe, drain | planned |
| Derive macros, operation catalog, tool profiles, protocol, provider adapters | none, or wire formats | code generation, request building | not modelled |

### How components interact

* Workers, the recovery pass, the owner's mutations and the budget ledger share one database. Each
  repository operation is one transaction; the coordinator strings several together, holding only a
  remembered `AiRunLease`. A worker may therefore be overtaken between any two of its operations.
* A run's turn reserves budget before the provider is called and settles it after; the run rows'
  fence is what the budget operations check, so each ledger operation may find the attempt superseded.
* A retained provider session is a second row with a claim of its own beside the run's lease, and
  names a thread that the provider keeps whatever becomes of both.
* A run that waits gives up its lease (or, in a stateless approval wait, keeps its attempt). What it
  waits for is another row, and other actors wake it: a human, a poller over a replayable source, a
  reconciler over a provider's response. Cancellation cuts across all of them in one transaction.
* Attachment rows are in the database and their bytes in a blob store; no transaction spans both.
* Writers of a backup repository share nothing but a blob store whose one atomic primitive is
  "put if absent". A restore shares the store with them and takes no lock.

### What is hard here

Leases that expire while their holder still works; clocks read before a wait for the transaction
lock; crashes between the provider's answer and its persistence; an owner who cancels in the middle
of a turn; rows read in one transaction and judged in another; events published while a wait for them
is being registered; acknowledgements that are lost; an operator who reclaims what a worker is about to settle;
counters shared by concurrent reservations over several policies and periods; cleanup that dies half
way, again and again; uploads that outlive their deadline; deletions whose answer is lost; maintenance
that stops half way; and restores that run beside maintenance. `PROJECT.json` lists each as a hazard,
at its line, with the properties that would catch it.

### What makes each component correct

* Lease and cache: accepted operations follow the order of tokens, no update is lost, a released
  proof is dead; nothing older is promoted over something newer or called fresh; no watcher misses
  a generation for good; attempts are spaced by cooldown and backoff.
* Runs: one outcome per attempt; a bounded number of attempts; one answer per message, never lost
  and always billed; no provider turn sent twice; every waiting row can be claimed; expired leases
  are resolved.
* Provider sessions: a thread that may be resumed holds exactly the durable transcript; a prompt lands
  only on the messages before it; content at the provider is always named by a row; cleanup ends.
* Waits: an approved effect happens at most once, and only while the approval stands; the first
  matching event is the one delivered; a background turn is sent once, held until it is charged, and
  charged with what the provider reported; a run waits exactly as long as something will wake it; waits end.
* Budget: counters equal the rows behind them; one charge per reservation; no spending past a
  ceiling; only a closed run is charged an estimate.
* Attachments: what may be sent is readable; no object is left that no row names; abandoned
  uploads and deleted sessions are cleaned up.
* Backup: one writer; a published snapshot replays to the database it was taken of and stays so
  until a deletion chooses it; a successful restore is exact; a failed one is honest.

## 2. Modules and how they correspond to the code

Time, identifiers and payloads are abstracted to what the properties tell apart; control is kept:
every guard, early return and error path that changes state, in the code's order. An operation that
fails without changing state is a stuttering step. Encryption, authorisation policies, audit
rows, formatting and logging are left out. A deadline is the number of ticks left; where clocks are
read late, `lag` is how long ago an operation read its clock. A row version that is only compared is
represented by who remembers the row's present one, or by the owner of the claim that goes with it.

    FencedLease <- CacheSync                    AiRunState <- AiRunRows <- AiRuns -> AttemptLedger
    AiBudget                                    AiRunRows <- AiProviderSession
    BackupRepository                            AiRunRows <- AiParking <- AiApprovals, AiSubscriptionWaits,
    AiAttachments                                            AiBackground <- AiWaits
    (<- is EXTENDS, -> is refinement)

**`FencedLease`** is `FencedLeaseState` operation by operation. Workers remember versions (`known`)
and a proof (`proof`); each reads a clock up to `ClockSkew` away from the true one. `log` records the
operations each row accepted, and the properties are about that log. `MaxToken` and `MaxVersion`
stand for `u64::MAX`: at the end of the range an operation is refused, as `checked_add` does.

**`CacheSync`** extends it with the one client the ORM has for it: a worker claims a partition, collects
from the provider outside of any transaction, and promotes or fails under the lease's fence. The lease
may also be used directly, by a worker that has no refresh or announcement of its own under way, so one
run exercises both. Watchers are streams over a bounded channel
that learn of lag and catch up from the row.

**`AiRunState`** has the state table of `can_transition_to` and the admission of `classify_run_retry`.
**`AiRunRows`** has the run row, the lease a worker remembers of it, the fence, and what a claim, a
requeue and a closing make of a row; the four modules about runs share it.

**`AiRuns`** keeps one row per run, the leases workers remember with the coordinator's place in
its turn (`held[w].phase`), the reservations of each run, the outcome rows, the terminal events and
the number of durable answers. One action is one repository transaction; `finish` and others read
their clock before they wait for the lock. An attempt id is fresh with each claim, as its generation
is, so the generation stands for both. Chat turns and tool turns are the same module with `ToolTurns`
FALSE or TRUE.

**`AttemptLedger`** is the abstract specification of attempts: opened after the one before it is
closed, closed once. `AiRuns` implements it through `Ledger`, with `issued`, `current` and `closed`
mapped to generations, active attempts and outcome rows.

**`AiProviderSession`** has the binding of one session, the provider's threads as a system of their own
(a prompt that was sent stays, and its reply comes, whatever became of the worker), the turn each
worker is in, and the cleaners. A thread's content is a sequence of messages, compared with the
session's durable transcript.

**`AiParking`** has what the three waits share: the run one worker leases, the one tool call its turn
asked for, the provider session it may park, the session that owns it, and recovery.
**`AiApprovals`**, **`AiSubscriptionWaits`** and **`AiBackground`** each add one wait, with its external
partner (the tool, the source's log, the provider's job and webhook), and **`AiWaits`** composes them:
a run asks for any of the three, and cancellation, parked-session cleanup and time cut across. The
reconciliation of approvals is three reads and a write, so each pass carries what it has read; any of
them may fail and end the pass (`PassFails`), and any poll of a subscription wait may end in an error that
leaves its claim to run out (`PollFails`).

**`AiBudget`** has policies with ceilings, one counter per policy and period, reservations held on
every applicable counter, and the usage entries. `used[k]` is what a dispatched call consumed, which
only its worker and the background reconciler learn. Of the six amounts (requests, tokens, cost...)
one is kept: they are checked and moved together and independently. Runs have only what the ledger's
fences look at: state, generation and expiry.

**`AiAttachments`** has one row and two objects (quarantine and final) per attachment, the artifact a host
may derive from it (a local object and a provider's file), the one upload its ticket admits, removals,
cleanup workers and the retention pass. `current[a]` is who remembers the row's
version. A storage call may take effect although it fails. The retention pass takes attachments last:
`cutoff` is None while the session's scope has no valid policy, and `blocked` stands for the other
content of the session that is not purged yet, and may never be. `upload[a].lost` is history: the cases in
which the code itself gives an object up (see section 4).

**`BackupRepository`** makes each blob written or deleted a step. A database maps rows to the stored
object they refer to; an incremental payload is the changed part. A checksum is the content, so a
manifest records what its payload must hold, and an object blob is good or bad against its own name.
The operator's offline recovery (stop all writers, wait for requests to end, remove the lock) is
`Recoverable`, with the condition that no deletion is still under way taken from `lock.rs`. The
application's rows change at any time, and the bytes of objects in `Fragile` may be damaged. The
change journal an incremental needs is supplied by a host adapter (`OrmBackupAdapter` refuses it), so
`Changes` is external. `exported` and `doomed` are history: the database a snapshot stands for, and
the snapshots a deletion has chosen.

The modules with theorems, and all they extend, have no RECURSIVE operator: chains of snapshots and sums
are recursive functions or folds. Their proofs are in modules of their own: `FencedLeaseProofs`,
`CacheSyncProofs`, `AiRunsProofs`, `AiProviderSessionProofs`, `AiBudgetProofs`, `AiAttachmentsProofs`,
`BackupRepositoryProofs` and, for the three waits and their composition, `AiWaitsProofs`.

## 3. Runs

| Run | What it shows |
|---|---|
| `cache_and_leases` | Two workers, two owners, clocks a tick apart and tokens that run out, a lease used directly or by cache refreshes: fencing, no lost update; nothing stale is promoted or called fresh; refreshes are spaced; no watcher misses a generation. |
| `ai_runs_chat` | Two workers and two runs (a message and its retry, or two messages), expiry, lag, cancellation: one answer, billed and never lost, the admission that terminal events tell, and refinement of `AttemptLedger`. |
| `ai_runs_tools` | One run of two tool turns, two workers, two retries: checkpoints adopted by later attempts never send a turn twice, and under fairness expired leases are resolved unless an unconsumed checkpoint stands in the way. |
| `ai_runs_adoption` (violation) | With such a checkpoint they are not: finding 1. |
| `ai_budget` | Two runs, a shared renewing policy and a lifetime policy, period rollover, policy edits, requeued attempts, reclamation: counters balance within the stored range, one charge, ceilings, estimates only for closed runs. |
| `provider_session` | One worker, two runs and two cleaners: threads mirror the transcript, prompts land in their context, content is never orphaned. |
| `provider_session_live` | Two workers and two cleaners that may die at any step: cleanup ends, by proved absence or in its exhausted state. |
| `ai_waits` | Two workers, two pollers and two reconcilers around one run that asks for any of the three waits, with crashes, lost answers, expiry, cancellation and archived sessions. |
| `waits_live` | Under fairness every wait ends: withdrawn approvals and silent sources, unless the passes or polls go on failing for ever, and silent providers. |
| `attachments` | One attachment and its artifact, its upload, a removal and two cleaners, a store that fails, and a session that is deleted: readability, no unnamed objects, and under fairness an end to abandoned uploads and to deleted sessions that nothing blocks. |
| `backup_writers` | Two writers and three snapshots with ids in any order, compacted and pruned, with damage, crashes, lost answers and recovery. |
| `backup_restore` | Restores and dry runs beside a writer that also deletes. |

Each property of a passing run has a mutant: an operator beside the one it replaces that carries a
plausible bug (a dropped guard, a missing reset, a lost conjunct) and that makes TLC find the
property violated. Every module has one type invariant. They are proved (those of the three waits for
`AiWaits`, which composes them) and are left out of the routine runs.

### Bounds, and why they are enough

* Two workers are the pair that races; a third adds no kind of overtaking, because rows are
  compared only with one remembered lease at a time. `MaxRetries = 1` already has a first attempt, a
  requeue and the exhausted case; the tools run has two requeues so that an adopted attempt is itself
  adopted. `Ttl = 1` makes every lease expirable at each step and `Ttl = 2` lets a heartbeat matter.
  `MaxLag = 1` is the smallest reading of the clock that disagrees with the row.
* `MaxTurns = 2` has a turn before and a turn after a checkpoint. `ScanLimit` is as wide as the runs.
* Provider session: two runs have a turn before and a turn after a thread was retained; one cleanup
  attempt has the successful and the exhausted case. The instance with one cleaner and one retry per
  run holds too (1.5 million states) and is left out for its length.
* Waits: the waits of two runs share no row, so one run meets every actor; two of each actor are the
  holder and its successor. `MaxLog = 3` with `MaxEvents = 2` has events before the
  capture of the cursor, between capture and commit, and past the limit. `WaitTtl = 2` outlasts a claim.
  The liveness run has one of each actor, since fairness and symmetry do not go together.
* Budget: a ceiling of 2 with estimates of 1 admits one reservation and refuses the third unit;
  consumptions 0 and 2 are below and above the estimate; `MaxStored = 3` is reached by two overruns.
  Late clocks and longer sequences of attempts are covered by the proofs, which have no bound.
* Cache: `LeaseFor` and `Cooldown` of two ticks outlast one of freshness, so that refreshes overlap; a
  channel of capacity one overflows at the second promotion.
* Attachments: every lifetime is one tick, so each may end at each step. One attachment, because no
  operation compares two; a cleanup pass is assumed to reach every row (`maximum_batch_size` is not
  modelled). The invariants hold with `MaxLag = 1` too (0.6 million states), and the liveness property
  does without artifacts.
* Backup: two snapshots have every parent relation; three are a chain whose middle can be pruned. With
  one creation time, ids minted in any order make a child tie with its parent in either order. One
  row that may exist or not meets creation, deletion and re-creation. Two creation times (4.1 million
  states), restores that keep nothing in a prune (5.0 million) and restores of damaged objects (10.2
  million) hold too and are left out for their length.
* Symmetry is used for workers, cleaners, pollers, reconcilers and writers, in runs without a liveness
  property.
* `CHECK_DEADLOCK FALSE` stands where bounded work ends: all runs closed, time run out, attachments gone.
  `BackupRepository` never stops and is checked for deadlock.

### Fairness

* `AiRuns`: weak fairness of `Recover` and of `Tick` and nothing else. The host is documented to call
  `recover_expired_leases` periodically, and time passes. No fairness is assumed of workers, who may
  crash or stall for ever: that an expired lease is resolved must not depend on the worker that lost it.
* `AiProviderSession`: weak fairness of each cleaner's next step and of time. Cleaners may still crash
  at every step, because each claim counts against the attempt budget.
* `AiWaits`: time; the passes that load, judge and close approval waits, that claim and time out
  subscription waits, and that close expired submissions. A claim outlasts its holder's transactions
  many times over, so a poller that keeps claiming a wait does not lose every claim before its next step;
  and the approval pass, which keeps coming round, loads every waiting run sooner or later: strong
  fairness. The second assumes no more waiting runs than `maximum_candidate_scan`, since the window of
  `load_candidates` is in no particular order. Success is not assumed: fairness is of a step or its
  failure. `DeadWaitCloses` and `SubscriptionWaitEnds` therefore have a hypothesis, that passes
  (`PassError`) or polls (`PollFails`) do not fail for ever; TLC refutes both without it. Nothing is
  assumed of workers, humans, sources, reconcilers or providers.
* `AiAttachments`: time and the retention pass over attachments, once nothing blocks it. No fairness of
  the purge before it (`PruneContent`) or of the operator who gives a scope its policy (`SetPolicy`):
  `MaintenanceEnds` promises a deleted session nothing until both are done. Strong fairness of a cleanup
  claim, of a successful deletion of the first and of the second object of a row, and of a finish under a
  live claim, by whichever worker. Workers may die and the store may refuse, only not every time. Nothing
  is assumed of uploads, removals or the owner.

## 4. Findings

1. **An adopting claim that expires blocks recovery** (`orm_runs.rs:1142`, `ai_runs_adoption`). A
   claim of an adoption-ready run keeps the checkpoint of the attempt before it. If it expires
   before it consumed that checkpoint, `recover_expired_leases` finds the checkpoint foreign and
   fails the whole pass, and so does every later pass. The documentation says an expired `Leased`
   claim is safe to requeue.

Disagreements that were seen while modelling and have no run of their own; the properties above are
stated so that they hold beside them:

* Runs: a `RecoveryRequired` run is not terminal, so its owner may cancel it
  (`orm_run_cancellation.rs:358`) and then retry the message, although its provider call may have
  happened; `docs/worker-provider-turn.md:118` says such a run is never replayed.
* Runs: the owner's cancellation writes a `run_cancelled` event with the cancellation and its state
  (`orm_run_cancellation.rs:262`) and no `failure` record; `docs/session-reliability-adoption.md:128` tells
  clients of a `Cancelled` run to "Read the flag rather than the event type". `AdvertisedAdmission`
  asks for the flag of failed and recovering runs only; TLC refutes the form that asks it of cancelled ones
  in three states. Its table has "Never" for `RecoveryRequired`, where
  `classify_run_retry` allows a run that dispatched nothing.
* Runs: the foreground worker sends its call and then marks the reservation uncertain
  (`provider_calls.rs:4790`); `docs/worker-provider-turn.md:108` has the mark before transport, which
  is what the background path does. `Dispatch` and `MarkUncertain` of `AiBudget` have the code's order.
* Budget: reclamation charges the estimate, which actual usage may exceed (`orm_budget.rs:869`);
  `docs/usage-and-budgets.md:87` says it can only over-count.
* Background: one submission past its deadline whose session is archived or deleted makes
  `close_expired` fail for its whole batch (`orm_background.rs:2069`, `:4113`), so others behind it wait
  as long; the crate's `MIGRATION.md:3443` says it closes a bounded batch. `BackgroundEndsUndisturbed`
  states the case without one; TLC refutes the unconditional form. A crash between preparation and the
  uncertain mark leaves a submission "prepared" for good.
* Approvals: `reconcile_waits` resolves the principal, the owner, the protection policy and the wait policy
  of each candidate and fails as a whole on the first error (`orm_approvals.rs:1622`, `:1725`), so one
  wait that cannot be judged keeps every dead wait behind it open, on each pass. Its own comment says so of
  policy and persistence failures; `DeadWaitCloses` is stated for passes that stop failing.
* Subscription waits: an error of `open_claim` that is not a loss of authority (a changed capability,
  catalog or source registration, `orm_subscription_waits.rs:2661`, `:2740`), or an egress denied at the timeout
  (`:1677`), is returned and closes nothing, so the wait outlives its `expires_at` and is claimed again as long as
  the error lasts. `SubscriptionWaitEnds` is stated for polls that stop failing.
* Subscription waits: a wait whose graph is no longer exact (an archived session, for instance) is
  quarantined with its run, and no terminal event is written for it.
* Approvals: a worker that dies after `claim_next_approved` and before the consumption leaves a
  `WaitingTool` lease that no pass recovers; `docs/review-lifecycles.md:122` says that such a lease becomes
  `RecoveryRequired`. A request whose commit answer was lost makes `claim_next_approved` fail until it
  expires.
* Cache: a promotion whose commit answer is lost sends no event, and events stay within a process; a
  watcher learns of such a generation when it next reads the row.
* Attachments: an owner's removal that failed once, or whose cleaner died, is in state `deleting` with
  `cleanup_in_progress` or `cleanup_backoff`, which `claim_cleanup` (`orm_attachments.rs:935`) takes for retention
  work and refuses until the session is deleted; `docs/attachments.md:111` says such rows enter a capped
  retry backoff and leave a reclaimable lease. TLC refutes `deleting ~> ~deleting` for active sessions.
* Attachments: those of a deleted session wait behind the purge of its other content
  (`orm_session_retention.rs:1323`). A tool call left executing by a run that went to recovery, a proposal
  nobody settles, an open run or a scope without a valid policy (`:626`) keeps them, objects included, for as
  long as it lasts; the comment on `OrmAiSessionRetentionService` calls such content "blocked".
* Attachments: an upload that dies after `copy_blob`, or whose copy fails and lands, leaves a final object
  that no row names (`lost` has "object"); an upload that loses the answer of the commit that made its row
  ready deletes the object of a ready row ("answer"). `send_message` may link an attachment that another
  message already has.
* Backup: an incremental never loads its parent (`backup.rs:293`): if the parent was deleted before the
  lock was taken, the snapshot is published and cannot be restored. The architecture document has
  "Load parent snapshot marker" as its first step.
* Backup: a full backup reads the rows and then the list of objects, each in a database snapshot of its own
  (`planner.rs:24`), so its rows may name an object that it does not hold. `Export` and
  `ListObjects` of `BackupRepository` are two steps for that reason.

## 5. Proofs

The theorems hold for all values of the constants that satisfy the named `ASSUME`s: bounds are
naturals, lifetimes positive, `None` is outside the sets it extends, snapshot ids are a finite set of
naturals, and a row, a binding, a blob or a checkpoint is never the value that stands for its absence. TLC
evaluates these assumptions in the runs. Each inductive invariant was first checked with TLC.

* **`FencedLeaseProofs`**: `TypeCorrect`, `FencingHolds`, `NoLostUpdateHolds`, `ReleaseIsFinalHolds`.
  The log properties are not inductive: they speak of the log alone, and the next entry is admitted
  by the row. `LogAgreesWithRow` ties the two: no logged token or base version is beyond the row's,
  and while the row is owned the entries of its token are its owner's and none is a release.
* **`CacheSyncProofs`**: `CacheTypeCorrect`, `CacheFencing` (the lease properties again, under the
  composed next-state relation), `FreshMeansRecentHolds`, `NoMissedGenerationHolds`,
  `NewerNeverReplacedHolds`, `AttemptsSpacedHolds`. `CacheInv` says what a candidate is
  worth: while its token is the row's it was collected after the attempt began, and while its base is
  the row's generation it is no older than what is shown; that attempts and leases end when the
  row's last attempt says; and that each stream is up to date, about to be told, or has something to
  receive that will tell it.
* **`AiRunsProofs`**: `TypeCorrect`, `ClaimableWellFormedHolds`, `BoundedAttemptsHolds`,
  `AnswerNeverLostHolds`, `AnsweredOnceHolds`. The invariant is `TypeOK /\ Rows /\ Leases /\ Answers
  /\ Inputs`. `Rows` says which fields each state has, that the generation counts the retries, and
  where a row that carries an answer may be; `Leases` that a worker is past its answer exactly when
  the lease it remembers has the answer's checkpoint; `Answers` that a run's answer is where its
  checkpoint says; `Inputs` that of the runs of one message all but one have been retried.
  Answered-once needs all of them, because the second answer could come from another worker, another
  attempt or another run. Stale leases need no clause: `Fenced` compares them with the row.
  In the module's second part: `AttemptOutcomesHolds` (adding `Outcomes`) and `ImplementsLedgerHolds`,
  the refinement of `AttemptLedger`: each action is shown to open one attempt, close a set of
  attempts, or leave the mapped variables alone. Also `TurnSentOnceHolds` and `AnswerIsBilledHolds`, which
  need `Turns`: how much of a run has been sent and paid is what its checkpoint and the place of the
  current attempt's one worker in its turn say; and `AdvertisedAdmissionHolds`: every step that closes a
  run writes its terminal event last, with the admission unless the run completed or its owner cancelled it,
  and every other step changes nothing a closed run's admission depends on (`Told`).
* **`AiProviderSessionProofs`**: `TypeCorrect`, `ThreadMirrorsTranscriptHolds`, `PromptInContextHolds`,
  `ContentNeverOrphanedHolds`. None of the three is inductive: a thread becomes resumable in the commit of
  a turn whose prompt and reply went out after the last fence, and what was written between is known only
  from where the worker stands. `Turns` says it: a worker that took a claim holds a thread that is gone, or the
  binding's, with its claim still recorded or the thread under cleanup (`Anchored`); while the claim is
  recorded the binding is one message short of the prompt (`Recorded`); no two workers hold one live thread
  (`Alone`); and the thread holds the messages before the prompt, those and the prompt, or the reply too
  (`Unsent`, `Sent`, `Replied`). A worker that lost everything can therefore only write into a thread that
  is on its way to deletion. `Transcript` makes a run's message unique, so that its sequence number
  stays what it was as messages are added; `Leases` tells workers of one run apart by generation;
  `OwnThread` keeps a created thread empty and its worker's; `Swept` says that a cleaner deletes only what
  nobody trusts. Most actions neither claim nor write and are covered by one frame (`Quiet`, `QuietStep`);
  the others are proved field by field (`TouchStep`, `WriteStep`, `GivenBackStep`).
* **`AiBudgetProofs`**: `TypeCorrect`, `ChargedOnceHolds`, `EstimatedOnlyWhenOverHolds`,
  `CeilingRespectedHolds`, `CountersBalanceHolds`. `EstimatedOnlyWhenOver` needs `LateCallIsOver`: a call
  may go out after an operator has reclaimed its reservation, so a charged reservation whose call is
  still to come must belong to a closed run. `CountersBalance` equates counters with sums over
  sets of rows; the module first shows what one more or one fewer member does to such a sum.
* **`AiAttachmentsProofs`**: `TypeCorrect`, `LinkedStaysReadableHolds`, `ObjectsAccountedHolds`.
  No transaction spans the rows and the store. `AttachmentInv` says of each attachment how far its upload
  is and what that leaves in the store, and of each removal and cleanup that a claim is on a row no
  upload can begin or end on and that, while it stands, covers the objects still to be deleted.
* **`BackupRepositoryProofs`**: `TypeCorrect`, `SingleWriterHolds`, `ProgressHonestHolds`,
  `SnapshotsFaithfulHolds`, `StaysRestorableHolds`, `RestoreExactHolds`. The lock rests on
  `LockInv`: working writers are at most one and have the lock, and a deletion still under way
  means that the lock it will delete is there and nobody works, so it can hit no successor's lock.
  The report of a restore rests on `RestoreOK`, about the restore record alone: before its first
  applied stage, and always in a dry run, the target is what it was. The snapshots rest on `BackupInv`:
  each id has one maker, so what a manifest says of its snapshot stays true although blobs go (`Kept`,
  `Makers`); what a sweep has not chosen is closed under parents and needs none of the objects it may
  delete (`Spares`); and a restore has read manifests that describe each other's databases (`Walked`).

* **`AiWaitsProofs`**: `TypeCorrect`, `EffectApprovedOnceHolds`, `AuthorityFinalHolds`,
  `SentOnceAndHeldHolds`, `ChargedWithItsEndHolds`, `RunWaitsWithItsWaitHolds`,
  `FirstMatchDeliveredHolds`, all of the composition `AiWaits`, in which every wait meets the operations
  of the others, cancellation and time. `WaitsInv` is built in layers, each with a step lemma that uses
  only those below it. `Links` says that a reference leads to a row that is there, and that a run that
  waits or has ended has no owner; with it every operation is typed, and each family of actions gets a
  frame (`HeldStep`, `OwnerStep`, `RowsMove`): where workers go, who becomes an owner, which rows move.
  `Authority`: whoever has consumed an approval is alone and the tool has not run. `Spending`: the owner
  before the mark has the reservation, and whoever is past the mark is alone and has not sent.
  `Observed`: an end a reconciler has seen is the provider's, and stays. `OneWait` and `Adopting`: a run's call
  tells which one wait it asked for, and an adopting worker's run is running. `Positions`, `AllDeliver` and
  `Polling`: what a waiter has read lies in the log without a match, and while a claim holds its poller
  examines the event behind the cursor; that a poller without its claim moves nothing is `ClaimHolds`.

Two of these modules need induction over data. The library states induction for an operator, which the
provers cannot instantiate; here a set of the numbers (or of the subsets) for which a fact holds takes
the place of the predicate, and well-foundedness gives its least counterexample (`CountInduction`,
`FiniteInduction`). By these, `SumFunction` over a finite set is characterised in `AiBudgetProofs`, and what
`ChainWithin` and `Replayed` compute in `BackupRepositoryProofs`: that they are defined at all, that a loaded
chain leads from a root to its snapshot, that it stays while its manifests do, and that it replays to the
last database.

Only model-checked: the liveness properties, which are under fairness (`OwnLeaseRecovered`,
`CleanupConverges`, `DeadWaitCloses`, `SubscriptionWaitEnds`, `BackgroundEndsUndisturbed`,
`MaintenanceEnds`). Every safety invariant and action
property that a passing run checks is also a theorem.

## 6. What is not modelled, and the plan

Of the modelled components: native approvals and classified native tools, automatic mutations, several
tool calls in one turn, delta events and context summaries; the batch windows of cleanup and recovery
passes (the recovery window, `orm_runs.rs:1112`, holds live leases too), and of the approval pass; the purge of
messages, tools and checkpoints of a deleted session, beyond that it precedes its attachments'; a retention
policy that is taken away after the deletion; `restore_objects`; several schemas or applications in one repository
(each is refused, as a failed operation is); blob puts that land after their call ended
(`backup.rs:527`); reuse of a snapshot id (hosts mint UUIDs).

The order of what comes next:

1. Session retention: the purge in batches, its finalisation, and the inbox's monotone cursors.
2. ORM: change events against commits, migrations that stop half way, authorised pagination as a pure
   algorithm against its reference.
3. Storage: local conditional writes and multipart sessions, as the `put if absent` on which
   `BackupRepository` relies.
4. Router: activation and rollback of a supergraph, subscription limits.

Not planned: SQL generation and dialects, derive macros, provider wire formats, request parsing and
network code, and the vendored SMB client. They are most of the repository's lines; their state is none
or the database's, and what can go wrong in them is text, which a model checker does not reach.
