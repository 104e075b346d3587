----------------------------- MODULE AiBackground -----------------------------
(***************************************************************************)
(* A provider turn in the background (orm_background.rs): the submission   *)
(* that is prepared, held uncertain in the budget and sent once; the run   *)
(* that waits for it without a lease; and the reconcilers that retrieve    *)
(* the response and commit it, its bill and the run's end together.        *)
(*                                                                         *)
(* The provider is external: it may take a request whose answer is lost,   *)
(* work for as long as it likes, and report through a webhook and through  *)
(* retrieval, which may disagree.  A reconciler works on one claim at a    *)
(* time, so the claim's owner stands for its generation and row_version.   *)
(* Which due submission is claimed first is left open: it depends on past  *)
(* deadlines, which are not told apart.                                    *)
(***************************************************************************)
EXTENDS AiParking

CONSTANTS
    Reconcilers,    \* worker_id values of the reconciliation service
    ReconcileTtl,   \* lease_ttl of a reconciliation, in ticks
    MaxReconciles   \* maximum_retries of a reconciliation

ASSUME BackgroundAssumption ==
    /\ ReconcileTtl \in 1..(Ttl + RetryDelay)
    /\ MaxReconciles \in Nat
    /\ None \notin Reconcilers

VARIABLES
    submission,  \* submission[r]: its submission record, or None
    job,         \* job[r]: the provider's work for it
    budget,      \* budget[r]: the state of its reservation
    receipt,     \* receipt[r]: its AiProviderWebhookReceiptRecord, or None
    reconciler,  \* reconciler[p]: the claim p works on, or None
    sent,        \* sent[r]: requests sent to the provider
    charged      \* charged[r]: usage entries committed

backgroundVars ==
    <<submission, job, budget, receipt, reconciler, sent, charged>>

\* How a response ends (an incomplete one failed), and how its run then does.
Ends == [completed |-> "Completed", failed |-> "Failed",
         cancelled |-> "Cancelled"]
Terminal == DOMAIN Ends

\* "closed" is recovery_required, or cancelled with the run.
Submission ==
    [state : {"prepared", "waiting_provider", "reconciling", "closed"}
               \cup Terminal,
     owner : Reconcilers \cup {None},
     lease : Ticks \cup {None},
     next : Ticks \cup {None},
     deadline : Ticks \cup {None},
     retries : Nat]

ASSUME SubmissionNoneAssumption == None \notin Submission

Receipt ==
    [state : {"pending", "matched", "processed", "recovery"},
     status : Terminal]

\* AiOpenAiBackgroundReconciliationClaim, and what retrieval made of it.
Reconciler ==
    [run : Runs, phase : {"claimed", "bound", "observed"},
     status : {"none", "running", "retryable", "unrecoverable"}
                \cup Terminal]

BackgroundInit ==
    /\ submission = [r \in Runs |-> None]
    /\ job = [r \in Runs |-> "none"]
    /\ budget = [r \in Runs |-> "none"]
    /\ receipt = [r \in Runs |-> None]
    /\ reconciler = [p \in Reconcilers |-> None]
    /\ sent = [r \in Runs |-> 0]
    /\ charged = [r \in Runs |-> 0]

Sub(r, S) == submission[r] # None /\ submission[r].state \in S

-----------------------------------------------------------------------------
\* submit: the reservation ...
ReserveBackground(w) ==
    /\ "background" \in Kinds
    /\ Fenced(w, {"ready"})
    /\ LET r == held[w].lease.run IN
       /\ session[r] = "active"
       /\ budget[r] = "none"
       /\ budget' = [budget EXCEPT ![r] = "reserved"]
    /\ held' = [held EXCEPT ![w].phase = "reserved"]
    /\ UNCHANGED <<run, call, binding, session, submission, job, receipt,
                   reconciler, sent, charged>>

\* ... is given back when egress or access is refused before prepare
\* (release_unstarted) ...
ReleaseUnstarted(w) ==
    /\ Fenced(w, {"reserved"})
    /\ budget' = [budget EXCEPT ![held[w].lease.run] = "released"]
    /\ held' = [held EXCEPT ![w].phase = "failed"]
    /\ UNCHANGED <<run, call, binding, session, submission, job, receipt,
                   reconciler, sent, charged>>

\* ... prepare writes the submission and renews the lease ...
Prepare(w) ==
    /\ Fenced(w, {"reserved"})
    /\ LET r == held[w].lease.run IN
       /\ run[r].state = "Running"
       /\ session[r] = "active"
       /\ submission[r] = None
       /\ budget[r] = "reserved"
       /\ submission' = [submission EXCEPT ![r] =
             [state |-> "prepared", owner |-> None, lease |-> None,
              next |-> None, deadline |-> None, retries |-> 0]]
       /\ Renew(w, [run[r] EXCEPT !.expiry = Ttl], "prepared")
    /\ UNCHANGED <<call, binding, session, job, budget, receipt, reconciler,
                   sent, charged>>

\* ... and MarkUncertain comes before the request.  If it is not known to
\* have come, an unstarted reservation is released and the submission closed.
MarkUncertainAfterwards(w, acked) ==
    /\ Fenced(w, {"prepared"})
    /\ budget[held[w].lease.run] = "reserved"
    /\ held' = [held EXCEPT ![w].phase = IF acked THEN "marked" ELSE "lost"]
    /\ UNCHANGED <<run, call, binding, session, submission, job, budget,
                   receipt, reconciler, sent, charged>>
MarkUncertain(w, acked) ==
    /\ Fenced(w, {"prepared"})
    /\ LET r == held[w].lease.run IN
       /\ budget[r] = "reserved"
       /\ budget' = [budget EXCEPT ![r] = "uncertain"]
    /\ held' = [held EXCEPT ![w].phase = IF acked THEN "marked" ELSE "lost"]
    /\ UNCHANGED <<run, call, binding, session, submission, job, receipt,
                   reconciler, sent, charged>>
MarkFailed(w) ==
    /\ Fenced(w, {"prepared"})
    /\ budget' = [budget EXCEPT ![held[w].lease.run] = "released"]
    /\ held' = [held EXCEPT ![w].phase = "lost"]
    /\ UNCHANGED <<run, call, binding, session, submission, job, receipt,
                   reconciler, sent, charged>>

\* submit_with_heartbeats: the request waits for no fence.  It lands or not,
\* and its acknowledgement comes or not.
SubmitProvider(w, lands, acked) ==
    /\ held[w] # None
    /\ held[w].phase = "marked"
    /\ acked => lands
    /\ LET r == held[w].lease.run IN
       /\ job' = IF lands THEN [job EXCEPT ![r] = "running"] ELSE job
       /\ sent' = [sent EXCEPT ![r] = @ + 1]
    /\ held' = [held EXCEPT ![w].phase = IF acked THEN "accepted" ELSE "lost"]
    /\ UNCHANGED <<run, call, binding, session, submission, budget, receipt,
                   reconciler, charged>>

\* accept
Accept(w) ==
    /\ Fenced(w, {"accepted"})
    /\ LET r == held[w].lease.run IN
       /\ run[r].state = "Running"
       /\ Sub(r, {"prepared"})
       /\ budget[r] = "uncertain"
       /\ submission' = [submission EXCEPT ![r] =
             [@ EXCEPT !.state = "waiting_provider", !.next = 0,
                       !.deadline = WaitTtl]]
       /\ Leave(w, [run[r] EXCEPT !.state = "WaitingProvider",
                                  !.owner = None, !.expiry = None,
                                  !.eligible = None, !.err = "none"])
    /\ UNCHANGED <<call, binding, session, job, budget, receipt, reconciler,
                   sent, charged>>

\* accept fails: the acknowledgement is not valid, or not persisted.
AcceptFailed(w) ==
    /\ held[w] # None
    /\ held[w].phase = "accepted"
    /\ held' = [held EXCEPT ![w].phase = "lost"]
    /\ UNCHANGED <<run, call, binding, session, backgroundVars>>

\* close_ambiguity
CloseAmbiguity(w) ==
    /\ Fenced(w, {"lost"})
    /\ LET r == held[w].lease.run IN
       /\ run[r].state = "Running"
       /\ Sub(r, {"prepared"})
       /\ submission' = [submission EXCEPT ![r].state = "closed"]
       /\ Leave(w, Closed(run[r], "RecoveryRequired", "other"))
    /\ UNCHANGED <<call, binding, session, job, budget, receipt, reconciler,
                   sent, charged>>

-----------------------------------------------------------------------------
\* The provider finishes its work, and reports it.
ProviderFinishes(r, status) ==
    /\ job[r] = "running"
    /\ job' = [job EXCEPT ![r] = status]
    /\ UNCHANGED <<parkingVars, submission, budget, receipt, reconciler,
                   sent, charged>>

Webhook(r, status) ==
    /\ job[r] \in Terminal
    /\ receipt[r] = None
    /\ receipt' = [receipt EXCEPT ![r] = [state |-> "pending",
                                          status |-> status]]
    /\ UNCHANGED <<parkingVars, submission, job, budget, reconciler, sent,
                   charged>>

\* reclaim_budget_reservation, of a closed run
ReclaimBudget(r) ==
    /\ run[r].state \in Closing
    /\ budget[r] \in {"reserved", "uncertain"}
    /\ budget' = [budget EXCEPT ![r] = "estimated"]
    /\ UNCHANGED <<parkingVars, submission, job, receipt, reconciler, sent,
                   charged>>

-----------------------------------------------------------------------------
\* load_background_claim_graph
ClaimGraph(r) ==
    /\ run[r].state = "WaitingProvider"
    /\ run[r].attempt = run[r].gen
    /\ run[r].ckpt = None
    /\ session[r] = "active"
    /\ budget[r] = "uncertain"

Least(a, b) == IF a <= b THEN a ELSE b

\* match_background_receipt
Matched(r) ==
    IF receipt[r] # None /\ receipt[r].state = "pending"
    THEN [receipt EXCEPT ![r].state = "matched"] ELSE receipt

\* claim_once: a due submission, never claimed or left by its claimant.
ClaimReconciliation(p, r) ==
    /\ reconciler[p] = None
    /\ Sub(r, {"waiting_provider", "reconciling"})
    /\ submission[r].next <= 0
    /\ submission[r].deadline > 0
    /\ ClaimGraph(r)
    /\ LET t == Least(ReconcileTtl, submission[r].deadline) IN
       submission' = [submission EXCEPT ![r] =
          [@ EXCEPT !.state = "reconciling", !.owner = p, !.lease = t,
                    !.next = t]]
    /\ receipt' = Matched(r)
    /\ reconciler' = [reconciler EXCEPT ![p] =
          [run |-> r, phase |-> "claimed", status |-> "none"]]
    /\ UNCHANGED <<parkingVars, job, budget, sent, charged>>

\* validate_current_reconciliation_claim, of a reconciler at phase ph
Reconciles(p, ph) ==
    /\ reconciler[p] # None
    /\ reconciler[p].phase = ph
    /\ Sub(reconciler[p].run, {"reconciling"})
    /\ submission[reconciler[p].run].owner = p
    /\ submission[reconciler[p].run].lease > 0

\* heartbeat_once
HeartbeatReconciliation(p) ==
    /\ Reconciles(p, "claimed")
    /\ LET r == reconciler[p].run
           t == Least(ReconcileTtl, submission[r].deadline)
       IN  submission' = [submission EXCEPT ![r] =
              [@ EXCEPT !.lease = t, !.next = t]]
    /\ UNCHANGED <<parkingVars, job, budget, receipt, reconciler, sent,
                   charged>>

\* retrieve_classified: egress is bound to the claim ...
BindRetrieval(p) ==
    /\ Reconciles(p, "claimed")
    /\ ClaimGraph(reconciler[p].run)
    /\ reconciler' = [reconciler EXCEPT ![p].phase = "bound"]
    /\ UNCHANGED <<parkingVars, submission, job, budget, receipt, sent,
                   charged>>

\* ... and the provider answers, or fails to, outside of any transaction.
Observe(p, status) ==
    /\ reconciler[p] # None
    /\ reconciler[p].phase = "bound"
    /\ status \in {job[reconciler[p].run], "retryable", "unrecoverable"}
    /\ reconciler' = [reconciler EXCEPT ![p].phase = "observed",
                                        ![p].status = status]
    /\ UNCHANGED <<parkingVars, submission, job, budget, receipt, sent,
                   charged>>

\* close_background_recovery
ClosedSubmission(s) ==
    [s EXCEPT !.state = "closed", !.owner = None, !.lease = None,
              !.next = None]
RecoveredReceipt(c) ==
    IF c # None /\ c.state = "matched" THEN [c EXCEPT !.state = "recovery"]
                                       ELSE c
CloseRecovery(S, receipts) ==
    /\ \A r \in S : ClaimGraph(r)
    /\ run' = [r \in Runs |->
          IF r \in S THEN Closed(run[r], "RecoveryRequired", "other")
                     ELSE run[r]]
    /\ submission' = [r \in Runs |->
          IF r \in S THEN ClosedSubmission(submission[r]) ELSE submission[r]]
    /\ receipt' = [r \in Runs |->
          IF r \in S THEN RecoveredReceipt(receipts[r]) ELSE receipts[r]]
    /\ UNCHANGED <<held, call, binding, session, job, budget, sent, charged>>

\* release_before_retrieval_once, release_nonterminal_once, and
\* handle_retrieval_failure_once of a failure worth another try.
ReleaseReconciliation(p) ==
    /\ \/ Reconciles(p, "claimed")
       \/ /\ Reconciles(p, "observed")
          /\ reconciler[p].status \in {"running", "retryable"}
    /\ LET r == reconciler[p].run
           s == submission[r]
           exhausted == s.retries + 1 > MaxReconciles
                          \/ RetryDelay >= s.deadline
       IN  \/ exhausted /\ CloseRecovery({r}, receipt)
           \/ /\ ~exhausted
              /\ submission' = [submission EXCEPT ![r] =
                    [s EXCEPT !.state = "waiting_provider", !.owner = None,
                              !.lease = None, !.next = RetryDelay,
                              !.retries = @ + 1]]
              /\ UNCHANGED <<parkingVars, job, budget, receipt, sent,
                             charged>>
    /\ reconciler' = [reconciler EXCEPT ![p] = None]

\* handle_retrieval_failure_once of any other failure
CloseUnrecoverable(p) ==
    /\ Reconciles(p, "observed")
    /\ reconciler[p].status = "unrecoverable"
    /\ CloseRecovery({reconciler[p].run}, receipt)
    /\ reconciler' = [reconciler EXCEPT ![p] = None]

\* A webhook reported another end than retrieval observed.
DisagreesIfMatched(r, status) ==
    /\ receipt[r] # None
    /\ receipt[r].state = "matched"
    /\ receipt[r].status # status
Disagrees(r, status) == receipt[r] # None /\ receipt[r].status # status

\* commit_once: a webhook that disagrees closes the run instead.
CommitTerminal(p) ==
    /\ Reconciles(p, "observed")
    /\ reconciler[p].status \in Terminal
    /\ LET r == reconciler[p].run
           status == reconciler[p].status
       IN  /\ ClaimGraph(r)
           /\ \/ Disagrees(r, status) /\ CloseRecovery({r}, Matched(r))
              \/ /\ ~Disagrees(r, status)
                 /\ budget' = [budget EXCEPT ![r] = "committed"]
                 /\ charged' = [charged EXCEPT ![r] = @ + 1]
                 /\ submission' = [submission EXCEPT ![r] =
                       [ClosedSubmission(@) EXCEPT !.state = status]]
                 /\ receipt' = [receipt EXCEPT ![r] =
                       IF @ = None THEN None
                       ELSE [@ EXCEPT !.state = "processed"]]
                 /\ run' = [run EXCEPT ![r] =
                       IF status = "completed"
                       THEN [Closed(@, "Completed", "none") EXCEPT
                               !.ckpt = [kind |-> "output",
                                         gen |-> run[r].gen, turns |-> 1]]
                       ELSE Closed(@, Ends[status], "other")]
                 /\ UNCHANGED <<held, call, binding, session, job, sent>>
    /\ reconciler' = [reconciler EXCEPT ![p] = None]

\* close_expired_once: the whole batch, or nothing.
ExpiredWaiting ==
    {r \in Runs : Sub(r, {"waiting_provider"}) /\ submission[r].deadline <= 0}
Expired ==
    {r \in Runs : /\ Sub(r, {"waiting_provider", "reconciling"})
                  /\ submission[r].deadline <= 0}
CloseExpired ==
    /\ Expired # {}
    /\ CloseRecovery(Expired, receipt)
    /\ UNCHANGED reconciler

\* The reconciler dies, or its pass ends in an error.
ReconcilerCrash(p) ==
    /\ reconciler[p] # None
    /\ reconciler' = [reconciler EXCEPT ![p] = None]
    /\ UNCHANGED <<parkingVars, submission, job, budget, receipt, sent,
                   charged>>

-----------------------------------------------------------------------------
\* cancel_background_submission
SubmissionsAfterCancel(r) ==
    [submission EXCEPT ![r] =
       IF Sub(r, {"prepared", "waiting_provider", "reconciling"})
       THEN [@ EXCEPT !.state = "closed", !.owner = None, !.lease = None]
       ELSE @]

BackgroundLater ==
    /\ submission' = [r \in Runs |-> IF submission[r] = None THEN None
                         ELSE [submission[r] EXCEPT !.lease = Sooner(@),
                                                    !.next = Sooner(@),
                                                    !.deadline = Sooner(@)]]
    /\ UNCHANGED <<job, budget, receipt, reconciler, sent, charged>>

BackgroundWorker(w) ==
    \/ ReserveBackground(w)
    \/ ReleaseUnstarted(w)
    \/ Prepare(w)
    \/ \E acked \in BOOLEAN : MarkUncertain(w, acked)
    \/ MarkFailed(w)
    \/ \E lands, acked \in BOOLEAN : SubmitProvider(w, lands, acked)
    \/ Accept(w)
    \/ AcceptFailed(w)
    \/ CloseAmbiguity(w)

Reconciliation(p) ==
    \/ \E r \in Runs : ClaimReconciliation(p, r)
    \/ HeartbeatReconciliation(p)
    \/ BindRetrieval(p)
    \/ \E status \in Terminal \cup {"running", "retryable", "unrecoverable"} :
         Observe(p, status)
    \/ ReleaseReconciliation(p)
    \/ CloseUnrecoverable(p)
    \/ CommitTerminal(p)
    \/ ReconcilerCrash(p)

ProviderSide ==
    \E r \in Runs :
        \/ \E status \in Terminal : ProviderFinishes(r, status)
        \/ \E status \in Terminal : Webhook(r, status)

BackgroundTypeOK ==
    /\ submission \in [Runs -> Submission \cup {None}]
    /\ job \in [Runs -> {"none", "running"} \cup Terminal]
    /\ budget \in [Runs -> {"none", "reserved", "uncertain", "committed",
                            "estimated", "released"}]
    /\ receipt \in [Runs -> Receipt \cup {None}]
    /\ reconciler \in [Reconcilers -> Reconciler \cup {None}]
    /\ sent \in [Runs -> Nat]
    /\ charged \in [Runs -> Nat]

(* Background work is asked for at most once per run, and what may have    *)
(* been asked for is never free: from before the request is sent its       *)
(* reservation is uncertain, and stays so until it is charged.  A lost     *)
(* acknowledgement, a crash at any step, an expired lease or a             *)
(* cancellation neither repeats the request nor releases its budget        *)
(* (submit: MarkUncertain before submit_with_heartbeats).                  *)
SentOnceAndHeld ==
    \A r \in Runs :
        /\ sent[r] <= 1
        /\ sent[r] > 0 => budget[r] \in {"uncertain", "committed", "estimated"}

(* A response is charged at most once, exactly when its run ends with it,  *)
(* and it is the one the provider reached: late reconcilers, webhooks that *)
(* disagree, deadlines and cancellations never half-commit one             *)
(* (commit_once, close_background_recovery).                               *)
ChargedWithItsEnd ==
    \A r \in Runs :
        /\ charged[r] <= 1
        /\ charged[r] = 1 <=> Sub(r, Terminal)
        /\ Sub(r, Terminal) =>
             /\ submission[r].state = job[r]
             /\ budget[r] = "committed"
             /\ run[r].state = Ends[job[r]]
             /\ receipt[r] # None /\ receipt[r].state # "pending" =>
                  receipt[r] = [state |-> "processed", status |-> job[r]]

(* A run waits for its provider exactly as long as its submission does: no *)
(* accepted response is forgotten, none is polled for a run that ended.    *)
RunWaitsWithItsSubmission ==
    \A r \in Runs : run[r].state = "WaitingProvider"
                      <=> Sub(r, {"waiting_provider", "reconciling"})

(* No run waits for its provider for ever, whatever the provider, the      *)
(* webhook and the reconcilers do, as long as no session of a waiting run  *)
(* is archived or deleted: close_expired_once fails as a whole on one      *)
(* submission of such a session, and then closes no other either.          *)
BackgroundEndsUndisturbed ==
    \A r \in Runs : run[r].state = "WaitingProvider"
        ~> \/ run[r].state # "WaitingProvider"
           \/ \E q \in Runs : session[q] # "active"
=============================================================================
