------------------------------- MODULE AiWaits -------------------------------
(***************************************************************************)
(* The three waits of a run together: approvals, subscription waits and    *)
(* background responses, with the operations that cut across them, namely  *)
(* cancellation, the confirmation and the cleanup of parked provider       *)
(* sessions, and time.                                                     *)
(***************************************************************************)
EXTENDS AiApprovals, AiSubscriptionWaits, AiBackground

vars == <<parkingVars, approvalVars, subscriptionVars, backgroundVars>>

Init ==
    /\ ParkingInit
    /\ ApprovalInit
    /\ SubscriptionInit
    /\ BackgroundInit

\* validate_wait_confirmation, and the expiry it returns.
Confirms(r) ==
    /\ call[r].gen = binding[r].gen
    /\ ApprovalConfirms(r) \/ SubscriptionConfirms(r)
WaitExpiry(r) ==
    IF waiter[r] # None THEN waiter[r].expiry ELSE approval[r].expiry
Confirmed(r) ==
    [binding EXCEPT ![r] = [@ EXCEPT !.confirmed = TRUE,
                                     !.expiry = WaitExpiry(r)]]

\* confirm_parked_wait, by the worker that handed its run over.
ConfirmParkedWait(w) ==
    /\ held[w] # None
    /\ held[w].phase = "requested"
    /\ LET r == held[w].lease.run IN
       binding' = IF /\ binding[r].state = "parked"
                     /\ ~binding[r].confirmed
                     /\ Confirms(r)
                  THEN Confirmed(r) ELSE binding
    /\ held' = [held EXCEPT ![w] = None]
    /\ UNCHANGED <<run, call, session>>

\* claim_cleanup and reconcile_parked_confirmation: an unconfirmed park with
\* its wait is confirmed; a session nobody will come back for is cleaned up.
MaintainBinding(r) ==
    LET b == binding[r]
        confirmable == b.state = "parked" /\ ~b.confirmed /\ Confirms(r)
        over == \/ b.state \in {"claimed", "parked"} /\ b.expiry <= 0
                \/ b.state = "parked" /\ run[r].state \in Closing
    IN  /\ \/ confirmable /\ binding' = Confirmed(r)
           \/ ~confirmable /\ over
                /\ binding' = [binding EXCEPT ![r] = CleanedUp]
        /\ UNCHANGED <<run, held, call, session>>

\* A run that waits for recovery may be cancelled too, unless its attempt has
\* an outcome (append_cancelled_attempt_outcome would write a second one).
Cancellable(r) ==
    /\ ~IsTerminal(run[r].state)
    /\ run[r].state = "RecoveryRequired" => run[r].attempt = None

\* request_cancellation
RequestCancellationOfTheRun(r) ==
    /\ session[r] # "deleting"
    /\ Cancellable(r)
    /\ run' = [run EXCEPT ![r] = Closed(@, "Cancelled", "other")]
    /\ UNCHANGED <<held, binding, session, call, approval, waiter, adoption,
                   submission, effects, pass, log, poller, job, budget,
                   receipt, reconciler, sent, charged>>
RequestCancellation(r) ==
    /\ session[r] # "deleting"
    /\ Cancellable(r)
    /\ run' = [run EXCEPT ![r] = Closed(@, "Cancelled", "other")]
    /\ call' = [call EXCEPT ![r].state =
          IF @ \in {"none", "completed", "closed"} THEN @ ELSE "closed"]
    /\ approval' = ApprovalsAfterCancel(r)
    /\ waiter' = WaitersAfterCancel(r)
    /\ adoption' = AdoptionsAfterCancel(r)
    /\ submission' = SubmissionsAfterCancel(r)
    /\ UNCHANGED <<held, binding, session, effects, pass, log, poller, job,
                   budget, receipt, reconciler, sent, charged>>

\* Time passes for every deadline.
Later == ParkingLater /\ ApprovalLater /\ SubscriptionLater /\ BackgroundLater
Tick ==
    /\ Later
    /\ <<run, binding, approval, waiter, submission>>'
         # <<run, binding, approval, waiter, submission>>

-----------------------------------------------------------------------------
Runner ==
    /\ \/ \E w \in Workers : ParkingWorker(w) \/ ConfirmParkedWait(w)
       \/ RecoverExpiredLeases
       \/ \E r \in Runs : MaintainBinding(r)
       \/ \E r \in Runs, s \in {"active", "archived", "deleting"} :
            MoveSession(r, s)
    /\ UNCHANGED <<approvalVars, subscriptionVars, backgroundVars>>

Approving ==
    /\ \/ \E w \in Workers : ApprovalWorker(w)
       \/ \E r \in Runs, s \in ApprovalStates : Decide(r, s)
       \/ ExpireApproved
       \/ Reconcile
    /\ UNCHANGED <<subscriptionVars, backgroundVars>>

Subscribing ==
    /\ \/ \E w \in Workers : SubscriptionWorker(w)
       \/ \E p \in Pollers : Poll(p)
       \/ \E matches \in BOOLEAN : Publish(matches)
    /\ UNCHANGED <<approvalVars, backgroundVars>>

Backgrounding ==
    /\ \/ \E w \in Workers : BackgroundWorker(w)
       \/ \E p \in Reconcilers : Reconciliation(p)
       \/ CloseExpired
       \/ ProviderSide
       \/ \E r \in Runs : ReclaimBudget(r)
    /\ UNCHANGED <<approvalVars, subscriptionVars>>

Next ==
    \/ Runner
    \/ Approving
    \/ Subscribing
    \/ Backgrounding
    \/ \E r \in Runs : RequestCancellation(r)
    \/ Tick

Spec == Init /\ [][Next]_vars

(* Passes run again and again, and time passes.  A claim outlasts the      *)
(* transactions of its holder many times over, so a poller that keeps      *)
(* claiming a wait does not lose every claim before its next step, and a   *)
(* pass that keeps coming round meets every waiting run: strong fairness.  *)
(* Every step of a pass or a poll may fail instead, any number of times.   *)
(* Nothing is assumed of workers, humans, sources or providers.            *)
FairSpec ==
    /\ Spec
    /\ WF_vars(Tick)
    /\ \A r \in Runs : SF_vars(LoadWait(r) /\ UNCHANGED <<subscriptionVars,
                                                          backgroundVars>>)
    /\ WF_vars(PassGoesOn /\ UNCHANGED <<subscriptionVars, backgroundVars>>)
    /\ \A p \in Pollers :
         /\ WF_vars(/\ \E next \in Runs \cup {None} : ClaimWaiter(p, next)
                    /\ UNCHANGED <<approvalVars, backgroundVars>>)
         /\ WF_vars(/\ ~ClaimHolds(p) /\ PollerCrash(p)
                    /\ UNCHANGED <<approvalVars, backgroundVars>>)
         /\ SF_vars(/\ \/ OpenClaim(p)
                       \/ PollFails(p) /\ ~poller[p].opened
                    /\ UNCHANGED <<approvalVars, backgroundVars>>)
         /\ SF_vars(/\ \/ PersistAdoption(p, "timeout")
                       \/ PollFails(p) /\ Outcome(p, "timeout")
                    /\ UNCHANGED <<approvalVars, backgroundVars>>)
    /\ WF_vars(CloseExpired /\ UNCHANGED <<approvalVars, subscriptionVars>>)

TypeOK ==
    /\ ParkingTypeOK
    /\ ApprovalTypeOK
    /\ SubscriptionTypeOK
    /\ BackgroundTypeOK

(* A run waits exactly as long as something will wake it: its waiter or    *)
(* its submission, and no combination of a poll, a webhook, a quarantine,  *)
(* a cancellation and a recovery ends one and leaves the other.            *)
RunWaitsWithItsWait == RunWaitsWithItsWaiter /\ RunWaitsWithItsSubmission
=============================================================================
