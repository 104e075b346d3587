----------------------------- MODULE AiApprovals -----------------------------
(***************************************************************************)
(* The human approval of one consequential tool call: the request that     *)
(* parks the run, the decision and its withdrawal, the claim that resumes  *)
(* an approved run, the one consumption before the tool executes, and the  *)
(* pass that closes waits that lost their authority.                       *)
(*                                                                         *)
(* A retained wait leaves its run without a lease and resumes it in a new  *)
(* attempt; a stateless wait keeps the attempt and rotates its owner.  An  *)
(* approval's states are never revisited, so its state stands for its      *)
(* row_version.  The application's tool is a system of its own: it runs    *)
(* when it is called, whatever became of the caller's fence.               *)
(***************************************************************************)
EXTENDS AiParking

VARIABLES
    approval,  \* approval[r]: the AiApprovalRecord of its call, or None
    effects,   \* effects[r]: how often the application's tool ran for it
    pass       \* the wait the reconciliation pass is at, or None

approvalVars == <<approval, effects, pass>>

ApprovalStates ==
    {"pending", "approved", "denied", "revoked", "expired", "resume_claimed",
     "consumed"}

\* No one may act on such an approval any more.
Withdrawn == {"denied", "revoked", "expired"}

Approval == [state : ApprovalStates, expiry : Ticks]

ASSUME ApprovalNoneAssumption == None \notin Approval

\* What reconcile_waits remembers of a wait between its three transactions;
\* "error" once it met one that ends the pass.
Pass == [run : Runs, row : RunRow, call : Call \cup {None},
         seen : ApprovalStates \cup {None},
         verdict : {"none", "Cancelled", "RecoveryRequired", "error"}]

ApprovalInit ==
    /\ approval = [r \in Runs |-> None]
    /\ effects = [r \in Runs |-> 0]
    /\ pass = None

\* The approval of r is in one of the states S.
Is(r, S) == approval[r] # None /\ approval[r].state \in S
Unexpired(r) == approval[r].expiry > 0

-----------------------------------------------------------------------------
\* request_approval_inner
RequestApproval(w, acked) ==
    /\ "approval" \in Kinds
    /\ Handing(w)
    /\ LET r == held[w].lease.run
           row == run[r]
       IN  /\ row.state = "Running"
           /\ session[r] = "active"
           /\ call[r] = [state |-> "executing", gen |-> held[w].lease.gen]
           /\ approval[r] = None
           /\ call' = [call EXCEPT ![r].state = "waiting_approval"]
           /\ approval' = [approval EXCEPT ![r] =
                 [state |-> "pending", expiry |-> WaitTtl]]
           /\ LET next == IF held[w].phase = "parking"
                          THEN Parked(row, "WaitingApproval",
                                      CheckpointOf(w, "parked"))
                          ELSE [row EXCEPT !.state = "WaitingApproval",
                                           !.expiry = Ttl, !.err = "none"]
              IN  IF acked /\ held[w].phase # "parking"
                  THEN Renew(w, next, "waiting")
                  ELSE /\ run' = [run EXCEPT ![r] = next]
                       /\ held' = [held EXCEPT ![w].phase =
                             IF acked THEN "requested" ELSE "unsure"]
    /\ UNCHANGED <<binding, session, effects, pass>>

\* decide and revoke (transition_decision).
Decide(r, decision) ==
    /\ \/ Is(r, {"pending"}) /\ decision \in {"approved", "denied"}
       \/ Is(r, {"approved", "resume_claimed"}) /\ decision = "revoked"
    /\ Unexpired(r)
    /\ session[r] # "deleting"
    /\ approval' = [approval EXCEPT ![r].state = decision]
    /\ UNCHANGED <<parkingVars, effects, pass>>

-----------------------------------------------------------------------------
\* The rows that claim_approved_once requires of an approved wait; anything
\* else fails its pass.
ParkedWait(r) == run[r].attempt = None /\ run[r].ckpt # None
Linked(r) ==
    /\ run[r].state = "WaitingApproval"
    /\ call[r] = [state |-> "waiting_approval", gen |-> run[r].gen]
    /\ \/ run[r].attempt # None /\ run[r].owner # None /\ run[r].expiry # None
       \/ /\ ParkedWait(r)
          /\ run[r].ckpt = [kind |-> "parked", gen |-> run[r].gen,
                            turns |-> 1]
          /\ binding[r].state = "parked"
          /\ binding[r].confirmed => binding[r].expiry > 0

\* A parked wait that is not confirmed is passed over.
Resumable(r) == ParkedWait(r) => binding[r].confirmed

\* The pass gets beyond r: its expired approval is closed, or it is skipped.
PassesOver(r) == ~Unexpired(r) \/ (Linked(r) /\ ~Resumable(r))

\* The approvals after the pass went over the runs in S.
ExpiredIn(S) ==
    [r \in Runs |-> IF r \in S /\ ~Unexpired(r)
                    THEN [approval[r] EXCEPT !.state = "expired"]
                    ELSE approval[r]]

\* The row of a run claimed for the tool it was approved for.
Resumed(row, w) ==
    [row EXCEPT !.state = "WaitingTool", !.owner = w, !.expiry = Ttl,
                !.err = "other",
                !.gen = IF row.attempt = None THEN @ + 1 ELSE @,
                !.attempt = IF row.attempt = None THEN row.gen + 1 ELSE @]

\* claim_approved_once: earlier are the approved rows it meets before r's.
ClaimApproved(w, r, earlier) ==
    /\ held[w] = None
    /\ Is(r, {"approved"})
    /\ \A q \in earlier : Is(q, {"approved"}) /\ PassesOver(q)
    /\ Unexpired(r)
    /\ Linked(r)
    /\ Resumable(r)
    /\ LET row == Resumed(run[r], w) IN
       /\ run' = [run EXCEPT ![r] = row]
       /\ call' = [call EXCEPT ![r].gen = row.gen]
       /\ held' = [held EXCEPT ![w] = Holding(r, row, "resumed")]
    /\ approval' = [ExpiredIn(earlier) EXCEPT ![r].state = "resume_claimed"]
    /\ UNCHANGED <<binding, session, effects, pass>>

\* claim_approved_once finds no run to resume.
ExpireApproved ==
    LET approved == {r \in Runs : Is(r, {"approved"})} IN
    /\ \A r \in approved : PassesOver(r)
    /\ \E r \in approved : ~Unexpired(r)
    /\ approval' = ExpiredIn(approved)
    /\ UNCHANGED <<parkingVars, effects, pass>>

-----------------------------------------------------------------------------
\* execute_approved and the approval service's consume: the call, the
\* approval and the current access are read and authorised outside of the
\* transaction that consumes.
ReadApproval(w) ==
    /\ held[w] # None
    /\ held[w].phase \in {"waiting", "resumed"}
    /\ LET r == held[w].lease.run IN
       /\ Is(r, {"approved", "resume_claimed"})
       /\ Unexpired(r)
       /\ session[r] = "active"
       /\ call[r] = [state |-> "waiting_approval", gen |-> held[w].lease.gen]
       /\ held' = [held EXCEPT ![w].phase = "authorised",
                               ![w].seen = approval[r].state]
    /\ UNCHANGED <<run, call, binding, session, approvalVars>>

\* consume_approval
ConsumeApprovalAgain(w) ==
    /\ held[w] # None
    /\ held[w].phase = "authorised"
    /\ LET r == held[w].lease.run IN
       /\ run[r].state \in {"WaitingApproval", "WaitingTool", "Running"}
       /\ Is(r, {"approved", "resume_claimed", "consumed"})
       /\ Unexpired(r)
       /\ approval' = [approval EXCEPT ![r].state = "consumed"]
       /\ call' = [call EXCEPT ![r].state = "executing"]
       /\ Renew(w, [run[r] EXCEPT !.state = "Running", !.expiry = Ttl],
                "consumed")
    /\ UNCHANGED <<binding, session, effects, pass>>
ConsumeApprovalAsRead(w) ==
    /\ Fenced(w, {"authorised"})
    /\ LET r == held[w].lease.run
           row == [run[r] EXCEPT !.state = "Running", !.expiry = Ttl,
                                 !.err = "none"]
       IN  /\ run[r].state \in {"WaitingApproval", "WaitingTool"}
           /\ session[r] = "active"
           /\ call[r] = [state |-> "waiting_approval",
                         gen |-> held[w].lease.gen]
           /\ approval' = [approval EXCEPT ![r].state = "consumed"]
           /\ call' = [call EXCEPT ![r].state = "executing"]
           /\ Renew(w, row, "consumed")
    /\ UNCHANGED <<binding, session, effects, pass>>
ConsumeApproval(w) ==
    /\ Fenced(w, {"authorised"})
    /\ LET r == held[w].lease.run
           row == [run[r] EXCEPT !.state = "Running", !.expiry = Ttl,
                                 !.err = "none"]
       IN  /\ run[r].state \in {"WaitingApproval", "WaitingTool"}
           /\ session[r] = "active"
           /\ call[r] = [state |-> "waiting_approval",
                         gen |-> held[w].lease.gen]
           /\ Is(r, {held[w].seen})
           /\ Unexpired(r)
           /\ approval' = [approval EXCEPT ![r].state = "consumed"]
           /\ call' = [call EXCEPT ![r].state = "executing"]
           /\ Renew(w, row, "consumed")
    /\ UNCHANGED <<binding, session, effects, pass>>

\* The application's tool runs and answers; or it ran or did not, and the
\* worker cannot tell (mark_consequential_recovery); or it refused to run.
ExecuteTool(w, ran, p) ==
    /\ held[w] # None
    /\ held[w].phase = "consumed"
    /\ p \in {"executed", "failed"}
    /\ effects' = [effects EXCEPT ![held[w].lease.run] =
                     IF ran THEN @ + 1 ELSE @]
    /\ held' = [held EXCEPT ![w].phase = p]
    /\ UNCHANGED <<run, call, binding, session, approval, pass>>

\* finish_tool_call_inner
FinishToolCall(w) ==
    /\ Fenced(w, {"executed"})
    /\ LET r == held[w].lease.run IN
       /\ run[r].state = "Running"
       /\ call[r] = [state |-> "executing", gen |-> held[w].lease.gen]
       /\ call' = [call EXCEPT ![r].state = "completed"]
       /\ Renew(w, [run[r] EXCEPT !.expiry = Ttl], "done")
    /\ UNCHANGED <<binding, session, approvalVars>>

\* persist_supervised_tool_batch
PersistToolBatch(w) ==
    /\ Fenced(w, {"done"})
    /\ LET r == held[w].lease.run IN
       /\ session[r] = "active"
       /\ Is(r, {"consumed"})
       /\ call[r].state = "completed"
       /\ Renew(w, [run[r] EXCEPT !.expiry = Ttl,
                                  !.ckpt = CheckpointOf(w, "batch")],
                "batched")
    /\ UNCHANGED <<call, binding, session, approvalVars>>

\* adopt and consume_supervised_before_provider, by the attempt that wrote
\* the batch or a later one.
ConsumeBatch(w) ==
    /\ Fenced(w, {"batched", "adopting"})
    /\ LET r == held[w].lease.run IN
       /\ run[r].state = "Running"
       /\ run[r].ckpt # None
       /\ run[r].ckpt.kind = "batch"
       /\ Renew(w, [run[r] EXCEPT !.expiry = Ttl, !.ckpt = None], "adopted")
    /\ UNCHANGED <<call, binding, session, approvalVars>>

-----------------------------------------------------------------------------
\* load_candidates: the run's row is read first ...
LoadLeasedWait(r) ==
    /\ pass = None
    /\ run[r].state = "WaitingApproval"
    /\ run[r].attempt # None
    /\ pass' = [run |-> r, row |-> run[r], call |-> None, seen |-> None,
                verdict |-> "none"]
    /\ UNCHANGED <<parkingVars, approval, effects>>
LoadWait(r) ==
    /\ pass = None
    /\ run[r].state = "WaitingApproval"
    /\ pass' = [run |-> r, row |-> run[r], call |-> None, seen |-> None,
                verdict |-> "none"]
    /\ UNCHANGED <<parkingVars, approval, effects>>

\* ... load_snapshot reads the rest later, and the wait is judged.  policy:
\* the deployment's cutoff or its wait policy ends a wait that may go on.
JudgeWait(policy) ==
    LET r == pass.run
        linked == /\ call[r] = [state |-> "waiting_approval",
                                gen |-> pass.row.gen]
                  /\ Is(r, {"pending", "approved"} \cup Withdrawn)
        over == \/ Is(r, Withdrawn)
                \/ session[r] # "active"
                \/ ~Unexpired(r)
                \/ policy
    IN  /\ pass # None
        /\ pass.verdict = "none"
        /\ pass' = IF linked /\ ~over THEN None
                   ELSE [pass EXCEPT
                          !.call = call[r],
                          !.seen = approval[r].state,
                          !.verdict = IF linked THEN "Cancelled"
                                      ELSE "RecoveryRequired"]
        /\ UNCHANGED <<parkingVars, approval, effects>>

\* reconcile_approval_wait_once; a row that moved on is left alone.
CloseWait ==
    LET r == pass.run
        same == /\ run[r] = pass.row
                /\ \/ pass.verdict = "RecoveryRequired"
                   \/ call[r] = pass.call /\ Is(r, {pass.seen})
    IN  /\ pass # None
        /\ pass.verdict \in {"Cancelled", "RecoveryRequired"}
        /\ IF same
           THEN /\ run' = [run EXCEPT ![r] = Closed(@, pass.verdict, "other")]
                /\ IF pass.verdict = "Cancelled"
                   THEN /\ call' = [call EXCEPT ![r].state = "closed"]
                        /\ approval' = IF Is(r, Withdrawn) THEN approval
                              ELSE [approval EXCEPT ![r].state = "expired"]
                   ELSE UNCHANGED <<call, approval>>
           ELSE UNCHANGED <<run, call, approval>>
        /\ pass' = None
        /\ UNCHANGED <<held, binding, session, effects>>

\* An error at one wait fails the pass for it and for every wait behind it:
\* its rows, principal, owner or protection policy cannot be had, the wait
\* policy does not answer, or the event or the closing cannot be written.
PassFails ==
    /\ pass # None
    /\ pass.verdict # "error"
    /\ pass' = [pass EXCEPT !.verdict = "error"]
    /\ UNCHANGED <<parkingVars, approval, effects>>

\* reconcile_waits returns that error; its caller comes again.
PassReturns ==
    /\ pass # None
    /\ pass.verdict = "error"
    /\ pass' = None
    /\ UNCHANGED <<parkingVars, approval, effects>>

\* cancel_active_tool_calls: what a cancelled run's approval becomes.
ApprovalsAfterCancel(r) ==
    [approval EXCEPT ![r] =
       IF Is(r, {"pending", "approved", "resume_claimed"})
       THEN [@ EXCEPT !.state = "revoked"] ELSE @]

\* validate_wait_confirmation of an approval's parked session
ApprovalConfirms(r) ==
    /\ run[r].state = "WaitingApproval"
    /\ ParkedWait(r)
    /\ Is(r, {"pending", "approved"})
    /\ Unexpired(r)
    /\ call[r] = [state |-> "waiting_approval", gen |-> binding[r].gen]

ApprovalLater ==
    /\ approval' = [r \in Runs |-> IF approval[r] = None THEN None
                       ELSE [approval[r] EXCEPT !.expiry = Sooner(@)]]
    /\ pass' = IF pass = None THEN None
               ELSE [pass EXCEPT !.row = RowLater(@)]
    /\ UNCHANGED effects

ApprovalWorker(w) ==
    \/ \E acked \in BOOLEAN : RequestApproval(w, acked)
    \/ \E r \in Runs : \E earlier \in SUBSET (Runs \ {r}) :
         ClaimApproved(w, r, earlier)
    \/ ReadApproval(w)
    \/ ConsumeApproval(w)
    \/ \E ran \in BOOLEAN, p \in Phases : ExecuteTool(w, ran, p)
    \/ FinishToolCall(w)
    \/ PersistToolBatch(w)
    \/ ConsumeBatch(w)

\* The pass goes on with the wait it is at.
PassGoesOn ==
    \/ \E policy \in BOOLEAN : JudgeWait(policy)
    \/ CloseWait
    \/ PassFails
    \/ PassReturns

Reconcile == (\E r \in Runs : LoadWait(r)) \/ PassGoesOn

ApprovalTypeOK ==
    /\ approval \in [Runs -> Approval \cup {None}]
    /\ effects \in [Runs -> Nat]
    /\ pass \in Pass \cup {None}

(* A consequential tool runs at most once for its call, and only when an   *)
(* approval was consumed for it: however late the worker that authorised,  *)
(* however often the wait was resumed, revoked, closed or recovered        *)
(* (execute_approved: "the consumed approval and mutation are never        *)
(* automatically replayed").                                               *)
EffectApprovedOnce ==
    \A r \in Runs :
        /\ effects[r] <= 1
        /\ effects[r] > 0 => Is(r, {"consumed"})

(* Authority that ended stays ended: nothing is consumed, claimed or       *)
(* approved after a denial, a revocation, an expiry or a consumption, by   *)
(* whatever actor and from whatever it read before (transition_decision,   *)
(* claim_approved_once, consume_approval, reconcile_approval_wait_once).   *)
AuthorityFinal ==
    [][\A r \in Runs : Is(r, Withdrawn \cup {"consumed"}) =>
          approval'[r].state = approval[r].state]_approvalVars

(* A wait that lost its authority does not hold its run for ever: the      *)
(* reconciliation pass ends it, although every decision of the pass is     *)
(* taken on rows it read earlier.  This needs passes that sooner or later  *)
(* meet no error: reconcile_waits as a whole fails with the wait it cannot *)
(* judge or close, so one that fails on every pass can keep every dead     *)
(* wait open, its own and those of other runs.                             *)
DeadWait(r) == run[r].state = "WaitingApproval" /\ Is(r, Withdrawn)
PassError == pass # None /\ pass.verdict = "error"
DeadWaitCloses ==
    <>[]~PassError => \A r \in Runs : DeadWait(r) ~> ~DeadWait(r)
=============================================================================
