---------------------------- MODULE AiRunState ----------------------------
(***************************************************************************)
(* The pure decisions of crates/graphql-orm-ai/src/run_state.rs: which     *)
(* states a run has, which transitions a worker may make, and whether a    *)
(* closed run may be authored again over the same user message.            *)
(***************************************************************************)

\* AiRunState.
States ==
    {"Queued", "Leased", "Running", "WaitingApproval", "WaitingTool",
     "WaitingReauth", "WaitingProvider", "WaitingSubscription",
     "RetryScheduled", "RecoveryRequired", "Completed", "Failed",
     "Cancelled"}

\* AiRunState::is_terminal
IsTerminal(s) == s \in {"Completed", "Failed", "Cancelled"}

\* AiRunTerminalEvent::from_run_state: the states that close a run.
Closing == {"Completed", "Failed", "Cancelled", "RecoveryRequired"}

\* AiRunState::can_transition_to, as the set of admitted next states.
Successors ==
    [s \in States |->
       CASE s \in {"Queued", "RetryScheduled"} -> {"Leased", "Cancelled"}
         [] s = "Leased" -> {"Running", "Cancelled", "Failed"}
         [] s = "Running" -> States \ {"Queued", "Leased", "Running"}
         [] s = "WaitingApproval" ->
              {"Running", "WaitingTool", "WaitingReauth", "Cancelled",
               "Failed", "RecoveryRequired"}
         [] s = "WaitingTool" ->
              {"Running", "RetryScheduled", "Cancelled", "Failed",
               "RecoveryRequired"}
         [] s \in {"WaitingReauth", "WaitingSubscription"} ->
              {"Queued", "Cancelled", "Failed", "RecoveryRequired"}
         [] s = "WaitingProvider" -> {"Cancelled"}
         [] s \in Closing -> {}]

CanTransitionTo(s, t) == t \in Successors[s]

(***************************************************************************)
(* The error codes of a run, as far as a decision depends on them: none;   *)
(* the marker checkpoint_adoption_ready; a code of the closed allowlist    *)
(* is_retryable_failure_code ("clean"); a code that is retryable only when *)
(* no provider dispatch was possible ("guarded": provider_budget_denied,   *)
(* provider_pre_transport_failed, the initial planning codes); any other.  *)
(***************************************************************************)
ErrorCodes == {"none", "adoption_ready", "clean", "guarded", "other"}

\* classify_run_retry: "Allowed", "RefusedUncertain" or
\* "RefusedAlreadyAnswered".
ClassifyRunRetry(state, answered, dispatchPossible, code) ==
    CASE state = "Completed" \/ answered -> "RefusedAlreadyAnswered"
      [] state = "Cancelled" /\ ~answered -> "Allowed"
      [] state = "RecoveryRequired" /\ ~answered ->
           IF dispatchPossible THEN "RefusedUncertain" ELSE "Allowed"
      [] state = "Failed" /\ ~answered ->
           IF code = "clean" \/ (code = "guarded" /\ ~dispatchPossible)
           THEN "Allowed" ELSE "RefusedUncertain"
=============================================================================
