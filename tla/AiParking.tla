------------------------------ MODULE AiParking ------------------------------
(***************************************************************************)
(* What the three waits of crates/graphql-orm-ai share: a run that one     *)
(* worker at a time leases, the one tool call its provider turn asked for, *)
(* the retained provider session it may park, the session that owns it,    *)
(* and the passes that recover leases and clean up provider sessions.      *)
(*                                                                         *)
(* AiApprovals, AiSubscriptionWaits and AiBackground give a run something  *)
(* to wait for; AiWaits composes them.  Runs live as in AiRuns, whose rows *)
(* these are, and whose provider turns, budgets and answers are left out   *)
(* here: a run asks for one wait, and its turn after the wait ends it.     *)
(* Every transaction is one action.  Clocks are not late (MaxLag = 0 in    *)
(* the instances; AiRuns has late ones).                                   *)
(***************************************************************************)
EXTENDS AiRunRows

CONSTANTS
    Kinds,      \* the waits a turn may ask for
    ClaimTtl,   \* claim_lease_ttl of a retained provider session, in ticks
    WaitTtl     \* the deadline a wait is registered with, in ticks

ASSUME ParkingAssumption ==
    /\ Kinds \subseteq {"approval", "subscription", "background"}
    /\ ClaimTtl \in 1..Ttl
    /\ WaitTtl \in 1..(Ttl + RetryDelay)

VARIABLES
    run,      \* run[r]: the AiRunRecord
    held,     \* held[w]: the lease of worker w and its place, or None
    call,     \* call[r]: the AiToolCallRecord of its turn
    binding,  \* binding[r]: the retained provider session it claimed
    session   \* session[r]: the state of the session it belongs to

parkingVars == <<run, held, call, binding, session>>

\* The worker's place.  seen is the state of the approval row it last read,
\* pos the position in the event source it captured.
Phases ==
    {"claimed", "ready", "turned", "staged", "captured", "parking", "requested", "unsure",
     "failed", "waiting", "resumed", "authorised", "consumed", "executed",
     "done", "batched", "adopting", "adopted", "continuing",
     "reserved", "prepared", "marked", "accepted", "lost"}

Held == [lease : AiRunLease, phase : Phases,
         seen : {"none", "approved", "resume_claimed"}, pos : Nat]

\* AiToolCallRecord; gen is its lease_generation.
Call ==
    [state : {"none", "executing", "waiting_approval", "waiting_subscription",
              "completed", "closed"},
     gen : Nat]

\* AiProviderSessionBindingRecord as far as waits concern it.  "cleanup" is
\* every state after it; expiry is claim_expires_at or, once confirmed,
\* parked_expires_at.  "none": the run keeps no retained session.
Binding ==
    [state : {"none", "claimed", "parked", "cleanup"},
     confirmed : BOOLEAN,
     gen : Nat,
     expiry : Ticks \cup {None}]

NoBinding ==
    [state |-> "none", confirmed |-> FALSE, gen |-> 0, expiry |-> None]
CleanedUp == [NoBinding EXCEPT !.state = "cleanup"]

-----------------------------------------------------------------------------
\* load_and_validate_active_lease, by the worker at one of the places P.
Fenced(w, P) ==
    /\ held[w] # None
    /\ held[w].phase \in P
    /\ LeaseHolds(held[w].lease, w, run[held[w].lease.run], 0)

\* What a worker at place p remembers of the row it just wrote.
Holding(r, row, p) ==
    [lease |-> LeaseFromRecord(r, row), phase |-> p, seen |-> "none",
     pos |-> 0]

\* Worker w writes the row of its run and goes on at place p.
Renew(w, row, p) ==
    LET r == held[w].lease.run IN
    /\ run' = [run EXCEPT ![r] = row]
    /\ held' = [held EXCEPT ![w] =
          Holding(r, row, p)]

\* Worker w gives up its run, whose row becomes row.
Leave(w, row) ==
    /\ run' = [run EXCEPT ![held[w].lease.run] = row]
    /\ held' = [held EXCEPT ![w] = None]

\* The row of a run that waits without a lease.
Parked(row, s, c) ==
    [row EXCEPT !.state = s, !.attempt = None, !.owner = None,
                !.expiry = None, !.eligible = None, !.err = "other",
                !.ckpt = c]

CheckpointOf(w, kind) ==
    [kind |-> kind, gen |-> held[w].lease.gen, turns |-> 1]

ParkingInit ==
    /\ run = [r \in Runs |-> QueuedRun(r)]
    /\ held = [w \in Workers |-> None]
    /\ call = [r \in Runs |-> [state |-> "none", gen |-> 0]]
    /\ binding = [r \in Runs |-> NoBinding]
    /\ session = [r \in Runs |-> "active"]

-----------------------------------------------------------------------------
\* claim_next
Claim(w, r) ==
    /\ held[w] = None
    /\ run[r].state \in {"Queued", "RetryScheduled"}
    /\ run[r].eligible <= 0
    /\ LET row == Leased(run[r], w, 0) IN
       /\ run' = [run EXCEPT ![r] = row]
       /\ held' = [held EXCEPT ![w] = Holding(r, row, "claimed")]
    /\ UNCHANGED <<call, binding, session>>

\* start: the turn begins, or the outcome of a wait is adopted.
Start(w) ==
    /\ Fenced(w, {"claimed"})
    /\ LET row == run[held[w].lease.run] IN
       Renew(w, [row EXCEPT !.state = "Running", !.expiry = Ttl],
             IF row.ckpt = None THEN "ready" ELSE "adopting")
    /\ UNCHANGED <<call, binding, session>>

\* heartbeat, of a lease that waits for its human or its provider
Heartbeat(w) ==
    /\ Fenced(w, {"waiting", "executed", "marked"})
    /\ Renew(w, [run[held[w].lease.run] EXCEPT !.expiry = Ttl],
             held[w].phase)
    /\ UNCHANGED <<call, binding, session>>

\* The provider's turn is settled and persisted, on a retained session
\* (claim_for_run) or not.
PersistProviderTurn(w, retained) ==
    /\ Fenced(w, {"ready"})
    /\ LET r == held[w].lease.run IN
       /\ session[r] = "active"
       /\ call[r].state = "none"
       /\ Renew(w, [run[r] EXCEPT !.expiry = Ttl,
                                  !.ckpt = CheckpointOf(w, "turn")], "turned")
       /\ binding' = [binding EXCEPT ![r] =
             IF retained THEN [state |-> "claimed", confirmed |-> FALSE,
                               gen |-> held[w].lease.gen, expiry |-> ClaimTtl]
             ELSE NoBinding]
    /\ UNCHANGED <<call, session>>

\* prepare_tool_call: the call's row and its step.
StageCall(w) ==
    /\ "approval" \in Kinds
    /\ Fenced(w, {"turned"})
    /\ LET r == held[w].lease.run IN
       /\ session[r] = "active"
       /\ call' = [call EXCEPT ![r] = [state |-> "executing",
                                       gen |-> held[w].lease.gen]]
       /\ Renew(w, [run[r] EXCEPT !.expiry = Ttl], "staged")
    /\ UNCHANGED <<binding, session>>

\* park_for_wait: the claimed session is parked before the run is.
ParkForWait(w) ==
    /\ Fenced(w, {"staged", "captured"})
    /\ LET r == held[w].lease.run IN
       /\ session[r] = "active"
       /\ binding[r].state = "claimed"
       /\ binding[r].expiry > 0
       /\ binding' = [binding EXCEPT ![r].state = "parked"]
    /\ held' = [held EXCEPT ![w].phase = "parking"]
    /\ UNCHANGED <<run, call, session>>

\* The worker at this place may hand its run over to a wait.
Handing(w) ==
    LET r == held[w].lease.run IN
    \/ Fenced(w, {"parking"})
    \/ Fenced(w, {"staged", "captured"}) /\ binding[r].state = "none"

\* A step of the handoff failed, or its commit was not acknowledged.
HandoffFailed(w) ==
    /\ held[w] # None
    /\ held[w].phase \in {"staged", "captured", "parking"}
    /\ held' = [held EXCEPT ![w].phase = "unsure"]
    /\ UNCHANGED <<run, call, binding, session>>

\* cleanup_approval_handoff, and the cleanups of register_wait: the claimed
\* or parked session of this attempt is given up.
CleanupHandoff(w) ==
    /\ held[w] # None
    /\ held[w].phase = "unsure"
    /\ LET r == held[w].lease.run IN
       binding' = [binding EXCEPT ![r] =
          IF @.state \in {"claimed", "parked"} /\ @.gen = held[w].lease.gen
          THEN CleanedUp ELSE @]
    /\ held' = [held EXCEPT ![w].phase = "failed"]
    /\ UNCHANGED <<run, call, session>>

\* reclaim_after_wait: the wait's outcome is consumed and its session still
\* parked, or there was none.
ReclaimAfterWait(w) ==
    /\ Fenced(w, {"adopted"})
    /\ LET r == held[w].lease.run IN
       \/ /\ binding[r].state = "none"
          /\ UNCHANGED binding
       \/ /\ binding[r].state = "parked"
          /\ binding[r].confirmed
          /\ binding[r].expiry > 0
          /\ run[r].ckpt = None
          /\ binding' = [binding EXCEPT ![r] =
                [state |-> "claimed", confirmed |-> FALSE,
                 gen |-> held[w].lease.gen, expiry |-> ClaimTtl]]
    /\ held' = [held EXCEPT ![w].phase = "continuing"]
    /\ UNCHANGED <<run, call, session>>

\* finish: how the coordinator concludes its run, by where it is.
Finish(w, s) ==
    /\ \/ s = "Completed" /\ Fenced(w, {"continuing"})
       \/ s = "RecoveryRequired"
            /\ Fenced(w, {"failed", "done", "batched", "adopting", "adopted",
                          "continuing"})
       \/ s = "Failed" /\ Fenced(w, {"ready"})
    /\ Leave(w, Closed(run[held[w].lease.run], s, "other"))
    /\ UNCHANGED <<call, binding, session>>

\* The worker dies, or returns with the error of a fence it has lost.
Crash(w) ==
    /\ held[w] # None
    /\ held' = [held EXCEPT ![w] = None]
    /\ UNCHANGED <<run, call, binding, session>>

-----------------------------------------------------------------------------
\* The states whose leases recover_expired_leases looks at.
Recoverable == {"Leased", "Running", "WaitingTool"}

\* The row an expired lease leaves: a completed batch is adopted.
Recovered(row) ==
    LET Left(s) == [Closed(row, s, "other") EXCEPT !.attempt = None]
        retry == row.retries < MaxRetries
    IN  CASE row.state = "Leased" /\ retry -> Requeued(row, "other", 0)
          [] row.state = "Leased" /\ ~retry -> Left("Failed")
          [] row.state # "Leased" /\ row.ckpt # None /\ retry
               /\ row.ckpt.kind = "batch" -> Requeued(row, "adoption_ready", 0)
          [] OTHER -> Left("RecoveryRequired")

\* recover_expired_leases: one bad row fails the pass for all.
RecoverExpiredLeases ==
    LET active == {r \in Runs : run[r].state \in Recoverable}
        due == {r \in active : run[r].expiry <= 0}
    IN  /\ due # {}
        /\ \A r \in due : run[r].ckpt # None => run[r].ckpt.gen = run[r].gen
        /\ run' = [r \in Runs |-> IF r \in due THEN Recovered(run[r])
                                               ELSE run[r]]
        /\ UNCHANGED <<held, call, binding, session>>

\* transition_session and delete_session do not look at runs.  What becomes
\* of the session of a closed run concerns nothing here.
MoveSession(r, s) ==
    /\ run[r].state \notin Closing
    /\ \/ session[r] = "active" /\ s = "archived"
       \/ session[r] = "archived" /\ s = "active"
       \/ session[r] # "deleting" /\ s = "deleting"
    /\ session' = [session EXCEPT ![r] = s]
    /\ UNCHANGED <<run, held, call, binding>>

\* Time passes for runs and retained sessions.
ParkingLater ==
    /\ run' = [r \in Runs |-> RowLater(run[r])]
    /\ binding' = [r \in Runs |-> [binding[r] EXCEPT !.expiry = Sooner(@)]]
    /\ UNCHANGED <<held, call, session>>

ParkingWorker(w) ==
    \/ \E r \in Runs : Claim(w, r)
    \/ Start(w)
    \/ Heartbeat(w)
    \/ \E retained \in BOOLEAN : PersistProviderTurn(w, retained)
    \/ StageCall(w)
    \/ ParkForWait(w)
    \/ HandoffFailed(w)
    \/ CleanupHandoff(w)
    \/ ReclaimAfterWait(w)
    \/ \E s \in Closing : Finish(w, s)
    \/ Crash(w)

ParkingTypeOK ==
    /\ run \in [Runs -> RunRow]
    /\ held \in [Workers -> Held \cup {None}]
    /\ call \in [Runs -> Call]
    /\ binding \in [Runs -> Binding]
    /\ session \in [Runs -> {"active", "archived", "deleting"}]
=============================================================================
