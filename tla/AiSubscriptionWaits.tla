------------------------- MODULE AiSubscriptionWaits -------------------------
(***************************************************************************)
(* The durable wait of a run for one event of a replayable source          *)
(* (orm_subscription_waits.rs).                                            *)
(*                                                                         *)
(* The worker captures the source's position, then commits the wait and    *)
(* gives up its lease.  Pollers claim the waiter for a short while, open   *)
(* the source after the waiter's cursor, examine one event outside of any  *)
(* transaction, and commit what it means for the wait: the cursor moves,   *)
(* or the run is queued with the outcome.  A later attempt of the run      *)
(* claims that outcome, then consumes it before its provider turn.         *)
(*                                                                         *)
(* A poller works on one claim at a time, so the claim's owner stands for  *)
(* its generation and the row_version that is checked with it.             *)
(***************************************************************************)
EXTENDS AiParking, Sequences

CONSTANTS
    Pollers,    \* worker_id values of process_next
    PollTtl,    \* claim_ttl of a waiter, in ticks
    MaxLog,     \* bound: events the source publishes
    MaxEvents   \* maximum_events of a wait

ASSUME SubscriptionAssumption ==
    /\ PollTtl \in 1..(Ttl + RetryDelay)
    /\ MaxLog \in Nat /\ MaxEvents \in Nat \ {0}
    /\ None \notin Pollers

VARIABLES
    log,       \* the source: for each event, whether the condition holds
    waiter,    \* waiter[r]: the AiSubscriptionWaiterRecord, or None
    adoption,  \* adoption[r]: the AiSubscriptionWaitAdoptionRecord, or None
    poller     \* poller[p]: the claim p works on, or None

subscriptionVars == <<log, waiter, adoption, poller>>

\* start, the position captured for the wait, is kept for the properties;
\* "closed" is cancelled, failed or recovery_required.
Waiter ==
    [state : {"waiting", "claimed", "adopted", "closed"},
     owner : Pollers \cup {None},
     claim : Ticks \cup {None},
     expiry : Ticks,
     start : Nat, cursor : Nat, examined : Nat]

Adoption ==
    [state : {"queued", "claimed", "consumed", "closed"},
     kind : {"matched", "event_limit", "timeout"},
     gen : Nat]

ASSUME WaiterNoneAssumption == None \notin Waiter /\ None \notin Adoption

\* AiSubscriptionWaitClaim, and the OpenedWait once it is open.
Poller ==
    [run : Runs, opened : BOOLEAN, cursor : Nat, examined : Nat,
     event : Nat \cup {None}]

SubscriptionInit ==
    /\ log = <<TRUE>>
    /\ waiter = [r \in Runs |-> None]
    /\ adoption = [r \in Runs |-> None]
    /\ poller = [p \in Pollers |-> None]

\* The application publishes an event.  Those before the first position is
\* captured are the one that the log begins with; those after the last wait
\* has ended are left out.
Publish(matches) ==
    /\ \/ \E w \in Workers : held[w] # None /\ held[w].pos > 0
       \/ \E r \in Runs : /\ waiter[r] # None
                           /\ waiter[r].state \in {"waiting", "claimed"}
    /\ Len(log) < MaxLog
    /\ log' = Append(log, matches)
    /\ UNCHANGED <<parkingVars, waiter, adoption, poller>>

-----------------------------------------------------------------------------
\* register_wait: the source's position is captured first.
CaptureSource(w) ==
    /\ "subscription" \in Kinds
    /\ Fenced(w, {"turned"})
    /\ session[held[w].lease.run] = "active"
    /\ held' = [held EXCEPT ![w].phase = "captured", ![w].pos = Len(log)]
    /\ UNCHANGED <<run, call, binding, session, subscriptionVars>>

NewWaiter(start, cursor) ==
    [state |-> "waiting", owner |-> None, claim |-> None, expiry |-> WaitTtl,
     start |-> start, cursor |-> cursor, examined |-> 0]

\* persist_registration of a waiter, and what its caller makes of the answer.
Register(w, acked, new) ==
    /\ "subscription" \in Kinds
    /\ Handing(w)
    /\ LET r == held[w].lease.run
           row == run[r]
       IN  /\ row.state = "Running"
           /\ session[r] = "active"
           /\ row.ckpt = CheckpointOf(w, "turn")
           /\ call[r].state = "none"
           /\ run' = [run EXCEPT ![r] = Parked(row, "WaitingSubscription",
                                               CheckpointOf(w, "parked"))]
           /\ call' = [call EXCEPT ![r] = [state |-> "waiting_subscription",
                                           gen |-> held[w].lease.gen]]
           /\ waiter' = [waiter EXCEPT ![r] = new]
    /\ held' = IF ~acked THEN [held EXCEPT ![w].phase = "unsure"]
               ELSE IF held[w].phase = "parking"
                    THEN [held EXCEPT ![w].phase = "requested"]
               ELSE [held EXCEPT ![w] = None]
    /\ UNCHANGED <<binding, session, log, adoption, poller>>

PersistRegistrationAtTheEnd(w, acked) ==
    Register(w, acked, NewWaiter(held[w].pos, Len(log)))
PersistRegistration(w, acked) ==
    Register(w, acked, NewWaiter(held[w].pos, held[w].pos))

-----------------------------------------------------------------------------
\* The rows every step of a poller requires of a wait.
WaitGraph(r) ==
    /\ run[r].state = "WaitingSubscription"
    /\ run[r].attempt = None
    /\ run[r].ckpt # None /\ run[r].ckpt.kind = "parked"
    /\ call[r].state = "waiting_subscription"

Released(wt, s) == [wt EXCEPT !.state = s, !.owner = None, !.claim = None]

\* A candidate of claim_next: nobody works on it, or its claim is over.
PollableUnclaimed(r) == waiter[r] # None /\ waiter[r].state = "waiting"
Pollable(r) ==
    /\ waiter[r] # None
    /\ \/ waiter[r].state = "waiting"
       \/ waiter[r].state = "claimed" /\ waiter[r].claim <= 0

\* The wait may be polled; claim_next quarantines what may not.
Pollworthy(r) ==
    WaitGraph(r) /\ session[r] = "active" /\ adoption[r] = None

\* quarantine_waiter_candidate
QuarantinedRun(r) ==
    IF run[r].state = "WaitingSubscription"
    THEN Closed(run[r], "RecoveryRequired", "other") ELSE run[r]

\* claim_next: the first candidate that may be polled is claimed, those
\* before it are quarantined; next = None if there is none.
ClaimWaiter(p, next) ==
    LET due == {r \in Runs : Pollable(r)}
        passed == {r \in due : next = None \/ r < next}
    IN  /\ poller[p] = None
        /\ due # {}
        /\ \A r \in passed : ~Pollworthy(r)
        /\ next # None => next \in due /\ Pollworthy(next)
        /\ run' = [r \in Runs |-> IF r \in passed THEN QuarantinedRun(r)
                                                  ELSE run[r]]
        /\ waiter' = [r \in Runs |->
              CASE r \in passed -> Released(waiter[r], "closed")
                [] r = next -> [waiter[r] EXCEPT !.state = "claimed",
                                       !.owner = p, !.claim = PollTtl]
                [] OTHER -> waiter[r]]
        /\ poller' = IF next = None THEN poller
                     ELSE [poller EXCEPT ![p] =
                             [run |-> next, opened |-> FALSE, cursor |-> 0,
                              examined |-> 0, event |-> None]]
        /\ UNCHANGED <<held, call, binding, session, log, adoption>>

\* validate_claimed_waiter
ClaimHolds(p) ==
    /\ poller[p] # None
    /\ LET wt == waiter[poller[p].run] IN
       wt.state = "claimed" /\ wt.owner = p /\ wt.claim > 0

\* open_claim
OpenClaim(p) ==
    /\ ClaimHolds(p)
    /\ ~poller[p].opened
    /\ LET r == poller[p].run IN
       /\ WaitGraph(r)
       /\ session[r] = "active"
       /\ poller' = [poller EXCEPT ![p] =
             [@ EXCEPT !.opened = TRUE, !.cursor = waiter[r].cursor,
                       !.examined = waiter[r].examined]]
    /\ UNCHANGED <<parkingVars, log, waiter, adoption>>

\* The source's next event after the cursor, replayed or live.
ReceiveEvent(p) ==
    /\ poller[p] # None
    /\ poller[p].opened
    /\ poller[p].event = None
    /\ poller[p].cursor < Len(log)
    /\ waiter[poller[p].run].expiry > 0
    /\ poller' = [poller EXCEPT ![p].event = poller[p].cursor + 1]
    /\ UNCHANGED <<parkingVars, log, waiter, adoption>>

\* release_claim: nothing came in time, or the source is unavailable.
ReleaseClaim(p) ==
    /\ ClaimHolds(p)
    /\ waiter' = [waiter EXCEPT ![poller[p].run] = Released(@, "waiting")]
    /\ poller' = [poller EXCEPT ![p] = None]
    /\ UNCHANGED <<parkingVars, log, adoption>>

\* advance_cursor_and_release: the event is not the one.
AdvanceCursorAndRelease(p) ==
    /\ ClaimHolds(p)
    /\ poller[p].event # None
    /\ ~log[poller[p].event]
    /\ LET r == poller[p].run IN
       /\ waiter[r].examined = poller[p].examined
       /\ poller[p].examined + 1 < MaxEvents
       /\ waiter' = [waiter EXCEPT ![r] =
             [Released(waiter[r], "waiting") EXCEPT
                !.cursor = poller[p].event, !.examined = @ + 1]]
    /\ poller' = [poller EXCEPT ![p] = None]
    /\ UNCHANGED <<parkingVars, log, adoption>>

\* process_claim's verdict on the wait.
Outcome(p, kind) ==
    LET seen == poller[p].event # None
        last == poller[p].examined + 1 >= MaxEvents
    IN  CASE kind = "matched" -> seen /\ log[poller[p].event]
          [] kind = "event_limit" -> seen /\ ~log[poller[p].event] /\ last
          [] kind = "timeout" -> ~seen /\ waiter[poller[p].run].expiry <= 0

\* queue_outcome and persist_adoption: the run may be claimed again.
PersistAdoption(p, kind) ==
    /\ ClaimHolds(p)
    /\ poller[p].opened
    /\ Outcome(p, kind)
    /\ LET r == poller[p].run
           more == IF kind = "timeout" THEN 0 ELSE 1
       IN  /\ WaitGraph(r)
           /\ waiter[r].examined = poller[p].examined
           /\ poller[p].examined + more <= MaxEvents
           /\ adoption[r] = None
           /\ waiter' = [waiter EXCEPT ![r] =
                 [Released(waiter[r], "adopted") EXCEPT
                    !.cursor = poller[p].cursor + more,
                    !.examined = @ + more]]
           /\ adoption' = [adoption EXCEPT ![r] =
                 [state |-> "queued", kind |-> kind, gen |-> 0]]
           /\ run' = [run EXCEPT ![r] =
                 [@ EXCEPT !.state = "Queued", !.eligible = 0,
                           !.err = "adoption_ready",
                           !.ckpt.kind = "adoption"]]
    /\ poller' = [poller EXCEPT ![p] = None]
    /\ UNCHANGED <<held, call, binding, session, log>>

\* close_claim: authority was revoked, the source was reset, its event is
\* not valid, or the claim's own deadline passed while examining it.
CloseClaim(p, s) ==
    /\ ClaimHolds(p)
    /\ s \in {"Failed", "RecoveryRequired"}
    /\ LET r == poller[p].run IN
       /\ run[r].state = "WaitingSubscription"
       /\ call[r].state = "waiting_subscription"
       /\ run' = [run EXCEPT ![r] = Closed(@, s, "other")]
       /\ call' = [call EXCEPT ![r].state = "closed"]
       /\ waiter' = [waiter EXCEPT ![r] = Released(@, "closed")]
    /\ poller' = [poller EXCEPT ![p] = None]
    /\ UNCHANGED <<held, binding, session, log, adoption>>

\* The poller dies, or process_claim returns an error: the claim stays in
\* the row until it is over.
PollerCrash(p) ==
    /\ poller[p] # None
    /\ poller' = [poller EXCEPT ![p] = None]
    /\ UNCHANGED <<parkingVars, log, waiter, adoption>>

\* It does so with its claim in force: open_claim finds another capability,
\* catalog or source registration than the wait's, queue_limit_outcome may
\* not disclose the outcome, or a principal, policy or store is not there.
PollFails(p) == ClaimHolds(p) /\ PollerCrash(p)

-----------------------------------------------------------------------------
\* adopt_wait and claim_adoption
ClaimAdoption(w) ==
    /\ Fenced(w, {"adopting"})
    /\ LET r == held[w].lease.run IN
       /\ run[r].ckpt # None
       /\ run[r].ckpt.kind = "adoption"
       /\ session[r] = "active"
       /\ waiter[r].state = "adopted"
       /\ adoption[r].state = "queued"
       /\ adoption' = [adoption EXCEPT ![r] =
             [@ EXCEPT !.state = "claimed", !.gen = held[w].lease.gen]]
    /\ UNCHANGED <<parkingVars, log, waiter, poller>>

\* consume_wait_adoption
ConsumeWaitAdoption(w) ==
    /\ Fenced(w, {"adopting"})
    /\ LET r == held[w].lease.run IN
       /\ run[r].ckpt # None
       /\ run[r].ckpt.kind = "adoption"
       /\ adoption[r].state = "claimed"
       /\ adoption[r].gen = held[w].lease.gen
       /\ waiter[r].state = "adopted"
       /\ call[r].state = "waiting_subscription"
       /\ adoption' = [adoption EXCEPT ![r].state = "consumed"]
       /\ call' = [call EXCEPT ![r].state = "completed"]
       /\ Renew(w, [run[r] EXCEPT !.ckpt = None, !.expiry = Ttl], "adopted")
    /\ UNCHANGED <<binding, session, log, waiter, poller>>

-----------------------------------------------------------------------------
\* cancel_subscription_wait
WaitersAfterCancel(r) ==
    [waiter EXCEPT ![r] =
       IF @ # None /\ @.state \in {"waiting", "claimed"}
       THEN Released(@, "closed") ELSE @]
AdoptionsAfterCancel(r) ==
    [adoption EXCEPT ![r] =
       IF @ # None /\ @.state \in {"queued", "claimed"}
       THEN [@ EXCEPT !.state = "closed"] ELSE @]

\* validate_wait_confirmation of a subscription's parked session
SubscriptionConfirms(r) ==
    /\ waiter[r] # None
    /\ WaitGraph(r)
    /\ waiter[r].state = "waiting"
    /\ waiter[r].expiry > 0

SubscriptionLater ==
    /\ waiter' = [r \in Runs |-> IF waiter[r] = None THEN None
                     ELSE [waiter[r] EXCEPT !.claim = Sooner(@),
                                            !.expiry = Sooner(@)]]
    /\ UNCHANGED <<log, adoption, poller>>

SubscriptionWorker(w) ==
    \/ CaptureSource(w)
    \/ \E acked \in BOOLEAN : PersistRegistration(w, acked)
    \/ ClaimAdoption(w)
    \/ ConsumeWaitAdoption(w)

Poll(p) ==
    \/ \E next \in Runs \cup {None} : ClaimWaiter(p, next)
    \/ OpenClaim(p)
    \/ ReceiveEvent(p)
    \/ ReleaseClaim(p)
    \/ AdvanceCursorAndRelease(p)
    \/ \E kind \in {"matched", "event_limit", "timeout"} :
         PersistAdoption(p, kind)
    \/ \E s \in Closing : CloseClaim(p, s)
    \/ PollerCrash(p)

SubscriptionTypeOK ==
    /\ log \in Seq(BOOLEAN)
    /\ waiter \in [Runs -> Waiter \cup {None}]
    /\ adoption \in [Runs -> Adoption \cup {None}]
    /\ poller \in [Pollers -> Poller \cup {None}]

(* The wait sees every event since its capture, once and in order: those   *)
(* it passed over do not match, a matched outcome is the first match, and  *)
(* the event limit is reached by that many events and no match.  The       *)
(* events published while the wait was being registered count, and a late  *)
(* poller moves no cursor (register_wait, process_claim).                  *)
FirstMatchDelivered ==
    \A r \in {q \in Runs : waiter[q] # None} :
        LET wt == waiter[r]
            Matches(n) == \E i \in (wt.start + 1)..n : log[i]
            kind == IF adoption[r] = None THEN "none" ELSE adoption[r].kind
        IN  /\ wt.examined = wt.cursor - wt.start
            /\ kind = "matched" => log[wt.cursor] /\ ~Matches(wt.cursor - 1)
            /\ kind # "matched" => ~Matches(wt.cursor)
            /\ kind = "event_limit" => wt.examined = MaxEvents

(* A run waits for exactly as long as its waiter does, and is resumed by   *)
(* exactly one outcome: no combination of a poll, a quarantine, a          *)
(* cancellation and a recovery leaves one without the other.               *)
RunWaitsWithItsWaiter ==
    \A r \in Runs :
        LET waits == waiter[r] # None
                       /\ waiter[r].state \in {"waiting", "claimed"}
        IN  /\ run[r].state = "WaitingSubscription" <=> waits
            /\ waits => /\ call[r].state = "waiting_subscription"
                        /\ adoption[r] = None
            /\ (adoption[r] # None /\ adoption[r].state = "consumed")
                 => call[r].state = "completed" /\ run[r].ckpt = None

(* No run waits for an event for ever: its waiter is polled until it has   *)
(* an outcome, at the latest its timeout, or is closed.  This needs polls  *)
(* that sooner or later do not fail: most errors of open_claim, and of     *)
(* queue_limit_outcome at the timeout, close nothing, so a wait whose      *)
(* errors persist (a capability changed since, an egress that is denied)   *)
(* is claimed again for ever.                                              *)
SubscriptionWaitEnds ==
    <>[][\A p \in Pollers : ~PollFails(p)]_subscriptionVars =>
        \A r \in Runs : run[r].state = "WaitingSubscription"
                          ~> run[r].state # "WaitingSubscription"
=============================================================================
