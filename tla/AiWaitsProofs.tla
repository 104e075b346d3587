---------------------------- MODULE AiWaitsProofs ----------------------------
(***************************************************************************)
(* What holds of the three waits for every number of runs, workers,        *)
(* pollers and reconcilers, every deadline and every limit.                *)
(***************************************************************************)
EXTENDS AiWaits, TLAPS

(* Worker w acts for r and r's row says so.                                *)
Owns(w, r) == held[w] # None /\ held[w].lease.run = r /\ run[r].owner = w

(* The worker at w that acts for r is at one of the places P.              *)
At(w, r, P) == held[w] # None /\ held[w].lease.run = r /\ held[w].phase \in P

(* A run in such a state is nobody's.                                      *)
Unowned == Closing \cup {"WaitingProvider", "WaitingSubscription"}

(* What an operation finds that follows a reference from one row to        *)
(* another.                                                                *)
RowLinks(r) ==
    /\ run[r].state # "Absent"
    /\ run[r].state \in Unowned => run[r].owner = None
    /\ run[r].state = "WaitingApproval" => approval[r] # None
    /\ (run[r].ckpt # None /\ run[r].ckpt.kind = "adoption") =>
         waiter[r] # None /\ adoption[r] # None
SubLinks ==
    \A r \in Runs : Sub(r, {"waiting_provider", "reconciling"}) =>
        submission[r].next # None /\ submission[r].deadline # None
PassLinks ==
    pass # None =>
        /\ pass.row.state = "WaitingApproval"
        /\ approval[pass.run] # None
        /\ pass.verdict = "Cancelled" =>
             /\ pass.call.state = "waiting_approval"
             /\ pass.seen \in {"pending", "approved"} \cup Withdrawn
PollLinks ==
    \A p \in Pollers : poller[p] # None => waiter[poller[p].run] # None
Links ==
    (\A r \in Runs : RowLinks(r)) /\ SubLinks /\ PassLinks /\ PollLinks

(* A worker that consumed an approval is alone, and the tool has not run   *)
(* yet.                                                                    *)
Authority ==
    \A w \in Workers, r \in Runs : At(w, r, {"consumed"}) =>
        /\ Is(r, {"consumed"}) /\ effects[r] = 0
        /\ \A u \in Workers \ {w} : ~At(u, r, {"consumed"})

(* The reservation of a request: the owner's until it is marked, uncertain *)
(* from then on, and one worker at most about to send.                     *)
Spent(r) == budget[r] \in {"uncertain", "committed", "estimated"}
Spending ==
    \A w \in Workers, r \in Runs :
        /\ At(w, r, {"reserved", "prepared"}) /\ Owns(w, r) =>
             budget[r] = "reserved"
        /\ At(w, r, {"marked"}) =>
             /\ sent[r] = 0 /\ Spent(r)
             /\ \A u \in Workers \ {w} : ~At(u, r, {"marked"})

(* The provider works on what was sent, and what a reconciler observed of  *)
(* its end is its end.                                                     *)
Observed ==
    /\ \A r \in Runs : job[r] # "none" => sent[r] > 0
    /\ \A p \in Reconcilers :
         (reconciler[p] # None /\ reconciler[p].status \in Terminal) =>
            reconciler[p].status = job[reconciler[p].run]

(* A run asks for one wait: its call tells which.                          *)
Consumed(r) == adoption[r] # None /\ adoption[r].state = "consumed"
OneWait(r) ==
    /\ call[r].state = "none" => waiter[r] = None /\ approval[r] = None
    /\ call[r].state \in {"executing", "waiting_approval"} => waiter[r] = None
    /\ approval[r] # None => waiter[r] = None
    /\ adoption[r] # None => waiter[r] # None
    /\ Consumed(r) => run[r].state \in {"Running"} \cup Closing
    /\ \A w \in Workers : Owns(w, r) =>
         /\ held[w].phase = "turned" => call[r].state = "none"
         /\ Consumed(r) => held[w].phase \in {"adopted", "continuing"}

-----------------------------------------------------------------------------
(* How a step that is not of such a wait changes a row: no run begins or   *)
(* ends a wait for an event or a provider, no run that ended goes on, and  *)
(* no outcome appears.                                                     *)
Asleep == {"WaitingProvider", "WaitingSubscription"}
Moves(old, new) ==
    /\ new \in RunRow
    /\ new.state # "Absent"
    /\ new.state \in Unowned => new.owner = None
    /\ new.ckpt # None =>
         new.ckpt = old.ckpt \/ new.ckpt.kind # "adoption"
    /\ new.state # old.state =>
         /\ old.state \notin Closing \cup Asleep
         /\ new.state \notin Asleep
RowsMove ==
    run' \in [Runs -> RunRow] /\ \A q \in Runs : Moves(run[q], run'[q])

(* ... and no run begins to wait for a human.                              *)
Fits(old, new) ==
    /\ Moves(old, new)
    /\ new.state = "WaitingApproval" => old.state = "WaitingApproval"
RowsFit ==
    run' \in [Runs -> RunRow] /\ \A q \in Runs : Fits(run[q], run'[q])

(* How a step changes the places of the workers: one stays where it is or  *)
(* goes on to one of the places P, with the same run, or it has claimed a  *)
(* run.  The position it remembers is the one it had or the log's end.     *)
StaysAt(w) ==
    /\ held[w] # None
    /\ held'[w].lease.run = held[w].lease.run
    /\ held'[w].lease.state = held[w].lease.state
    /\ held'[w].phase = held[w].phase
GoesTo(w, P) ==
    /\ held[w] # None
    /\ held'[w].lease.run = held[w].lease.run
    /\ held'[w].phase \in P
HasClaimed(w) == held[w] = None /\ held'[w].phase \in {"claimed", "resumed"}
Remembers(w) ==
    \/ held'[w].pos \in {0, Len(log)}
    \/ held[w] # None /\ held'[w].pos = held[w].pos
HeldStep(P) ==
    /\ held' \in [Workers -> Held \cup {None}]
    /\ \A w \in Workers : held'[w] # None =>
         /\ StaysAt(w) \/ GoesTo(w, P) \/ HasClaimed(w)
         /\ Remembers(w)

(* Only a claim gives a run an owner.                                      *)
OwnerStep ==
    \A r \in Runs :
        \/ run'[r].owner \in {run[r].owner, None}
        \/ \E w \in Workers : /\ held[w] = None /\ run'[r].owner = w
                               /\ held'[w].lease.run = r
                               /\ HasClaimed(w)

-----------------------------------------------------------------------------
LEMMA TicksFacts ==
    /\ None \notin Ticks
    /\ 0 \in Ticks /\ Ttl \in Ticks /\ WaitTtl \in Ticks /\ PollTtl \in Ticks
    /\ ClaimTtl \in Ticks /\ RetryDelay \in Ticks /\ ReconcileTtl \in Ticks
    /\ \A t \in Ticks \cup {None} : /\ Sooner(t) \in Ticks \cup {None}
                                    /\ Sooner(t) = None <=> t = None
<1>1. \A t \in Ticks : t \in Int
  BY RunRowsAssumption DEF Ticks
<1>2. None \notin Ticks
  BY <1>1, RunNoneAssumption
<1>3. /\ 0 \in Ticks /\ Ttl \in Ticks /\ WaitTtl \in Ticks /\ PollTtl \in Ticks
      /\ ClaimTtl \in Ticks /\ RetryDelay \in Ticks
      /\ ReconcileTtl \in Ticks
  BY RunRowsAssumption, ParkingAssumption, SubscriptionAssumption,
     BackgroundAssumption DEF Ticks
<1>4. ASSUME NEW t \in Ticks PROVE Sooner(t) \in Ticks
  <2>1. CASE t = 0 - MaxLag
    BY <2>1 DEF Sooner
  <2>2. CASE t # 0 - MaxLag
    BY <1>2, <2>2, RunRowsAssumption DEF Sooner, Ticks
  <2>3. QED
    BY <2>1, <2>2
<1>5. Sooner(None) = None
  BY DEF Sooner
<1>6. QED
  BY <1>2, <1>3, <1>4, <1>5

(* What the operations make of a row.                                      *)
LEMMA QueuedRow ==
    ASSUME NEW m \in Nat
    PROVE  /\ QueuedRun(m) \in RunRow
           /\ QueuedRun(m).state = "Queued" /\ QueuedRun(m).ckpt = None
<1>1. Absent \in RunRow
  BY RunRowsAssumption DEF Absent, RunRow, ErrorCodes
<1>2. QED
  BY <1>1, TicksFacts, ZenonT(40) DEF QueuedRun, RunRow, States, Absent

LEMMA ClosedRow ==
    ASSUME NEW row \in RunRow, NEW s \in Closing, NEW err \in ErrorCodes
    PROVE  /\ Closed(row, s, err) \in RunRow
           /\ Closed(row, s, err).state = s /\ Closed(row, s, err).owner = None
           /\ Closed(row, s, err).ckpt = row.ckpt
<1>1. s \in States
  BY DEF Closing, States
<1>2. QED
  BY <1>1 DEF Closed, RunRow

LEMMA RequeuedRow ==
    ASSUME NEW row \in RunRow, NEW err \in ErrorCodes, row.retries < MaxRetries
    PROVE  /\ Requeued(row, err, 0) \in RunRow
           /\ Requeued(row, err, 0).state = "RetryScheduled"
           /\ Requeued(row, err, 0).owner = None
           /\ Requeued(row, err, 0).ckpt = row.ckpt
<1>1. row.retries + 1 \in 0..MaxRetries
  BY RunRowsAssumption DEF RunRow
<1>2. QED
  BY <1>1, TicksFacts DEF Requeued, RunRow, States

LEMMA RecoveredRow ==
    ASSUME NEW row \in RunRow
    PROVE  /\ Recovered(row) \in RunRow
           /\ Recovered(row).state \in {"RetryScheduled", "Failed",
                                        "RecoveryRequired"}
           /\ (row.state # "Leased" /\ row.ckpt = None) =>
                Recovered(row).state = "RecoveryRequired"
           /\ Recovered(row).owner = None
           /\ Recovered(row).ckpt = row.ckpt
<1> DEFINE Left(s) == [Closed(row, s, "other") EXCEPT !.attempt = None]
<1>1. ASSUME NEW s \in {"Failed", "RecoveryRequired"}
      PROVE  /\ Left(s) \in RunRow /\ Left(s).state = s
             /\ Left(s).owner = None /\ Left(s).ckpt = row.ckpt
  <2>1. /\ Closed(row, s, "other") \in RunRow
        /\ Closed(row, s, "other").state = s
        /\ Closed(row, s, "other").owner = None
        /\ Closed(row, s, "other").ckpt = row.ckpt
    BY ClosedRow DEF Closing, ErrorCodes
  <2>2. QED
    BY <2>1 DEF RunRow
<1>2. CASE row.retries < MaxRetries
  <2>1. \A err \in {"other", "adoption_ready"} :
          /\ Requeued(row, err, 0) \in RunRow
          /\ Requeued(row, err, 0).state = "RetryScheduled"
          /\ Requeued(row, err, 0).owner = None
          /\ Requeued(row, err, 0).ckpt = row.ckpt
    BY <1>2, RequeuedRow DEF ErrorCodes
  <2>2. CASE row.state = "Leased"
    BY <1>2, <2>1, <2>2 DEF Recovered
  <2>3. CASE /\ row.state # "Leased" /\ row.ckpt # None
             /\ row.ckpt.kind = "batch"
    BY <1>2, <2>1, <2>3 DEF Recovered
  <2>4. CASE /\ row.state # "Leased"
             /\ ~(row.ckpt # None /\ row.ckpt.kind = "batch")
    <3>1. Recovered(row) = Left("RecoveryRequired")
      BY <1>2, <2>4 DEF Recovered
    <3>2. QED
      BY <1>1, <3>1
  <2>5. QED
    BY <2>2, <2>3, <2>4
<1>3. CASE ~(row.retries < MaxRetries)
  <2>1. Recovered(row) = IF row.state = "Leased" THEN Left("Failed")
                         ELSE Left("RecoveryRequired")
    BY <1>3 DEF Recovered
  <2>2. QED
    BY <1>1, <2>1
<1>4. QED
  BY <1>2, <1>3

LEMMA LeasedRow ==
    ASSUME NEW row \in RunRow, NEW w \in Workers
    PROVE  LET new == Leased(row, w, 0) IN
           /\ new \in RunRow /\ new.state = "Leased" /\ new.owner = w
           /\ new.attempt \in Nat /\ new.ckpt \in {row.ckpt, None}
<1> DEFINE c == IF row.err = "adoption_ready" THEN row.ckpt ELSE None
<1>1. row.gen + 1 \in Nat /\ Ttl - 0 = Ttl /\ Ttl \in Ticks
  BY TicksFacts, RunRowsAssumption DEF RunRow
<1>2. c \in Checkpoint \cup {None} /\ c \in {row.ckpt, None}
  BY DEF RunRow
<1>3. Leased(row, w, 0) =
        [row EXCEPT !.state = "Leased", !.attempt = row.gen + 1,
                    !.owner = w, !.gen = row.gen + 1, !.expiry = Ttl,
                    !.eligible = None, !.err = "none", !.ckpt = c]
  BY <1>1 DEF Leased
<1> HIDE DEF c
<1>4. "Leased" \in States /\ "none" \in ErrorCodes
  BY DEF States, ErrorCodes
<1>5. Leased(row, w, 0) \in RunRow
  BY <1>1, <1>2, <1>3, <1>4, ZenonT(40) DEF RunRow
<1>6. LET new == Leased(row, w, 0) IN
      /\ new.state = "Leased" /\ new.owner = w
      /\ new.attempt = row.gen + 1 /\ new.ckpt = c
  BY <1>3 DEF RunRow
<1>7. QED
  BY <1>1, <1>2, <1>5, <1>6

LEMMA RowLaterRow ==
    ASSUME NEW row \in RunRow
    PROVE  /\ RowLater(row) \in RunRow
           /\ RowLater(row).state = row.state /\ RowLater(row).owner = row.owner
           /\ RowLater(row).ckpt = row.ckpt
<1>1. /\ Sooner(row.expiry) \in Ticks \cup {None}
      /\ Sooner(row.eligible) \in Ticks \cup {None}
  BY TicksFacts DEF RunRow
<1>2. QED
  BY <1>1 DEF RowLater, RunRow

-----------------------------------------------------------------------------
(* What a worker that passes its fence knows.                              *)
LEMMA FencedFacts ==
    ASSUME TypeOK, Links, NEW w \in Workers, NEW P, Fenced(w, P)
    PROVE  /\ held[w] # None /\ held[w] \in Held /\ held[w].phase \in P
           /\ held[w].lease.run \in Runs
           /\ LET row == run[held[w].lease.run] IN
              /\ row \in RunRow /\ row.owner = w /\ row.attempt \in Nat
              /\ row.state \in States /\ row.state \notin Unowned
              /\ row.gen = held[w].lease.gen
              /\ row.ckpt = held[w].lease.ckpt
              /\ row.state = held[w].lease.state
<1> DEFINE r == held[w].lease.run
           l == held[w].lease
<1>1. held[w] # None /\ held[w].phase \in P /\ LeaseHolds(l, w, run[r], 0)
  BY DEF Fenced
<1>2. held[w] \in Held /\ l \in AiRunLease /\ r \in Runs /\ run[r] \in RunRow
  BY <1>1 DEF TypeOK, ParkingTypeOK, Held, AiRunLease
<1>3. LeaseFromRecord(r, run[r]) = l /\ run[r].owner = w
  BY <1>1 DEF LeaseHolds
<1>4. /\ run[r].attempt = l.attempt /\ run[r].gen = l.gen
      /\ run[r].state = l.state /\ run[r].ckpt = l.ckpt
  BY <1>3 DEF LeaseFromRecord
<1>5. l.attempt \in Nat /\ l.state \in States
  BY <1>2 DEF AiRunLease
<1>6. run[r].state \notin Unowned
  BY <1>2, <1>3, RunNoneAssumption DEF Links, RowLinks
<1>7. QED
  BY <1>1, <1>2, <1>3, <1>4, <1>5, <1>6

LEMMA HoldingType ==
    ASSUME NEW r \in Runs, NEW row \in RunRow, row.attempt \in Nat,
           row.state # "Absent", NEW p \in Phases
    PROVE  /\ Holding(r, row, p) \in Held
           /\ Holding(r, row, p).lease.run = r
           /\ Holding(r, row, p).phase = p /\ Holding(r, row, p).pos = 0
<1>1. LeaseFromRecord(r, row) \in AiRunLease
  BY DEF LeaseFromRecord, AiRunLease, RunRow
<1>2. LeaseFromRecord(r, row).run = r
  BY DEF LeaseFromRecord
<1>3. QED
  BY <1>1, <1>2 DEF Holding, Held

(* The rows after a step that wrote one of them.                           *)
LEMMA OneRow ==
    ASSUME TypeOK, Links, NEW r \in Runs, NEW row,
           run' = [run EXCEPT ![r] = row], Fits(run[r], row)
    PROVE  RowsFit
<1>1. ASSUME NEW q \in Runs PROVE Fits(run[q], run[q])
  <2>1. run[q] \in RunRow /\ RowLinks(q)
    BY DEF TypeOK, ParkingTypeOK, Links
  <2>2. QED
    BY <2>1 DEF Fits, Moves, RowLinks
<1>2. run \in [Runs -> RunRow]
  BY DEF TypeOK, ParkingTypeOK
<1>3. run' \in [Runs -> RunRow]
  BY <1>2 DEF Fits, Moves
<1>4. QED
  BY <1>1, <1>2, <1>3 DEF RowsFit

LEMMA NoRow ==
    ASSUME TypeOK, Links, run' = run
    PROVE  RowsFit /\ OwnerStep
<1>1. ASSUME NEW q \in Runs PROVE Fits(run[q], run[q])
  <2>1. run[q] \in RunRow /\ RowLinks(q)
    BY DEF TypeOK, ParkingTypeOK, Links
  <2>2. QED
    BY <2>1 DEF Fits, Moves, RowLinks
<1>2. QED
  BY <1>1 DEF OwnerStep, RowsFit, TypeOK, ParkingTypeOK

(* A worker writes the row of its run and goes on.                         *)
LEMMA Renewal ==
    ASSUME TypeOK, Links, NEW w \in Workers, NEW P, Fenced(w, P),
           NEW row, NEW p \in Phases, Renew(w, row, p),
           row \in RunRow, row.owner = w, row.attempt \in Nat,
           row.state # "Absent"
    PROVE  HeldStep({p}) /\ OwnerStep
<1> DEFINE r == held[w].lease.run
           h == Holding(r, row, p)
<1>1. /\ held[w] # None /\ r \in Runs /\ run[r].owner = w
      /\ held \in [Workers -> Held \cup {None}]
      /\ run \in [Runs -> RunRow]
  BY FencedFacts DEF TypeOK, ParkingTypeOK
<1>2. h \in Held /\ h.lease.run = r /\ h.phase = p /\ h.pos = 0
  BY <1>1, HoldingType
<1>3. run' = [run EXCEPT ![r] = row] /\ held' = [held EXCEPT ![w] = h]
  BY DEF Renew
<1> HIDE DEF h, r
<1>4. HeldStep({p})
  <2>1. held' \in [Workers -> Held \cup {None}]
    BY <1>1, <1>2, <1>3
  <2>2. ASSUME NEW u \in Workers, held'[u] # None
        PROVE  (StaysAt(u) \/ GoesTo(u, {p})) /\ Remembers(u)
    <3>1. CASE u = w
      BY <1>1, <1>2, <1>3, <3>1 DEF GoesTo, Remembers, r
    <3>2. CASE u # w
      <4>1. held'[u] = held[u]
        BY <1>1, <1>3, <3>2
      <4>2. QED
        BY <2>2, <4>1 DEF StaysAt, Remembers
    <3>3. QED
      BY <3>1, <3>2
  <2>3. QED
    BY <2>1, <2>2 DEF HeldStep
<1>5. OwnerStep
  BY <1>1, <1>3 DEF OwnerStep
<1>6. QED
  BY <1>4, <1>5

(* A worker is replaced by h: it goes on, or it is free.                   *)
LEMMA OneWorker ==
    ASSUME TypeOK, NEW w \in Workers, NEW h, held[w] # None,
           held' = [held EXCEPT ![w] = h], NEW P,
           h = None \/ (/\ h \in Held /\ h.lease.run = held[w].lease.run
                        /\ h.phase \in P
                        /\ h.pos \in {held[w].pos, Len(log)})
    PROVE  HeldStep(P)
<1>1. held \in [Workers -> Held \cup {None}]
  BY DEF TypeOK, ParkingTypeOK
<1>2. held' \in [Workers -> Held \cup {None}]
  BY <1>1
<1>3. ASSUME NEW u \in Workers, held'[u] # None
      PROVE  (StaysAt(u) \/ GoesTo(u, P)) /\ Remembers(u)
  <2>1. CASE u = w
    BY <1>1, <1>3, <2>1 DEF GoesTo, Remembers
  <2>2. CASE u # w
    <3>1. held'[u] = held[u]
      BY <1>1, <2>2
    <3>2. QED
      BY <1>3, <3>1 DEF StaysAt, Remembers
  <2>3. QED
    BY <2>1, <2>2
<1>4. QED
  BY <1>2, <1>3 DEF HeldStep

LEMMA NextPlace ==
    ASSUME TypeOK, NEW w \in Workers, held[w] # None, NEW p \in Phases,
           held' = [held EXCEPT ![w].phase = p]
    PROVE  HeldStep({p})
<1> DEFINE h == [held[w] EXCEPT !.phase = p]
<1>1. held[w] \in Held
  BY DEF TypeOK, ParkingTypeOK
<1>2. /\ h \in Held /\ h.lease.run = held[w].lease.run /\ h.phase = p
      /\ h.pos = held[w].pos
  BY <1>1 DEF Held
<1>3. held' = [held EXCEPT ![w] = h]
  OBVIOUS
<1> HIDE DEF h
<1>4. QED
  BY <1>2, <1>3, OneWorker

LEMMA NoWorker ==
    ASSUME TypeOK, held' = held, NEW P
    PROVE  HeldStep(P)
  BY DEF HeldStep, StaysAt, Remembers, TypeOK, ParkingTypeOK

LEMMA MorePlaces ==
    ASSUME NEW P, NEW Q, HeldStep(P), P \subseteq Q
    PROVE  HeldStep(Q)
  BY DEF HeldStep, GoesTo

(* Ownership comes with a claim only.                                      *)
LEMMA OwnerBefore ==
    ASSUME NEW P, HeldStep(P), OwnerStep
    PROVE  \A w \in Workers, r \in Runs : Owns(w, r)' =>
             Owns(w, r) \/ HasClaimed(w)
<1> SUFFICES ASSUME NEW w \in Workers, NEW r \in Runs, Owns(w, r)',
                    ~HasClaimed(w)
             PROVE  Owns(w, r)
  OBVIOUS
<1>1. held'[w] # None /\ held'[w].lease.run = r /\ run'[r].owner = w
  BY DEF Owns
<1>2. held[w] # None /\ held[w].lease.run = r
  BY <1>1 DEF HeldStep, StaysAt, GoesTo
<1>3. run[r].owner = w
  BY <1>1, <1>2, RunNoneAssumption DEF OwnerStep
<1>4. QED
  BY <1>2, <1>3 DEF Owns

-----------------------------------------------------------------------------
(* The row a worker writes while it keeps its lease: the lease is renewed  *)
(* and the checkpoint may be another.                                      *)
Renews(old, row) ==
    /\ row \in RunRow /\ row.owner = old.owner /\ row.attempt = old.attempt
    /\ row.state \in {old.state, "Running"}
    /\ row.ckpt # None => row.ckpt = old.ckpt \/ row.ckpt.kind # "adoption"

LEMMA TouchedRow ==
    ASSUME NEW old \in RunRow, NEW row,
           \/ row = [old EXCEPT !.expiry = Ttl]
           \/ row = [old EXCEPT !.state = "Running", !.expiry = Ttl]
           \/ row = [old EXCEPT !.state = "Running", !.expiry = Ttl,
                                !.err = "none"]
    PROVE  Renews(old, row)
<1>1. Ttl \in Ticks \cup {None}
  BY TicksFacts
<1>2. "Running" \in States /\ "none" \in ErrorCodes
  BY DEF States, ErrorCodes
<1>3. CASE row = [old EXCEPT !.expiry = Ttl]
  BY <1>1, <1>3 DEF Renews, RunRow
<1>4. CASE row = [old EXCEPT !.state = "Running", !.expiry = Ttl]
  BY <1>1, <1>2, <1>4 DEF Renews, RunRow
<1>5. CASE row = [old EXCEPT !.state = "Running", !.expiry = Ttl,
                             !.err = "none"]
  BY <1>1, <1>2, <1>5 DEF Renews, RunRow
<1>6. QED
  BY <1>3, <1>4, <1>5

(* A worker renews its lease and goes on to place p.                       *)
LEMMA RenewStep ==
    ASSUME TypeOK, Links, NEW w \in Workers, NEW P, Fenced(w, P),
           NEW p \in Phases, NEW row, Renews(run[held[w].lease.run], row),
           Renew(w, row, p)
    PROVE  /\ RowsFit
           /\ HeldStep({p}) /\ OwnerStep
           /\ run'[held[w].lease.run] = row
<1> DEFINE r == held[w].lease.run
           old == run[r]
<1>1. /\ held[w] # None /\ r \in Runs /\ old \in RunRow /\ old.owner = w
      /\ old.attempt \in Nat /\ old.state \in States /\ old.state \notin Unowned
  BY FencedFacts
<1>2. run' = [run EXCEPT ![r] = row] /\ Renews(old, row)
  BY DEF Renew
<1> HIDE DEF r, old
<1>3. row \in RunRow /\ row.owner = w /\ row.attempt \in Nat
  BY <1>1, <1>2 DEF Renews
<1>4. row.state \notin Unowned /\ row.state # "Absent"
  BY <1>1, <1>2 DEF Renews, Unowned, Closing, States
<1>5. Fits(old, row)
  BY <1>1, <1>2, <1>3, <1>4 DEF Renews, Fits, Moves, Unowned, Asleep
<1>6. HeldStep({p}) /\ OwnerStep
  BY <1>3, <1>4, Renewal
<1>7. RowsFit
  BY <1>1, <1>2, <1>5, OneRow DEF old
<1>8. run'[r] = row
  BY <1>1, <1>2 DEF TypeOK, ParkingTypeOK
<1>9. QED
  BY <1>6, <1>7, <1>8 DEF r

RunnerPlaces == {"ready", "adopting", "turned", "staged", "parking", "unsure",
                 "failed", "continuing"}

Frame(P) ==
    RowsFit /\ HeldStep(P) /\ OwnerStep
RestTypes ==
    /\ call \in [Runs -> Call]
    /\ binding \in [Runs -> Binding]
    /\ session \in [Runs -> {"active", "archived", "deleting"}]

LEMMA CheckpointType ==
    ASSUME TypeOK, NEW w \in Workers, held[w] # None,
           NEW k \in {"turn", "batch", "parked"}
    PROVE  /\ CheckpointOf(w, k) \in Checkpoint
           /\ CheckpointOf(w, k).kind # "adoption"
<1>1. held[w].lease.gen \in Nat
  BY DEF TypeOK, ParkingTypeOK, Held, AiRunLease
<1>2. QED
  BY <1>1 DEF CheckpointOf, Checkpoint

(* A worker that only renews its lease.                                    *)
LEMMA TouchStep ==
    ASSUME TypeOK, Links, NEW w \in Workers, NEW P, Fenced(w, P),
           NEW p \in Phases,
           Renew(w, [run[held[w].lease.run] EXCEPT !.expiry = Ttl], p)
    PROVE  Frame({p})
<1>1. PICK row : row = [run[held[w].lease.run] EXCEPT !.expiry = Ttl]
  OBVIOUS
<1>2. Renews(run[held[w].lease.run], row) /\ Renew(w, row, p)
  BY <1>1, FencedFacts, TouchedRow
<1>3. QED
  BY <1>2, RenewStep DEF Frame

(* A worker that renews its lease with another checkpoint.                 *)
LEMMA PointStep ==
    ASSUME TypeOK, Links, NEW w \in Workers, NEW P, Fenced(w, P),
           NEW p \in Phases, NEW c \in Checkpoint \cup {None},
           c # None => c.kind # "adoption",
           Renew(w, [run[held[w].lease.run] EXCEPT !.expiry = Ttl,
                                                   !.ckpt = c], p)
    PROVE  Frame({p}) /\ run'[held[w].lease.run].ckpt = c
<1>1. PICK old, row : /\ old = run[held[w].lease.run]
                      /\ row = [old EXCEPT !.expiry = Ttl, !.ckpt = c]
  OBVIOUS
<1>2. old \in RunRow /\ Renew(w, row, p)
  BY <1>1, FencedFacts
<1>3. Renews(old, row) /\ row.ckpt = c
  <2>1. Ttl \in Ticks \cup {None}
    BY TicksFacts
  <2>2. QED
    BY <1>1, <1>2, <2>1 DEF Renews, RunRow
<1>4. QED
  BY <1>1, <1>2, <1>3, RenewStep DEF Frame

(* A worker that leaves its run closed.                                    *)
LEMMA LeaveClosed ==
    ASSUME TypeOK, Links, NEW w \in Workers, NEW P, Fenced(w, P),
           NEW s \in Closing,
           Leave(w, Closed(run[held[w].lease.run], s, "other"))
    PROVE  Frame({})
<1> DEFINE r == held[w].lease.run
           row == Closed(run[r], s, "other")
<1>1. /\ held[w] # None /\ r \in Runs /\ run[r] \in RunRow
      /\ run[r].state \notin Unowned
  BY FencedFacts
<1>2. run' = [run EXCEPT ![r] = row] /\ held' = [held EXCEPT ![w] = None]
  BY DEF Leave
<1>3. /\ row \in RunRow /\ row.state = s /\ row.owner = None
      /\ row.ckpt = run[r].ckpt
  BY <1>1, ClosedRow DEF ErrorCodes
<1> HIDE DEF row
<1>4. Fits(run[r], row)
  BY <1>1, <1>3 DEF Fits, Moves, Unowned, Closing, Asleep
<1>5. RowsFit
  BY <1>1, <1>2, <1>4, OneRow
<1>6. HeldStep({})
  BY <1>1, <1>2, OneWorker
<1>7. OwnerStep
  BY <1>1, <1>2, <1>3 DEF OwnerStep, TypeOK, ParkingTypeOK
<1>8. QED
  BY <1>5, <1>6, <1>7 DEF Frame

LEMMA ClaimFrame ==
    ASSUME TypeOK, Links, NEW w \in Workers, NEW r \in Runs, Claim(w, r)
    PROVE  Frame({}) /\ RestTypes'
<1> DEFINE row == Leased(run[r], w, 0)
           h == Holding(r, row, "claimed")
<1>1. /\ held \in [Workers -> Held \cup {None}] /\ run \in [Runs -> RunRow]
      /\ held[w] = None /\ run[r].state \in {"Queued", "RetryScheduled"}
      /\ run' = [run EXCEPT ![r] = row] /\ held' = [held EXCEPT ![w] = h]
  BY DEF Claim, TypeOK, ParkingTypeOK
<1>2. /\ row \in RunRow /\ row.state = "Leased" /\ row.owner = w
      /\ row.attempt \in Nat /\ row.ckpt \in {run[r].ckpt, None}
  BY <1>1, LeasedRow
<1>3. h \in Held /\ h.lease.run = r /\ h.phase = "claimed" /\ h.pos = 0
  BY <1>2, HoldingType DEF Phases
<1> HIDE DEF row, h
<1>4. Fits(run[r], row)
  BY <1>1, <1>2 DEF Fits, Moves, Unowned, Closing, Asleep
<1>5. RowsFit
  BY <1>1, <1>4, OneRow
<1>6. HasClaimed(w) /\ held'[w] = h
  BY <1>1, <1>3 DEF HasClaimed
<1>7. HeldStep({})
  <2>1. held' \in [Workers -> Held \cup {None}]
    BY <1>1, <1>3
  <2>2. ASSUME NEW u \in Workers \ {w}, held'[u] # None PROVE StaysAt(u) /\ Remembers(u)
    <3>1. held'[u] = held[u]
      BY <1>1
    <3>2. QED
      BY <2>2, <3>1 DEF StaysAt, Remembers
  <2>3. QED
    BY <1>3, <1>6, <2>1, <2>2 DEF HeldStep, Remembers
<1>8. OwnerStep
  BY <1>1, <1>2, <1>3, <1>6 DEF OwnerStep
<1>9. RestTypes'
  BY DEF RestTypes, TypeOK, ParkingTypeOK, Claim
<1>10. QED
  BY <1>5, <1>7, <1>8, <1>9 DEF Frame

LEMMA StartFrame ==
    ASSUME TypeOK, Links, NEW w \in Workers, Start(w)
    PROVE  Frame({"ready", "adopting"}) /\ RestTypes'
<1> DEFINE old == run[held[w].lease.run]
           p == IF old.ckpt = None THEN "ready" ELSE "adopting"
           row == [old EXCEPT !.state = "Running", !.expiry = Ttl]
<1>1. Fenced(w, {"claimed"}) /\ Renew(w, row, p) /\ RestTypes'
  BY DEF Start, RestTypes, TypeOK, ParkingTypeOK
<1>2. old \in RunRow /\ Renews(old, row)
  BY <1>1, FencedFacts, TouchedRow
<1>3. p \in Phases
  BY DEF Phases
<1> HIDE DEF p, row
<1>4. Frame({p})
  BY <1>1, <1>2, <1>3, RenewStep DEF Frame
<1>5. {p} \subseteq {"ready", "adopting"}
  BY DEF p
<1>6. QED
  BY <1>1, <1>4, <1>5, MorePlaces DEF Frame

LEMMA HeartbeatFrame ==
    ASSUME TypeOK, Links, NEW w \in Workers, Heartbeat(w)
    PROVE  Frame({}) /\ RestTypes'
<1> DEFINE p == held[w].phase
<1>1. /\ Fenced(w, {"waiting", "executed", "marked"})
      /\ Renew(w, [run[held[w].lease.run] EXCEPT !.expiry = Ttl], p)
      /\ RestTypes'
  BY DEF Heartbeat, RestTypes, TypeOK, ParkingTypeOK
<1>2. p \in {"waiting", "executed", "marked"} /\ p \in Phases
  BY <1>1, FencedFacts DEF Phases
<1>3. Frame({p})
  BY <1>1, <1>2, TouchStep
<1>4. ASSUME NEW u \in Workers, held'[u] # None, ~HasClaimed(u)
      PROVE  StaysAt(u)
  <2>1. CASE u = w
    <3>1. /\ held[w] # None /\ held'[w].lease.run = held[w].lease.run
          /\ held'[w].phase = p
      BY <1>3, <1>4, <2>1 DEF Frame, HeldStep, StaysAt, GoesTo
    <3>2. held'[w].lease.state = held[w].lease.state
      <4>1. /\ held[w].lease.run \in Runs
            /\ run[held[w].lease.run] \in RunRow
            /\ run[held[w].lease.run].state = held[w].lease.state
        BY <1>1, FencedFacts
      <4>2. held'[w].lease =
              LeaseFromRecord(held[w].lease.run,
                              [run[held[w].lease.run] EXCEPT !.expiry = Ttl])
        BY <1>1 DEF Renew, Holding, TypeOK, ParkingTypeOK
      <4>3. QED
        BY <4>1, <4>2 DEF LeaseFromRecord, RunRow
    <3>3. QED
      BY <1>2, <2>1, <3>1, <3>2 DEF StaysAt
  <2>2. CASE u # w
    <3>1. held'[u] = held[u]
      BY <1>1, <2>2 DEF Renew, TypeOK, ParkingTypeOK
    <3>2. QED
      BY <1>4, <3>1 DEF StaysAt
  <2>3. QED
    BY <2>1, <2>2
<1>5. \A u \in Workers : held'[u] # None => Remembers(u)
  BY <1>3 DEF Frame, HeldStep
<1>6. QED
  BY <1>1, <1>3, <1>4, <1>5 DEF Frame, HeldStep

(* The expiry of a confirmed park is its wait's.                           *)
LEMMA ConfirmedType ==
    ASSUME TypeOK, NEW r \in Runs, Confirms(r)
    PROVE  Confirmed(r) \in [Runs -> Binding]
<1>1. WaitExpiry(r) \in Ticks
  <2>1. CASE waiter[r] # None
    BY <2>1 DEF WaitExpiry, TypeOK, SubscriptionTypeOK, Waiter
  <2>2. CASE waiter[r] = None
    BY <2>2 DEF WaitExpiry, TypeOK, ApprovalTypeOK, Approval, Confirms,
                ApprovalConfirms, SubscriptionConfirms, Is
  <2>3. QED
    BY <2>1, <2>2
<1>2. [binding[r] EXCEPT !.confirmed = TRUE, !.expiry = WaitExpiry(r)]
        \in Binding
  BY <1>1 DEF TypeOK, ParkingTypeOK, Binding
<1>3. QED
  BY <1>2 DEF Confirmed, TypeOK, ParkingTypeOK

LEMMA PersistFrame ==
    ASSUME TypeOK, Links, NEW w \in Workers, NEW retained \in BOOLEAN,
           PersistProviderTurn(w, retained)
    PROVE  Frame({"turned"}) /\ RestTypes'
<1> DEFINE r == held[w].lease.run
           c == CheckpointOf(w, "turn")
           b == IF retained THEN [state |-> "claimed", confirmed |-> FALSE,
                                  gen |-> held[w].lease.gen,
                                  expiry |-> ClaimTtl]
                ELSE NoBinding
<1>1. /\ Fenced(w, {"ready"})
      /\ Renew(w, [run[r] EXCEPT !.expiry = Ttl, !.ckpt = c], "turned")
      /\ binding' = [binding EXCEPT ![r] = b]
      /\ UNCHANGED <<call, session>>
  BY DEF PersistProviderTurn
<1>2. held[w] # None /\ held[w].lease.gen \in Nat
  BY <1>1, FencedFacts DEF Held, AiRunLease
<1>3. c \in Checkpoint /\ c.kind # "adoption"
  BY <1>2, CheckpointType
<1>4. b \in Binding
  BY <1>2, TicksFacts DEF Binding, NoBinding
<1> HIDE DEF b, c
<1>5. Frame({"turned"})
  BY <1>1, <1>3, PointStep DEF Phases
<1>6. RestTypes'
  BY <1>1, <1>4 DEF RestTypes, TypeOK, ParkingTypeOK
<1>7. QED
  BY <1>5, <1>6

LEMMA StageFrame ==
    ASSUME TypeOK, Links, NEW w \in Workers, StageCall(w)
    PROVE  Frame({"staged"}) /\ RestTypes'
<1> DEFINE r == held[w].lease.run
           c == [state |-> "executing", gen |-> held[w].lease.gen]
<1>1. /\ Fenced(w, {"turned"})
      /\ Renew(w, [run[r] EXCEPT !.expiry = Ttl], "staged")
      /\ call' = [call EXCEPT ![r] = c]
      /\ UNCHANGED <<binding, session>>
  BY DEF StageCall
<1>2. held[w] # None /\ held[w].lease.gen \in Nat
  BY <1>1, FencedFacts DEF Held, AiRunLease
<1>3. c \in Call
  BY <1>2 DEF Call
<1> HIDE DEF c
<1>4. Frame({"staged"})
  BY <1>1, TouchStep DEF Phases
<1>5. RestTypes'
  BY <1>1, <1>3 DEF RestTypes, TypeOK, ParkingTypeOK
<1>6. QED
  BY <1>4, <1>5

(* A worker that goes on without writing its run.                          *)
LEMMA PlaceFrame ==
    ASSUME TypeOK, Links, NEW w \in Workers, held[w] # None, NEW p \in Phases,
           held' = [held EXCEPT ![w].phase = p], run' = run
    PROVE  Frame({p})
  BY NextPlace, NoRow DEF Frame

LEMMA ParkFrame ==
    ASSUME TypeOK, Links, NEW w \in Workers, ParkForWait(w)
    PROVE  Frame({"parking"}) /\ RestTypes'
<1>1. held[w] # None /\ held[w].lease.run \in Runs
  BY FencedFacts DEF ParkForWait
<1>2. Frame({"parking"})
  BY <1>1, PlaceFrame DEF ParkForWait, Phases
<1>3. RestTypes'
  BY <1>1 DEF RestTypes, TypeOK, ParkingTypeOK, ParkForWait, Binding
<1>4. QED
  BY <1>2, <1>3

LEMMA HandoffFrame ==
    ASSUME TypeOK, Links, NEW w \in Workers, HandoffFailed(w)
    PROVE  Frame({"unsure"}) /\ RestTypes'
  BY PlaceFrame DEF HandoffFailed, Phases, RestTypes, TypeOK, ParkingTypeOK

LEMMA CleanupFrame ==
    ASSUME TypeOK, Links, NEW w \in Workers, CleanupHandoff(w)
    PROVE  Frame({"failed"}) /\ RestTypes'
<1>1. Frame({"failed"})
  BY PlaceFrame DEF CleanupHandoff, Phases
<1>2. CleanedUp \in Binding
  BY DEF CleanedUp, NoBinding, Binding
<1>3. RestTypes'
  BY <1>2 DEF RestTypes, TypeOK, ParkingTypeOK, CleanupHandoff
<1>4. QED
  BY <1>1, <1>3

LEMMA ReclaimFrame ==
    ASSUME TypeOK, Links, NEW w \in Workers, ReclaimAfterWait(w)
    PROVE  Frame({"continuing"}) /\ RestTypes'
<1> DEFINE r == held[w].lease.run
           b == [state |-> "claimed", confirmed |-> FALSE,
                 gen |-> held[w].lease.gen, expiry |-> ClaimTtl]
<1>1. held[w] # None /\ held[w].lease.gen \in Nat
  BY FencedFacts DEF ReclaimAfterWait, Held, AiRunLease
<1>2. Frame({"continuing"})
  BY <1>1, PlaceFrame DEF ReclaimAfterWait, Phases
<1>3. b \in Binding
  BY <1>1, TicksFacts DEF Binding
<1>4. binding' = binding \/ binding' = [binding EXCEPT ![r] = b]
  BY DEF ReclaimAfterWait
<1> HIDE DEF b
<1>5. RestTypes'
  BY <1>3, <1>4 DEF RestTypes, TypeOK, ParkingTypeOK, ReclaimAfterWait
<1>6. QED
  BY <1>2, <1>5

LEMMA FinishFrame ==
    ASSUME TypeOK, Links, NEW w \in Workers, NEW s \in Closing, Finish(w, s)
    PROVE  Frame({}) /\ RestTypes'
<1>1. PICK P : Fenced(w, P)
  BY DEF Finish
<1>2. Leave(w, Closed(run[held[w].lease.run], s, "other"))
  BY DEF Finish
<1>3. Frame({})
  BY <1>1, <1>2, LeaveClosed
<1>4. RestTypes'
  BY DEF RestTypes, TypeOK, ParkingTypeOK, Finish
<1>5. QED
  BY <1>3, <1>4

LEMMA CrashFrame ==
    ASSUME TypeOK, Links, NEW w \in Workers,
           Crash(w) \/ ConfirmParkedWait(w)
    PROVE  Frame({}) /\ RestTypes'
<1>1. held[w] # None /\ held' = [held EXCEPT ![w] = None] /\ run' = run
  BY DEF Crash, ConfirmParkedWait
<1>2. Frame({})
  BY <1>1, OneWorker, NoRow DEF Frame
<1>3. CASE Crash(w)
  BY <1>2, <1>3 DEF RestTypes, TypeOK, ParkingTypeOK, Crash
<1>4. CASE ConfirmParkedWait(w)
  <2> DEFINE r == held[w].lease.run
  <2>1. CASE binding' = binding
    BY <1>2, <1>4, <2>1 DEF RestTypes, TypeOK, ParkingTypeOK, ConfirmParkedWait
  <2>2. CASE Confirms(r) /\ binding' = Confirmed(r)
    <3>1. r \in Runs
      BY <1>1 DEF TypeOK, ParkingTypeOK, Held, AiRunLease
    <3>2. binding' \in [Runs -> Binding]
      BY <2>2, <3>1, ConfirmedType
    <3>3. QED
      BY <1>2, <1>4, <3>2 DEF RestTypes, TypeOK, ParkingTypeOK,
                              ConfirmParkedWait
  <2>3. QED
    BY <1>4, <2>1, <2>2 DEF ConfirmParkedWait
<1>5. QED
  BY <1>3, <1>4

LEMMA RecoverFrame ==
    ASSUME TypeOK, Links, RecoverExpiredLeases
    PROVE  Frame({}) /\ RestTypes'
<1> DEFINE active == {r \in Runs : run[r].state \in Recoverable}
           due == {r \in active : run[r].expiry <= 0}
<1>1. /\ run' = [r \in Runs |-> IF r \in due THEN Recovered(run[r]) ELSE run[r]]
      /\ UNCHANGED <<held, call, binding, session>>
  BY DEF RecoverExpiredLeases
<1>2. ASSUME NEW r \in due
      PROVE  Fits(run[r], Recovered(run[r])) /\ Recovered(run[r]).owner = None
  <2>1. run[r] \in RunRow /\ run[r].state \in {"Leased", "Running", "WaitingTool"}
    BY DEF Recoverable, TypeOK, ParkingTypeOK
  <2>2. QED
    BY <2>1, RecoveredRow DEF Fits, Moves, Unowned, Closing, Asleep
<1>3. \A r \in Runs : Fits(run[r], run[r])
  BY DEF Fits, Moves, RowLinks, Links, TypeOK, ParkingTypeOK
<1> HIDE DEF due
<1>4. \A r \in Runs : Fits(run[r], run'[r])
  BY <1>1, <1>2, <1>3
<1>5. RowsFit
  BY <1>1, <1>4 DEF RowsFit, Fits, Moves
<1>6. OwnerStep
  BY <1>1, <1>2 DEF OwnerStep
<1>7. HeldStep({})
  BY <1>1, NoWorker
<1>8. RestTypes'
  BY <1>1 DEF RestTypes, TypeOK, ParkingTypeOK
<1>9. QED
  BY <1>5, <1>6, <1>7, <1>8 DEF Frame

LEMMA MaintainFrame ==
    ASSUME TypeOK, Links, NEW r \in Runs, MaintainBinding(r)
    PROVE  Frame({}) /\ RestTypes'
<1>1. UNCHANGED <<run, held, call, session>>
  BY DEF MaintainBinding
<1>2. Frame({})
  BY <1>1, NoRow, NoWorker DEF Frame
<1>3. CleanedUp \in Binding
  BY DEF CleanedUp, NoBinding, Binding
<1>4. binding' \in [Runs -> Binding]
  BY <1>3, ConfirmedType DEF MaintainBinding, TypeOK, ParkingTypeOK
<1>5. QED
  BY <1>1, <1>2, <1>4 DEF RestTypes, TypeOK, ParkingTypeOK

LEMMA MoveFrame ==
    ASSUME TypeOK, Links, NEW r \in Runs,
           NEW s \in {"active", "archived", "deleting"}, MoveSession(r, s)
    PROVE  Frame({}) /\ RestTypes'
<1>1. UNCHANGED <<run, held, call, binding>>
  BY DEF MoveSession
<1>2. Frame({})
  BY <1>1, NoRow, NoWorker DEF Frame
<1>3. QED
  BY <1>1, <1>2 DEF RestTypes, TypeOK, ParkingTypeOK, MoveSession

(* A step of the run's own operations.                                     *)
LEMMA RunnerFrame ==
    ASSUME TypeOK, Links, Runner
    PROVE  /\ Frame(RunnerPlaces) /\ RestTypes'
           /\ UNCHANGED <<approvalVars, subscriptionVars, backgroundVars>>
<1>1. ASSUME NEW P, Frame(P), P \subseteq RunnerPlaces
      PROVE  Frame(RunnerPlaces)
  BY <1>1, MorePlaces DEF Frame
<1>2. ASSUME NEW w \in Workers, ParkingWorker(w) \/ ConfirmParkedWait(w)
      PROVE  Frame(RunnerPlaces) /\ RestTypes'
  <2>1. {} \subseteq RunnerPlaces /\ \A p \in RunnerPlaces : {p} \subseteq RunnerPlaces
    OBVIOUS
  <2>2. CASE \/ \E r \in Runs : Claim(w, r)
             \/ \E s \in Closing : Finish(w, s)
             \/ Crash(w) \/ ConfirmParkedWait(w) \/ Heartbeat(w)
    <3>1. Frame({}) /\ RestTypes'
      BY <2>2, ClaimFrame, FinishFrame, CrashFrame, HeartbeatFrame
    <3>2. QED
      BY <1>1, <2>1, <3>1
  <2>3. CASE Start(w)
    <3>1. {"ready", "adopting"} \subseteq RunnerPlaces
      BY DEF RunnerPlaces
    <3>2. QED
      BY <1>1, <2>3, <3>1, StartFrame
  <2>4. CASE \E retained \in BOOLEAN : PersistProviderTurn(w, retained)
    BY <1>1, <2>1, <2>4, PersistFrame DEF RunnerPlaces
  <2>5. CASE StageCall(w)
    BY <1>1, <2>1, <2>5, StageFrame DEF RunnerPlaces
  <2>6. CASE ParkForWait(w)
    BY <1>1, <2>1, <2>6, ParkFrame DEF RunnerPlaces
  <2>7. CASE HandoffFailed(w)
    BY <1>1, <2>1, <2>7, HandoffFrame DEF RunnerPlaces
  <2>8. CASE CleanupHandoff(w)
    BY <1>1, <2>1, <2>8, CleanupFrame DEF RunnerPlaces
  <2>9. CASE ReclaimAfterWait(w)
    BY <1>1, <2>1, <2>9, ReclaimFrame DEF RunnerPlaces
  <2>10. QED
    BY <1>2, <2>2, <2>3, <2>4, <2>5, <2>6, <2>7, <2>8, <2>9 DEF ParkingWorker
<1>3. CASE \/ RecoverExpiredLeases
           \/ \E r \in Runs : MaintainBinding(r)
           \/ \E r \in Runs, s \in {"active", "archived", "deleting"} :
                MoveSession(r, s)
  <2>1. Frame({}) /\ RestTypes'
    BY <1>3, RecoverFrame, MaintainFrame, MoveFrame
  <2>2. QED
    BY <1>1, <2>1 DEF Runner
<1>4. QED
  BY <1>2, <1>3 DEF Runner

-----------------------------------------------------------------------------
(* Nothing that was recorded disappears.                                   *)
Grows ==
    \A r \in Runs :
        /\ approval[r] # None => approval'[r] # None
        /\ waiter[r] # None => waiter'[r] # None
        /\ adoption[r] # None => adoption'[r] # None

LEMMA RowLinksKept ==
    ASSUME Links, NEW r \in Runs, Grows, Fits(run[r], run'[r])
    PROVE  RowLinks(r)'
<1>1. RowLinks(r)
  BY DEF Links
<1>2. QED
  BY <1>1 DEF RowLinks, Fits, Moves, Grows

LEMMA ParkingTyped ==
    ASSUME NEW P, HeldStep(P), RestTypes', run' \in [Runs -> RunRow]
    PROVE  ParkingTypeOK'
  BY DEF HeldStep, RestTypes, ParkingTypeOK

LEMMA RunnerStep ==
    ASSUME TypeOK, Links, Runner
    PROVE  (TypeOK /\ Links)'
<1>1. /\ Frame(RunnerPlaces) /\ RestTypes'
      /\ UNCHANGED <<approvalVars, subscriptionVars, backgroundVars>>
  BY RunnerFrame
<1>2. Grows
  BY <1>1 DEF Grows, approvalVars, subscriptionVars
<1>3. \A r \in Runs : RowLinks(r)' /\ run'[r] \in RunRow
  BY <1>1, <1>2, RowLinksKept DEF Frame, RowsFit
<1>4. ParkingTypeOK'
  BY <1>1, ParkingTyped DEF Frame, RowsFit
<1>5. QED
  BY <1>1, <1>3, <1>4
     DEF TypeOK, Links, SubLinks, PassLinks, PollLinks, ApprovalTypeOK,
         SubscriptionTypeOK, BackgroundTypeOK, approvalVars,
         subscriptionVars, backgroundVars, Sub

-----------------------------------------------------------------------------
(* The approvals.                                                          *)
ApprovalPlaces == {"waiting", "requested", "unsure", "authorised", "consumed",
                   "executed", "failed", "done", "batched", "adopted"}

ApprovalTyped ==
    /\ approval \in [Runs -> Approval \cup {None}]
    /\ effects \in [Runs -> Nat]
    /\ pass \in Pass \cup {None}

LEMMA RowsAlone ==
    ASSUME TypeOK, Links, NEW r \in Runs, NEW row,
           run' = [run EXCEPT ![r] = row], Moves(run[r], row)
    PROVE  RowsMove
<1>1. \A q \in Runs : Moves(run[q], run[q])
  BY DEF Moves, RowLinks, Links, TypeOK, ParkingTypeOK
<1>2. run \in [Runs -> RunRow] /\ row \in RunRow
  BY DEF TypeOK, ParkingTypeOK, Moves
<1>3. QED
  BY <1>1, <1>2 DEF RowsMove

(* The row of a run whose worker asks for an approval.                     *)
LEMMA AskedRow ==
    ASSUME NEW row \in RunRow, row.state = "Running", NEW c \in Checkpoint,
           c.kind # "adoption"
    PROVE  /\ LET new == Parked(row, "WaitingApproval", c) IN
              /\ Moves(row, new) /\ new.owner = None
              /\ new.state = "WaitingApproval"
           /\ LET new == [row EXCEPT !.state = "WaitingApproval",
                                     !.expiry = Ttl, !.err = "none"] IN
              /\ Moves(row, new) /\ new.owner = row.owner
              /\ new.attempt = row.attempt
              /\ new.state = "WaitingApproval"
<1> DEFINE a == Parked(row, "WaitingApproval", c)
           b == [row EXCEPT !.state = "WaitingApproval", !.expiry = Ttl,
                            !.err = "none"]
<1>1. /\ a \in RunRow /\ a.owner = None /\ a.state = "WaitingApproval"
      /\ a.ckpt = c
  BY DEF Parked, RunRow, States, ErrorCodes
<1>2. /\ b \in RunRow /\ b.owner = row.owner /\ b.attempt = row.attempt
      /\ b.state = "WaitingApproval" /\ b.ckpt = row.ckpt
  BY TicksFacts DEF RunRow, States, ErrorCodes
<1> HIDE DEF a, b
<1>3. Moves(row, a) /\ Moves(row, b)
  BY <1>1, <1>2 DEF Moves, Unowned, Closing, Asleep
<1>4. QED
  BY <1>1, <1>2, <1>3 DEF a, b

LEMMA RequestFrame ==
    ASSUME TypeOK, Links, NEW w \in Workers, NEW acked \in BOOLEAN,
           RequestApproval(w, acked)
    PROVE  /\ RowsMove /\ HeldStep({"waiting", "requested", "unsure"})
           /\ OwnerStep /\ RestTypes' /\ ApprovalTyped'
           /\ \A q \in Runs : run'[q].state = "WaitingApproval" =>
                approval'[q] # None
<1> DEFINE r == held[w].lease.run
           a == [state |-> "pending", expiry |-> WaitTtl]
           c == CheckpointOf(w, "parked")
           next == IF held[w].phase = "parking"
                   THEN Parked(run[r], "WaitingApproval", c)
                   ELSE [run[r] EXCEPT !.state = "WaitingApproval",
                                       !.expiry = Ttl, !.err = "none"]
<1>1. PICK P : Fenced(w, P)
  BY DEF RequestApproval, Handing
<1>2. /\ held[w] # None /\ held[w] \in Held /\ r \in Runs
      /\ run[r] \in RunRow /\ run[r].owner = w /\ run[r].attempt \in Nat
  BY <1>1, FencedFacts
<1>3. /\ run[r].state = "Running"
      /\ call' = [call EXCEPT ![r].state = "waiting_approval"]
      /\ approval' = [approval EXCEPT ![r] = a]
      /\ IF acked /\ held[w].phase # "parking" THEN Renew(w, next, "waiting")
         ELSE /\ run' = [run EXCEPT ![r] = next]
              /\ held' = [held EXCEPT ![w].phase =
                            IF acked THEN "requested" ELSE "unsure"]
      /\ UNCHANGED <<binding, session, effects, pass>>
  BY DEF RequestApproval
<1>4. c \in Checkpoint /\ c.kind # "adoption"
  BY <1>2, CheckpointType
<1>5. /\ Moves(run[r], next) /\ next.owner \in {w, None}
      /\ next.state = "WaitingApproval"
      /\ held[w].phase # "parking" =>
           next.owner = w /\ next.attempt \in Nat
  <2> HIDE DEF c
  <2>1. QED
    BY <1>2, <1>3, <1>4, AskedRow
<1> HIDE DEF next, c
<1>6. run' = [run EXCEPT ![r] = next]
  BY <1>3 DEF Renew
<1>7. RowsMove
  BY <1>2, <1>5, <1>6, RowsAlone
<1>8. OwnerStep
  BY <1>2, <1>5, <1>6 DEF OwnerStep, TypeOK, ParkingTypeOK
<1>9. HeldStep({"waiting", "requested", "unsure"})
  <2>1. CASE acked /\ held[w].phase # "parking"
    <3>1. next \in RunRow /\ next.state # "Absent"
      BY <1>5 DEF Moves
    <3>2. HeldStep({"waiting"})
      BY <1>1, <1>3, <1>5, <2>1, <3>1, Renewal DEF Phases
    <3>3. QED
      BY <3>2, MorePlaces
  <2>2. CASE ~(acked /\ held[w].phase # "parking")
    <3> DEFINE p == IF acked THEN "requested" ELSE "unsure"
    <3>1. p \in Phases /\ p \in {"waiting", "requested", "unsure"}
      BY DEF Phases
    <3>2. held' = [held EXCEPT ![w].phase = p]
      BY <1>3, <2>2
    <3> HIDE DEF p
    <3>3. HeldStep({p})
      BY <1>2, <3>1, <3>2, NextPlace
    <3>4. QED
      BY <3>1, <3>3, MorePlaces
  <2>3. QED
    BY <2>1, <2>2
<1>10. a \in Approval
  BY TicksFacts DEF Approval, ApprovalStates
<1> HIDE DEF a
<1>11. ApprovalTyped'
  BY <1>3, <1>10 DEF ApprovalTyped, TypeOK, ApprovalTypeOK
<1>12. RestTypes'
  BY <1>2, <1>3 DEF RestTypes, TypeOK, ParkingTypeOK, Call
<1>13. ASSUME NEW q \in Runs, run'[q].state = "WaitingApproval"
       PROVE  approval'[q] # None
  <2>1. CASE q = r
    BY <1>2, <1>3, <1>10, <2>1, ApprovalNoneAssumption
       DEF TypeOK, ApprovalTypeOK
  <2>2. CASE q # r
    BY <1>2, <1>3, <1>6, <1>13, <2>2
       DEF TypeOK, ApprovalTypeOK, ParkingTypeOK, Links, RowLinks
  <2>3. QED
    BY <2>1, <2>2
<1>14. QED
  BY <1>7, <1>8, <1>9, <1>11, <1>12, <1>13

(* An approval's new state.                                                *)
LEMMA StateWritten ==
    ASSUME TypeOK, NEW r \in Runs, approval[r] # None, NEW s \in ApprovalStates
    PROVE  /\ [approval EXCEPT ![r].state = s] \in [Runs -> Approval \cup {None}]
           /\ [approval EXCEPT ![r].state = s][r] # None
           /\ [approval EXCEPT ![r].state = s][r].state = s
           /\ \A q \in Runs \ {r} : [approval EXCEPT ![r].state = s][q] =
                                    approval[q]
<1>1. approval[r] \in Approval /\ approval \in [Runs -> Approval \cup {None}]
  BY DEF TypeOK, ApprovalTypeOK
<1>2. [approval[r] EXCEPT !.state = s] \in Approval
      /\ [approval[r] EXCEPT !.state = s].state = s
  BY <1>1 DEF Approval
<1>3. QED
  BY <1>1, <1>2, ApprovalNoneAssumption

LEMMA ExpiredType ==
    ASSUME TypeOK, NEW S \in SUBSET Runs, \A r \in S : approval[r] # None
    PROVE  /\ ExpiredIn(S) \in [Runs -> Approval \cup {None}]
           /\ \A q \in Runs : approval[q] # None => ExpiredIn(S)[q] # None
           /\ \A q \in Runs : q \notin S => ExpiredIn(S)[q] = approval[q]
           /\ \A q \in S : ExpiredIn(S)[q].state \in {approval[q].state, "expired"}
<1>1. ASSUME NEW q \in S
      PROVE  /\ [approval[q] EXCEPT !.state = "expired"] \in Approval
             /\ [approval[q] EXCEPT !.state = "expired"].state = "expired"
  <2>1. approval[q] \in Approval
    BY DEF TypeOK, ApprovalTypeOK
  <2>2. QED
    BY <2>1 DEF Approval, ApprovalStates
<1>2. approval \in [Runs -> Approval \cup {None}]
  BY DEF TypeOK, ApprovalTypeOK
<1>3. QED
  BY <1>1, <1>2, ApprovalNoneAssumption DEF ExpiredIn

(* What every step of the approvals but the request shows.                 *)
ApprovalsGrow == \A q \in Runs : approval[q] # None => approval'[q] # None
Approved(P) == Frame(P) /\ RestTypes' /\ ApprovalTyped' /\ ApprovalsGrow

LEMMA DecideFrame ==
    ASSUME TypeOK, Links, NEW r \in Runs, NEW s \in ApprovalStates,
           Decide(r, s)
    PROVE  Approved({})
<1>1. /\ approval[r] # None /\ approval' = [approval EXCEPT ![r].state = s]
      /\ UNCHANGED <<parkingVars, effects, pass>>
  BY DEF Decide, Is
<1>2. Frame({})
  BY <1>1, NoRow, NoWorker DEF Frame, parkingVars
<1>3. RestTypes'
  BY <1>1 DEF RestTypes, TypeOK, ParkingTypeOK, parkingVars
<1>4. ApprovalTyped' /\ ApprovalsGrow
  BY <1>1, StateWritten DEF ApprovalTyped, ApprovalsGrow, TypeOK, ApprovalTypeOK
<1>5. QED
  BY <1>2, <1>3, <1>4 DEF Approved

LEMMA ExpireFrame ==
    ASSUME TypeOK, Links, ExpireApproved
    PROVE  Approved({})
<1> DEFINE S == {r \in Runs : Is(r, {"approved"})}
<1>1. approval' = ExpiredIn(S) /\ UNCHANGED <<parkingVars, effects, pass>>
  BY DEF ExpireApproved
<1>2. S \in SUBSET Runs /\ \A r \in S : approval[r] # None
  BY DEF Is
<1> HIDE DEF S
<1>3. Frame({})
  BY <1>1, NoRow, NoWorker DEF Frame, parkingVars
<1>4. RestTypes'
  BY <1>1 DEF RestTypes, TypeOK, ParkingTypeOK, parkingVars
<1>5. ApprovalTyped' /\ ApprovalsGrow
  BY <1>1, <1>2, ExpiredType DEF ApprovalTyped, ApprovalsGrow, TypeOK, ApprovalTypeOK
<1>6. QED
  BY <1>3, <1>4, <1>5 DEF Approved

LEMMA ResumedRow ==
    ASSUME NEW row \in RunRow, NEW w \in Workers, row.state = "WaitingApproval"
    PROVE  LET new == Resumed(row, w) IN
           /\ Fits(row, new) /\ new.owner = w /\ new.attempt \in Nat
           /\ new.gen \in Nat /\ new.state = "WaitingTool"
<1> DEFINE g == IF row.attempt = None THEN row.gen + 1 ELSE row.gen
           a == IF row.attempt = None THEN row.gen + 1 ELSE row.attempt
           new == [row EXCEPT !.state = "WaitingTool", !.owner = w,
                              !.expiry = Ttl, !.err = "other", !.gen = g,
                              !.attempt = a]
<1>1. g \in Nat /\ a \in Nat
  BY DEF RunRow
<1>2. new = Resumed(row, w)
  BY DEF Resumed
<1> HIDE DEF g, a
<1>3. /\ new \in RunRow /\ new.owner = w /\ new.attempt = a /\ new.gen = g
      /\ new.state = "WaitingTool" /\ new.ckpt = row.ckpt
  BY <1>1, TicksFacts DEF RunRow, States, ErrorCodes
<1> HIDE DEF new
<1>4. Fits(row, new)
  BY <1>3 DEF Fits, Moves, Unowned, Closing, Asleep
<1>5. QED
  BY <1>1, <1>2, <1>3, <1>4

LEMMA ClaimApprovedFrame ==
    ASSUME TypeOK, Links, NEW w \in Workers, NEW r \in Runs,
           NEW earlier \in SUBSET (Runs \ {r}), ClaimApproved(w, r, earlier)
    PROVE  Approved({})
<1> DEFINE row == Resumed(run[r], w)
           h == Holding(r, row, "resumed")
           e == ExpiredIn(earlier)
<1>1. /\ held \in [Workers -> Held \cup {None}] /\ run \in [Runs -> RunRow]
      /\ held[w] = None /\ run[r].state = "WaitingApproval"
      /\ run' = [run EXCEPT ![r] = row] /\ held' = [held EXCEPT ![w] = h]
      /\ call' = [call EXCEPT ![r].gen = row.gen]
      /\ approval' = [e EXCEPT ![r].state = "resume_claimed"]
      /\ approval[r] # None /\ \A q \in earlier : approval[q] # None
      /\ UNCHANGED <<binding, session, effects, pass>>
  BY DEF ClaimApproved, TypeOK, ParkingTypeOK, Linked, Is
<1>2. /\ Fits(run[r], row) /\ row.owner = w /\ row.attempt \in Nat
      /\ row.gen \in Nat /\ row.state = "WaitingTool"
  BY <1>1, ResumedRow
<1>3. row \in RunRow /\ row.state # "Absent"
  BY <1>2 DEF Fits, Moves
<1>4. h \in Held /\ h.lease.run = r /\ h.phase = "resumed" /\ h.pos = 0
  BY <1>2, <1>3, HoldingType DEF Phases
<1> HIDE DEF row, h
<1>5. RowsFit
  BY <1>1, <1>2, OneRow
<1>6. HasClaimed(w) /\ held'[w] = h
  BY <1>1, <1>4 DEF HasClaimed
<1>7. HeldStep({})
  <2>1. held' \in [Workers -> Held \cup {None}]
    BY <1>1, <1>4
  <2>2. ASSUME NEW u \in Workers \ {w}, held'[u] # None PROVE StaysAt(u) /\ Remembers(u)
    <3>1. held'[u] = held[u]
      BY <1>1
    <3>2. QED
      BY <2>2, <3>1 DEF StaysAt, Remembers
  <2>3. QED
    BY <1>4, <1>6, <2>1, <2>2 DEF HeldStep, Remembers
<1>8. OwnerStep
  BY <1>1, <1>2, <1>4, <1>6 DEF OwnerStep
<1>9. RestTypes'
  BY <1>1, <1>2 DEF RestTypes, TypeOK, ParkingTypeOK, Call
<1>10. /\ e \in [Runs -> Approval \cup {None}] /\ e[r] = approval[r]
       /\ \A q \in Runs : approval[q] # None => e[q] # None
  BY <1>1, ExpiredType
<1> HIDE DEF e
<1>11. [e[r] EXCEPT !.state = "resume_claimed"] \in Approval
  BY <1>1, <1>10 DEF Approval, ApprovalStates
<1>12. ApprovalTyped' /\ ApprovalsGrow
  BY <1>1, <1>10, <1>11, ApprovalNoneAssumption
     DEF ApprovalTyped, ApprovalsGrow, TypeOK, ApprovalTypeOK
<1>13. QED
  BY <1>5, <1>7, <1>8, <1>9, <1>12 DEF Approved, Frame

(* Steps that leave the approvals as they are.                             *)
LEMMA ApprovalsAlone ==
    ASSUME TypeOK, approval' = approval, pass' = pass, effects' = effects
    PROVE  ApprovalTyped' /\ ApprovalsGrow
  BY DEF ApprovalTyped, ApprovalsGrow, TypeOK, ApprovalTypeOK

LEMMA ReadFrame ==
    ASSUME TypeOK, Links, NEW w \in Workers, ReadApproval(w)
    PROVE  Approved({"authorised"})
<1> DEFINE r == held[w].lease.run
           h == [held[w] EXCEPT !.phase = "authorised",
                                !.seen = approval[r].state]
<1>1. /\ held[w] # None /\ held[w] \in Held /\ held' = [held EXCEPT ![w] = h]
      /\ approval[r].state \in {"approved", "resume_claimed"}
      /\ UNCHANGED <<run, call, binding, session, approvalVars>>
  BY DEF ReadApproval, Is, TypeOK, ParkingTypeOK
<1>2. /\ h \in Held /\ h.lease.run = held[w].lease.run
      /\ h.phase = "authorised" /\ h.pos = held[w].pos
  BY <1>1 DEF Held, Phases
<1> HIDE DEF h
<1>3. HeldStep({"authorised"})
  BY <1>1, <1>2, OneWorker
<1>4. QED
  BY <1>1, <1>3, NoRow, ApprovalsAlone
     DEF Approved, Frame, RestTypes, TypeOK, ParkingTypeOK, approvalVars

LEMMA ConsumeFrame ==
    ASSUME TypeOK, Links, NEW w \in Workers, ConsumeApproval(w)
    PROVE  Approved({"consumed"})
<1> DEFINE r == held[w].lease.run
           old == run[r]
           row == [old EXCEPT !.state = "Running", !.expiry = Ttl,
                              !.err = "none"]
<1>1. /\ Fenced(w, {"authorised"}) /\ approval[r] # None
      /\ approval' = [approval EXCEPT ![r].state = "consumed"]
      /\ call' = [call EXCEPT ![r].state = "executing"]
      /\ Renew(w, row, "consumed")
      /\ UNCHANGED <<binding, session, effects, pass>>
  BY DEF ConsumeApproval, Is
<1>2. r \in Runs /\ old \in RunRow /\ Renews(old, row)
  BY <1>1, FencedFacts, TouchedRow
<1>3. "consumed" \in Phases /\ "consumed" \in ApprovalStates
  BY DEF Phases, ApprovalStates
<1> HIDE DEF row
<1>4. Frame({"consumed"})
  BY <1>1, <1>2, <1>3, RenewStep DEF Frame
<1>5. ApprovalTyped' /\ ApprovalsGrow
  <2>1. /\ approval' \in [Runs -> Approval \cup {None}] /\ approval'[r] # None
        /\ \A q \in Runs \ {r} : approval'[q] = approval[q]
    BY <1>1, <1>2, <1>3, StateWritten
  <2>2. QED
    BY <1>1, <2>1 DEF ApprovalTyped, ApprovalsGrow, TypeOK, ApprovalTypeOK
<1>6. RestTypes'
  BY <1>1 DEF RestTypes, TypeOK, ParkingTypeOK, Call
<1>7. QED
  BY <1>4, <1>5, <1>6 DEF Approved

LEMMA ExecuteFrame ==
    ASSUME TypeOK, Links, NEW w \in Workers, NEW ran \in BOOLEAN,
           NEW p \in Phases, ExecuteTool(w, ran, p)
    PROVE  Approved({"executed", "failed"})
<1>1. /\ held[w] # None /\ p \in {"executed", "failed"}
      /\ held' = [held EXCEPT ![w].phase = p] /\ run' = run
      /\ UNCHANGED <<call, binding, session, approval, pass>>
  BY DEF ExecuteTool
<1>2. Frame({"executed", "failed"})
  BY <1>1, PlaceFrame, MorePlaces DEF Frame
<1>3. effects' \in [Runs -> Nat]
  <2>1. held[w].lease.run \in Runs /\ effects \in [Runs -> Nat]
    BY <1>1 DEF TypeOK, ParkingTypeOK, ApprovalTypeOK, Held, AiRunLease
  <2>2. CASE ran
    BY <2>1, <2>2 DEF ExecuteTool
  <2>3. CASE ~ran
    BY <2>1, <2>3 DEF ExecuteTool
  <2>4. QED
    BY <2>2, <2>3
<1>4. QED
  BY <1>1, <1>2, <1>3
     DEF Approved, RestTypes, ApprovalTyped, ApprovalsGrow, TypeOK,
         ParkingTypeOK, ApprovalTypeOK

LEMMA ToolFrame ==
    ASSUME TypeOK, Links, NEW w \in Workers,
           FinishToolCall(w) \/ PersistToolBatch(w) \/ ConsumeBatch(w)
    PROVE  Approved({"done", "batched", "adopted"})
<1> DEFINE r == held[w].lease.run
           c == CheckpointOf(w, "batch")
<1>1. UNCHANGED <<binding, session, approvalVars>>
  BY DEF FinishToolCall, PersistToolBatch, ConsumeBatch
<1>2. ApprovalTyped' /\ ApprovalsGrow
  BY <1>1, ApprovalsAlone DEF approvalVars
<1>3. CASE FinishToolCall(w)
  <2>1. /\ Fenced(w, {"executed"})
        /\ Renew(w, [run[r] EXCEPT !.expiry = Ttl], "done")
        /\ call' = [call EXCEPT ![r].state = "completed"]
    BY <1>3 DEF FinishToolCall
  <2>2. Frame({"done"})
    BY <2>1, TouchStep DEF Phases
  <2>3. RestTypes'
    BY <1>1, <2>1 DEF RestTypes, TypeOK, ParkingTypeOK, Call
  <2>4. QED
    BY <1>2, <2>2, <2>3, MorePlaces DEF Approved, Frame
<1>4. CASE PersistToolBatch(w)
  <2>1. /\ Fenced(w, {"done"}) /\ call' = call
        /\ Renew(w, [run[r] EXCEPT !.expiry = Ttl, !.ckpt = c], "batched")
    BY <1>4 DEF PersistToolBatch
  <2>2. c \in Checkpoint /\ c.kind # "adoption"
    BY <2>1, FencedFacts, CheckpointType
  <2> HIDE DEF c
  <2>3. Frame({"batched"})
    BY <2>1, <2>2, PointStep DEF Phases
  <2>4. RestTypes'
    BY <1>1, <2>1 DEF RestTypes, TypeOK, ParkingTypeOK
  <2>5. QED
    BY <1>2, <2>3, <2>4, MorePlaces DEF Approved, Frame
<1>5. CASE ConsumeBatch(w)
  <2>1. /\ Fenced(w, {"batched", "adopting"}) /\ call' = call
        /\ Renew(w, [run[r] EXCEPT !.expiry = Ttl, !.ckpt = None], "adopted")
    BY <1>5 DEF ConsumeBatch
  <2>2. Frame({"adopted"})
    BY <2>1, PointStep DEF Phases
  <2>3. RestTypes'
    BY <1>1, <2>1 DEF RestTypes, TypeOK, ParkingTypeOK
  <2>4. QED
    BY <1>2, <2>2, <2>3, MorePlaces DEF Approved, Frame
<1>6. QED
  BY <1>3, <1>4, <1>5

(* The reconciliation pass reads, judges and closes.                       *)
LEMMA LoadFrame ==
    ASSUME TypeOK, Links, NEW r \in Runs, LoadWait(r)
    PROVE  Approved({}) /\ PassLinks'
<1> DEFINE x == [run |-> r, row |-> run[r], call |-> None, seen |-> None,
                 verdict |-> "none"]
<1>1. /\ run[r].state = "WaitingApproval" /\ pass' = x
      /\ UNCHANGED <<parkingVars, approval, effects>>
  BY DEF LoadWait
<1>2. run[r] \in RunRow /\ approval[r] # None
  BY <1>1 DEF TypeOK, ParkingTypeOK, Links, RowLinks
<1>3. x \in Pass /\ x.run = r /\ x.row = run[r] /\ x.verdict = "none"
  BY <1>2 DEF Pass
<1> HIDE DEF x
<1>4. ApprovalTyped' /\ ApprovalsGrow
  BY <1>1, <1>3 DEF ApprovalTyped, ApprovalsGrow, TypeOK, ApprovalTypeOK
<1>5. Frame({}) /\ RestTypes'
  BY <1>1, NoRow, NoWorker
     DEF Frame, RestTypes, TypeOK, ParkingTypeOK, parkingVars
<1>6. PassLinks'
  BY <1>1, <1>2, <1>3 DEF PassLinks
<1>7. QED
  BY <1>4, <1>5, <1>6 DEF Approved

LEMMA JudgeFrame ==
    ASSUME TypeOK, Links, NEW policy \in BOOLEAN, JudgeWait(policy)
    PROVE  Approved({}) /\ PassLinks'
<1> DEFINE r == pass.run
           linked == /\ call[r] = [state |-> "waiting_approval",
                                   gen |-> pass.row.gen]
                     /\ Is(r, {"pending", "approved"} \cup Withdrawn)
           v == IF linked THEN "Cancelled" ELSE "RecoveryRequired"
           x == [pass EXCEPT !.call = call[r], !.seen = approval[r].state,
                             !.verdict = v]
<1>1. /\ pass # None /\ (pass' = None \/ pass' = x)
      /\ UNCHANGED <<parkingVars, approval, effects>>
  BY DEF JudgeWait
<1>2. /\ pass \in Pass /\ r \in Runs /\ call[r] \in Call
      /\ approval[r] \in Approval
      /\ pass.row.state = "WaitingApproval" /\ approval[r] # None
  <2>1. pass \in Pass /\ pass # None
    BY DEF JudgeWait, TypeOK, ApprovalTypeOK
  <2>2. r \in Runs
    BY <2>1 DEF Pass
  <2>3. QED
    BY <2>1, <2>2
       DEF TypeOK, ParkingTypeOK, ApprovalTypeOK, Links, PassLinks
<1>3. approval[r].state \in ApprovalStates
  BY <1>2 DEF Approval
<1>4. v \in {"Cancelled", "RecoveryRequired"}
      /\ (v = "Cancelled" => linked)
  OBVIOUS
<1>5. linked => /\ call[r].state = "waiting_approval"
                /\ approval[r].state \in {"pending", "approved"} \cup Withdrawn
  BY DEF Is
<1> HIDE DEF v, linked
<1>6. /\ x \in Pass /\ x.run = r /\ x.row = pass.row /\ x.call = call[r]
      /\ x.seen = approval[r].state /\ x.verdict = v
  BY <1>2, <1>3, <1>4 DEF Pass
<1> HIDE DEF x
<1>7. ApprovalTyped' /\ ApprovalsGrow
  BY <1>1, <1>6 DEF ApprovalTyped, ApprovalsGrow, TypeOK, ApprovalTypeOK
<1>8. Frame({}) /\ RestTypes'
  BY <1>1, NoRow, NoWorker
     DEF Frame, RestTypes, TypeOK, ParkingTypeOK, parkingVars
<1>9. PassLinks'
  <2> HIDE DEF r
  <2>1. CASE pass' = x
    BY <1>1, <1>2, <1>4, <1>5, <1>6, <2>1 DEF PassLinks
  <2>2. QED
    BY <1>1, <2>1 DEF PassLinks
<1>10. QED
  BY <1>7, <1>8, <1>9 DEF Approved

(* ... or fails, and changes no row.                                       *)
LEMMA FailFrame ==
    ASSUME TypeOK, Links, PassFails \/ PassReturns
    PROVE  Approved({}) /\ PassLinks'
<1> DEFINE x == [pass EXCEPT !.verdict = "error"]
<1>1. /\ pass # None /\ (pass' = None \/ pass' = x)
      /\ UNCHANGED <<parkingVars, approval, effects>>
  BY DEF PassFails, PassReturns
<1>2. /\ pass \in Pass /\ pass.row.state = "WaitingApproval"
      /\ approval[pass.run] # None
  BY <1>1 DEF TypeOK, ApprovalTypeOK, Links, PassLinks
<1>3. /\ x \in Pass /\ x.run = pass.run /\ x.row = pass.row
      /\ x.verdict = "error"
  BY <1>2 DEF Pass
<1> HIDE DEF x
<1>4. ApprovalTyped' /\ ApprovalsGrow
  BY <1>1, <1>3 DEF ApprovalTyped, ApprovalsGrow, TypeOK, ApprovalTypeOK
<1>5. Frame({}) /\ RestTypes'
  BY <1>1, NoRow, NoWorker
     DEF Frame, RestTypes, TypeOK, ParkingTypeOK, parkingVars
<1>6. PassLinks'
  BY <1>1, <1>2, <1>3 DEF PassLinks
<1>7. QED
  BY <1>4, <1>5, <1>6 DEF Approved

LEMMA CloseFrame ==
    ASSUME TypeOK, Links, CloseWait
    PROVE  Approved({}) /\ PassLinks'
<1> DEFINE r == pass.run
           v == pass.verdict
           row == Closed(run[r], v, "other")
<1>1. /\ pass \in Pass /\ pass # None
      /\ v \in {"Cancelled", "RecoveryRequired"}
  BY DEF CloseWait, TypeOK, ApprovalTypeOK
<1>2. r \in Runs /\ v \in {"Cancelled", "RecoveryRequired"}
  BY <1>1 DEF Pass
<1>3. /\ pass' = None /\ UNCHANGED <<held, binding, session, effects>>
      /\ \/ UNCHANGED <<run, call, approval>>
         \/ /\ run[r] = pass.row /\ run' = [run EXCEPT ![r] = row]
            /\ call' = [call EXCEPT ![r].state = "closed"] \/ call' = call
            /\ approval' = [approval EXCEPT ![r].state = "expired"]
                 \/ approval' = approval
  BY DEF CloseWait
<1>4. approval[r] # None /\ pass.row.state = "WaitingApproval"
  BY <1>1 DEF Links, PassLinks
<1>5. run[r] \in RunRow
  BY <1>2 DEF TypeOK, ParkingTypeOK
<1>6. /\ row \in RunRow /\ row.state = v /\ row.owner = None
      /\ row.ckpt = run[r].ckpt
  BY <1>2, <1>5, ClosedRow DEF Closing, ErrorCodes
<1> HIDE DEF row
<1>7. HeldStep({}) /\ PassLinks'
  BY <1>3, NoWorker DEF PassLinks
<1>8. CASE UNCHANGED <<run, call, approval>>
  BY <1>3, <1>7, <1>8, NoRow
     DEF Approved, Frame, RestTypes, ApprovalTyped, ApprovalsGrow, TypeOK,
         ParkingTypeOK, ApprovalTypeOK
<1>9. CASE ~UNCHANGED <<run, call, approval>>
  <2>1. /\ run[r].state = "WaitingApproval" /\ run' = [run EXCEPT ![r] = row]
        /\ call' = [call EXCEPT ![r].state = "closed"] \/ call' = call
        /\ approval' = [approval EXCEPT ![r].state = "expired"]
             \/ approval' = approval
    BY <1>3, <1>4, <1>9
  <2>2. Fits(run[r], row)
    BY <1>2, <1>6, <2>1 DEF Fits, Moves, Unowned, Closing, Asleep
  <2>3. RowsFit
    BY <1>2, <2>1, <2>2, OneRow
  <2>4. OwnerStep
    BY <1>2, <1>6, <2>1 DEF OwnerStep, TypeOK, ParkingTypeOK
  <2>5. RestTypes'
    BY <1>2, <1>3, <2>1 DEF RestTypes, TypeOK, ParkingTypeOK, Call
  <2>6. /\ approval' \in [Runs -> Approval \cup {None}]
        /\ ApprovalsGrow
    <3>1. "expired" \in ApprovalStates
      BY DEF ApprovalStates
    <3>2. QED
      BY <1>2, <1>4, <2>1, <3>1, StateWritten
         DEF ApprovalsGrow, TypeOK, ApprovalTypeOK
  <2>7. QED
    BY <1>3, <1>7, <2>3, <2>4, <2>5, <2>6
       DEF Approved, Frame, ApprovalTyped, TypeOK, ApprovalTypeOK
<1>10. QED
  BY <1>8, <1>9

LEMMA ApprovingFrame ==
    ASSUME TypeOK, Links, Approving
    PROVE  /\ RowsMove /\ HeldStep(ApprovalPlaces) /\ OwnerStep
           /\ RestTypes' /\ ApprovalTyped' /\ ApprovalsGrow
           /\ \A q \in Runs : run'[q].state = "WaitingApproval" =>
                approval'[q] # None
           /\ PassLinks'
           /\ UNCHANGED <<subscriptionVars, backgroundVars>>
<1>1. ASSUME NEW P, Approved(P), P \subseteq ApprovalPlaces
      PROVE  /\ RowsMove /\ HeldStep(ApprovalPlaces) /\ OwnerStep
             /\ RestTypes' /\ ApprovalTyped' /\ ApprovalsGrow
             /\ \A q \in Runs : run'[q].state = "WaitingApproval" =>
                  approval'[q] # None
             /\ pass' = pass => PassLinks'
  <2>1. RowsMove
    BY <1>1 DEF Approved, Frame, RowsFit, RowsMove, Fits
  <2>2. HeldStep(ApprovalPlaces) /\ OwnerStep /\ RestTypes' /\ ApprovalTyped'
        /\ ApprovalsGrow
    BY <1>1, MorePlaces DEF Approved, Frame
  <2>3. ASSUME NEW q \in Runs, run'[q].state = "WaitingApproval"
        PROVE  approval'[q] # None
    BY <1>1, <2>3 DEF Approved, Frame, RowsFit, Fits, ApprovalsGrow, Links,
                      RowLinks
  <2>4. pass' = pass => PassLinks'
    BY <2>2 DEF Links, PassLinks, ApprovalsGrow, TypeOK, ApprovalTypeOK, Pass
  <2>5. QED
    BY <2>1, <2>2, <2>3, <2>4
<1>2. {} \subseteq ApprovalPlaces
  OBVIOUS
<1>3. ASSUME NEW w \in Workers, ApprovalWorker(w)
      PROVE  \/ \E acked \in BOOLEAN : RequestApproval(w, acked)
             \/ \E P \in SUBSET ApprovalPlaces : Approved(P) /\ pass' = pass
  <2>1. CASE \E r \in Runs : \E earlier \in SUBSET (Runs \ {r}) :
               ClaimApproved(w, r, earlier)
    BY <1>2, <2>1, ClaimApprovedFrame DEF ClaimApproved
  <2>2. CASE ReadApproval(w)
    BY <2>2, ReadFrame DEF ReadApproval, approvalVars, ApprovalPlaces
  <2>3. CASE ConsumeApproval(w)
    BY <2>3, ConsumeFrame DEF ConsumeApproval, ApprovalPlaces
  <2>4. CASE \E ran \in BOOLEAN, p \in Phases : ExecuteTool(w, ran, p)
    BY <2>4, ExecuteFrame DEF ExecuteTool, ApprovalPlaces
  <2>5. CASE FinishToolCall(w) \/ PersistToolBatch(w) \/ ConsumeBatch(w)
    BY <2>5, ToolFrame DEF FinishToolCall, PersistToolBatch, ConsumeBatch,
                           approvalVars, ApprovalPlaces
  <2>6. QED
    BY <1>3, <2>1, <2>2, <2>3, <2>4, <2>5 DEF ApprovalWorker
<1>4. CASE \E w \in Workers, acked \in BOOLEAN : RequestApproval(w, acked)
  <2>1. PICK w \in Workers, acked \in BOOLEAN : RequestApproval(w, acked)
    BY <1>4
  <2>2. /\ RowsMove /\ HeldStep({"waiting", "requested", "unsure"})
        /\ OwnerStep /\ RestTypes' /\ ApprovalTyped'
        /\ \A q \in Runs : run'[q].state = "WaitingApproval" =>
             approval'[q] # None
    BY <2>1, RequestFrame
  <2>3. HeldStep(ApprovalPlaces)
    <3>1. {"waiting", "requested", "unsure"} \subseteq ApprovalPlaces
      BY DEF ApprovalPlaces
    <3>2. QED
      BY <2>2, <3>1, MorePlaces
  <2>4. ApprovalsGrow
    <3>1. held[w].lease.run \in Runs /\ approval[held[w].lease.run] = None
      BY <2>1, FencedFacts DEF RequestApproval, Handing
    <3>2. \A q \in Runs \ {held[w].lease.run} : approval'[q] = approval[q]
      BY <2>1, <3>1 DEF RequestApproval, TypeOK, ApprovalTypeOK
    <3>3. QED
      BY <3>1, <3>2 DEF ApprovalsGrow
  <2>5. PassLinks'
    BY <2>1, <2>4 DEF RequestApproval, Links, PassLinks, ApprovalsGrow,
                      TypeOK, ApprovalTypeOK, Pass
  <2>6. QED
    BY <2>2, <2>3, <2>4, <2>5 DEF Approving
<1>5. CASE \/ \E r \in Runs, s \in ApprovalStates : Decide(r, s)
           \/ ExpireApproved
  <2>1. Approved({}) /\ pass' = pass
    BY <1>5, DecideFrame, ExpireFrame DEF Decide, ExpireApproved
  <2>2. QED
    BY <1>1, <1>2, <2>1 DEF Approving
<1>6. CASE Reconcile
  <2>1. Approved({}) /\ PassLinks'
    BY <1>6, LoadFrame, JudgeFrame, CloseFrame, FailFrame
       DEF Reconcile, PassGoesOn
  <2>2. QED
    BY <1>1, <1>2, <2>1 DEF Approving
<1>7. QED
  BY <1>1, <1>3, <1>4, <1>5, <1>6 DEF Approving

LEMMA ApprovingStep ==
    ASSUME TypeOK, Links, Approving
    PROVE  (TypeOK /\ Links)'
<1>1. /\ RowsMove /\ HeldStep(ApprovalPlaces) /\ OwnerStep
      /\ RestTypes' /\ ApprovalTyped' /\ ApprovalsGrow
      /\ \A q \in Runs : run'[q].state = "WaitingApproval" =>
           approval'[q] # None
      /\ PassLinks'
      /\ UNCHANGED <<subscriptionVars, backgroundVars>>
  BY ApprovingFrame
<1>2. ASSUME NEW r \in Runs PROVE RowLinks(r)'
  <2>1. RowLinks(r) /\ Moves(run[r], run'[r])
    BY <1>1 DEF Links, RowsMove
  <2>2. QED
    BY <1>1, <2>1 DEF RowLinks, Moves, subscriptionVars
<1>3. ParkingTypeOK'
  BY <1>1, ParkingTyped DEF RowsMove
<1>4. QED
  BY <1>1, <1>2, <1>3
     DEF TypeOK, Links, SubLinks, PollLinks, ApprovalTyped, ApprovalTypeOK,
         SubscriptionTypeOK, BackgroundTypeOK, subscriptionVars,
         backgroundVars, Sub

-----------------------------------------------------------------------------
(* The subscription waits.                                                 *)
SubscriptionPlaces == {"captured", "unsure", "requested", "adopted"}

(* How a step of one kind of wait changes a row: it leaves the runs in the *)
(* states S alone.                                                         *)
Changes(old, new, S) ==
    /\ new \in RunRow
    /\ new.state # "Absent"
    /\ new.state \in Unowned => new.owner = None
    /\ new.state = "WaitingApproval" => old.state = "WaitingApproval"
    /\ new.state # old.state =>
         old.state \notin Closing \cup S /\ new.state \notin S
RowsChange(S) ==
    run' \in [Runs -> RunRow] /\ \A q \in Runs : Changes(run[q], run'[q], S)

(* An outcome's checkpoint comes with its waiter and its adoption.         *)
AdoptionLinks ==
    \A r \in Runs : (run[r].ckpt # None /\ run[r].ckpt.kind = "adoption") =>
        waiter[r] # None /\ adoption[r] # None
WaitersGrow ==
    \A q \in Runs : /\ waiter[q] # None => waiter'[q] # None
                    /\ adoption[q] # None => adoption'[q] # None
Subscribed(P) ==
    /\ RowsChange({"WaitingProvider"}) /\ HeldStep(P) /\ OwnerStep
    /\ RestTypes' /\ SubscriptionTypeOK' /\ WaitersGrow /\ AdoptionLinks'
    /\ PollLinks'

LEMMA FitsChange ==
    ASSUME RowsFit, NEW S, S \subseteq Asleep
    PROVE  RowsChange(S)
  BY DEF RowsFit, RowsChange, Fits, Moves, Changes

LEMMA OneChange ==
    ASSUME TypeOK, Links, NEW r \in Runs, NEW row, NEW S,
           run' = [run EXCEPT ![r] = row], Changes(run[r], row, S)
    PROVE  RowsChange(S)
<1>1. \A q \in Runs : Changes(run[q], run[q], S)
  BY DEF Changes, RowLinks, Links, TypeOK, ParkingTypeOK
<1>2. run \in [Runs -> RunRow] /\ row \in RunRow
  BY DEF TypeOK, ParkingTypeOK, Changes
<1>3. QED
  BY <1>1, <1>2 DEF RowsChange

(* Links that a step keeps when no outcome appears.                        *)
LEMMA NoOutcome ==
    ASSUME TypeOK, Links, WaitersGrow,
           \A q \in Runs : run'[q].ckpt # None =>
             run'[q].ckpt = run[q].ckpt \/ run'[q].ckpt.kind # "adoption"
    PROVE  AdoptionLinks'
  BY DEF AdoptionLinks, WaitersGrow, Links, RowLinks

LEMMA PollersKept ==
    ASSUME TypeOK, Links, WaitersGrow,
           \A p \in Pollers : poller'[p] # None =>
             poller[p] # None /\ poller'[p].run = poller[p].run
    PROVE  PollLinks'
<1>1. \A p \in Pollers : poller[p] # None =>
        poller[p].run \in Runs /\ waiter[poller[p].run] # None
  BY DEF TypeOK, SubscriptionTypeOK, Poller, Links, PollLinks
<1>2. QED
  BY <1>1 DEF PollLinks, WaitersGrow

LEMMA WaitersAlone ==
    ASSUME TypeOK, Links, waiter' = waiter, adoption' = adoption
    PROVE  WaitersGrow
  BY DEF WaitersGrow

LEMMA CaptureFrame ==
    ASSUME TypeOK, Links, NEW w \in Workers, CaptureSource(w)
    PROVE  Subscribed({"captured"})
<1> DEFINE h == [held[w] EXCEPT !.phase = "captured", !.pos = Len(log)]
<1>1. /\ held[w] # None /\ held[w] \in Held /\ held' = [held EXCEPT ![w] = h]
      /\ UNCHANGED <<run, call, binding, session, subscriptionVars>>
  <2>1. held[w] # None /\ held[w] \in Held
    BY FencedFacts DEF CaptureSource
  <2>2. QED
    BY <2>1 DEF CaptureSource
<1>2. Len(log) \in Nat
  BY DEF TypeOK, SubscriptionTypeOK
<1>3. /\ h \in Held /\ h.lease.run = held[w].lease.run
      /\ h.phase = "captured" /\ h.pos = Len(log)
  BY <1>1, <1>2 DEF Held, Phases
<1> HIDE DEF h
<1>4. HeldStep({"captured"})
  BY <1>1, <1>3, OneWorker
<1>5. RowsChange({"WaitingProvider"}) /\ OwnerStep
  BY <1>1, NoRow, FitsChange DEF Asleep
<1>6. WaitersGrow
  BY <1>1, WaitersAlone DEF subscriptionVars
<1>7. AdoptionLinks' /\ PollLinks'
  BY <1>1, <1>6, NoOutcome, PollersKept DEF subscriptionVars
<1>8. RestTypes' /\ SubscriptionTypeOK'
  BY <1>1 DEF RestTypes, SubscriptionTypeOK, TypeOK, ParkingTypeOK,
              subscriptionVars
<1>9. QED
  BY <1>4, <1>5, <1>6, <1>7, <1>8 DEF Subscribed

LEMMA ParkedRow ==
    ASSUME NEW row \in RunRow, row.state = "Running", NEW c \in Checkpoint,
           c.kind # "adoption"
    PROVE  LET new == Parked(row, "WaitingSubscription", c) IN
           /\ Changes(row, new, {"WaitingProvider"}) /\ new.owner = None
           /\ new.state = "WaitingSubscription" /\ new.ckpt = c
<1> DEFINE new == Parked(row, "WaitingSubscription", c)
<1>1. /\ new \in RunRow /\ new.owner = None
      /\ new.state = "WaitingSubscription" /\ new.ckpt = c
  BY DEF Parked, RunRow, States, ErrorCodes
<1> HIDE DEF new
<1>2. Changes(row, new, {"WaitingProvider"})
  BY <1>1 DEF Changes, Unowned, Closing
<1>3. QED
  BY <1>1, <1>2 DEF new

LEMMA RegisterFrame ==
    ASSUME TypeOK, Links, NEW w \in Workers, NEW acked \in BOOLEAN,
           PersistRegistration(w, acked)
    PROVE  Subscribed({"requested", "unsure"})
<1> DEFINE r == held[w].lease.run
           new == NewWaiter(held[w].pos, held[w].pos)
           c == CheckpointOf(w, "parked")
           row == Parked(run[r], "WaitingSubscription", c)
           k == [state |-> "waiting_subscription", gen |-> held[w].lease.gen]
<1>1. PICK P : Fenced(w, P)
  BY DEF PersistRegistration, Register, Handing
<1>2. /\ held[w] # None /\ held[w] \in Held /\ r \in Runs
      /\ run[r] \in RunRow /\ run[r].owner = w
  BY <1>1, FencedFacts
<1>3. /\ run[r].state = "Running" /\ run' = [run EXCEPT ![r] = row]
      /\ call' = [call EXCEPT ![r] = k]
      /\ waiter' = [waiter EXCEPT ![r] = new]
      /\ held' = IF ~acked THEN [held EXCEPT ![w].phase = "unsure"]
                 ELSE IF held[w].phase = "parking"
                      THEN [held EXCEPT ![w].phase = "requested"]
                 ELSE [held EXCEPT ![w] = None]
      /\ UNCHANGED <<binding, session, log, adoption, poller>>
  BY DEF PersistRegistration, Register
<1>4. c \in Checkpoint /\ c.kind # "adoption"
  BY <1>2, CheckpointType
<1>5. k \in Call
  BY <1>2 DEF Call, Held, AiRunLease
<1>6. new \in Waiter
  BY <1>2, TicksFacts DEF Waiter, NewWaiter, Held
<1> HIDE DEF c, k, new
<1>7. /\ Changes(run[r], row, {"WaitingProvider"}) /\ row.owner = None
      /\ row.ckpt = c
  BY <1>2, <1>3, <1>4, ParkedRow
<1> HIDE DEF row
<1>8. RowsChange({"WaitingProvider"}) /\ OwnerStep
  BY <1>2, <1>3, <1>7, OneChange DEF OwnerStep, TypeOK, ParkingTypeOK
<1>9. HeldStep({"requested", "unsure"})
  <2>1. CASE \E p \in {"requested", "unsure"} :
               held' = [held EXCEPT ![w].phase = p]
    <3>1. PICK p \in {"requested", "unsure"} :
            held' = [held EXCEPT ![w].phase = p]
      BY <2>1
    <3>2. HeldStep({p})
      BY <1>2, <3>1, NextPlace DEF Phases
    <3>3. QED
      BY <3>1, <3>2, MorePlaces
  <2>2. CASE held' = [held EXCEPT ![w] = None]
    BY <1>2, <2>2, OneWorker
  <2>3. QED
    BY <1>3, <2>1, <2>2
<1>10. /\ waiter' \in [Runs -> Waiter \cup {None}] /\ waiter'[r] # None
       /\ \A q \in Runs \ {r} : waiter'[q] = waiter[q]
  BY <1>2, <1>3, <1>6, WaiterNoneAssumption DEF TypeOK, SubscriptionTypeOK
<1>11. WaitersGrow
  BY <1>3, <1>10 DEF WaitersGrow
<1>12. AdoptionLinks'
  <2>1. \A q \in Runs \ {r} : run'[q] = run[q]
    BY <1>3 DEF TypeOK, ParkingTypeOK
  <2>2. run'[r].ckpt = c
    BY <1>2, <1>3, <1>7 DEF TypeOK, ParkingTypeOK
  <2>3. QED
    BY <1>4, <1>11, <2>1, <2>2, NoOutcome
<1>13. PollLinks'
  BY <1>3, <1>11, PollersKept
<1>14. RestTypes' /\ SubscriptionTypeOK'
  BY <1>2, <1>3, <1>5, <1>10
     DEF RestTypes, SubscriptionTypeOK, TypeOK, ParkingTypeOK
<1>15. QED
  BY <1>8, <1>9, <1>11, <1>12, <1>13, <1>14 DEF Subscribed

LEMMA ClaimAdoptionFrame ==
    ASSUME TypeOK, Links, NEW w \in Workers, ClaimAdoption(w)
    PROVE  Subscribed({})
<1> DEFINE r == held[w].lease.run
           a == [adoption[r] EXCEPT !.state = "claimed",
                                    !.gen = held[w].lease.gen]
<1>1. /\ held[w] \in Held /\ r \in Runs /\ held[w] # None
  BY FencedFacts DEF ClaimAdoption
<1>2. /\ run[r].ckpt # None /\ run[r].ckpt.kind = "adoption"
      /\ adoption' = [adoption EXCEPT ![r] = a]
      /\ UNCHANGED <<parkingVars, log, waiter, poller>>
  BY DEF ClaimAdoption
<1>3. adoption[r] # None /\ adoption[r] \in Adoption
  BY <1>1, <1>2 DEF Links, RowLinks, TypeOK, SubscriptionTypeOK
<1>4. a \in Adoption
  BY <1>1, <1>3 DEF Adoption, Held, AiRunLease
<1> HIDE DEF a
<1>5. /\ adoption' \in [Runs -> Adoption \cup {None}] /\ adoption'[r] # None
      /\ \A q \in Runs \ {r} : adoption'[q] = adoption[q]
  BY <1>1, <1>2, <1>4, WaiterNoneAssumption DEF TypeOK, SubscriptionTypeOK
<1>6. WaitersGrow
  BY <1>2, <1>5 DEF WaitersGrow
<1>7. RowsChange({"WaitingProvider"}) /\ OwnerStep /\ HeldStep({})
  BY <1>2, NoRow, FitsChange, NoWorker DEF Asleep, parkingVars
<1>8. AdoptionLinks' /\ PollLinks'
  BY <1>2, <1>6, NoOutcome, PollersKept DEF parkingVars
<1>9. RestTypes' /\ SubscriptionTypeOK'
  BY <1>2, <1>5
     DEF RestTypes, SubscriptionTypeOK, TypeOK, ParkingTypeOK, parkingVars
<1>10. QED
  BY <1>6, <1>7, <1>8, <1>9 DEF Subscribed

LEMMA ConsumeAdoptionFrame ==
    ASSUME TypeOK, Links, NEW w \in Workers, ConsumeWaitAdoption(w)
    PROVE  Subscribed({"adopted"})
<1> DEFINE r == held[w].lease.run
           old == run[r]
           row == [old EXCEPT !.ckpt = None, !.expiry = Ttl]
           a == [adoption[r] EXCEPT !.state = "consumed"]
<1>1. Fenced(w, {"adopting"}) /\ r \in Runs /\ old \in RunRow
  BY FencedFacts DEF ConsumeWaitAdoption
<1>2. /\ old.ckpt # None /\ old.ckpt.kind = "adoption"
      /\ adoption' = [adoption EXCEPT ![r] = a]
      /\ call' = [call EXCEPT ![r].state = "completed"]
      /\ Renew(w, row, "adopted")
      /\ UNCHANGED <<binding, session, log, waiter, poller>>
  BY DEF ConsumeWaitAdoption
<1>3. adoption[r] # None /\ adoption[r] \in Adoption
  BY <1>1, <1>2 DEF Links, RowLinks, TypeOK, SubscriptionTypeOK
<1>4. a \in Adoption
  BY <1>1, <1>3 DEF Adoption
<1> HIDE DEF a
<1>5. row = [old EXCEPT !.expiry = Ttl, !.ckpt = None]
  BY <1>1 DEF RunRow
<1>6. Frame({"adopted"})
  BY <1>1, <1>2, <1>5, PointStep DEF Phases
<1>7. /\ adoption' \in [Runs -> Adoption \cup {None}] /\ adoption'[r] # None
      /\ \A q \in Runs \ {r} : adoption'[q] = adoption[q]
  BY <1>1, <1>2, <1>4, WaiterNoneAssumption DEF TypeOK, SubscriptionTypeOK
<1>8. WaitersGrow
  BY <1>2, <1>7 DEF WaitersGrow
<1>9. RowsChange({"WaitingProvider"}) /\ OwnerStep /\ HeldStep({"adopted"})
  BY <1>6, FitsChange DEF Asleep, Frame
<1>10. AdoptionLinks' /\ PollLinks'
  BY <1>2, <1>6, <1>8, NoOutcome, PollersKept DEF Frame, RowsFit, Fits, Moves
<1>11. RestTypes' /\ SubscriptionTypeOK'
  <2>1. call' \in [Runs -> Call]
    BY <1>1, <1>2 DEF TypeOK, ParkingTypeOK, Call
  <2>2. QED
    BY <1>2, <1>7, <2>1
       DEF RestTypes, SubscriptionTypeOK, TypeOK, ParkingTypeOK
<1>12. QED
  BY <1>8, <1>9, <1>10, <1>11 DEF Subscribed

(* A step that leaves the runs, their calls and their workers alone.       *)
LEMMA ParkingAlone ==
    ASSUME TypeOK, Links, UNCHANGED parkingVars, NEW S, S \subseteq Asleep,
           NEW P
    PROVE  /\ RowsChange(S) /\ HeldStep(P) /\ OwnerStep /\ RestTypes'
           /\ RowsFit
           /\ WaitersGrow => AdoptionLinks'
<1>1. RowsFit /\ OwnerStep /\ HeldStep(P)
  BY NoRow, NoWorker DEF parkingVars
<1>2. RowsChange(S)
  BY <1>1, FitsChange
<1>3. RestTypes'
  BY DEF RestTypes, TypeOK, ParkingTypeOK, parkingVars
<1>4. WaitersGrow => AdoptionLinks'
  BY NoOutcome DEF parkingVars
<1>5. QED
  BY <1>1, <1>2, <1>3, <1>4

LEMMA OneWaiter ==
    ASSUME TypeOK, NEW r \in Runs, NEW wt \in Waiter,
           waiter' = [waiter EXCEPT ![r] = wt]
    PROVE  /\ waiter' \in [Runs -> Waiter \cup {None}]
           /\ waiter'[r] = wt /\ waiter'[r] # None
           /\ \A q \in Runs \ {r} : waiter'[q] = waiter[q]
  BY WaiterNoneAssumption DEF TypeOK, SubscriptionTypeOK

(* A poller goes on with its claim, or gives it up.                        *)
LEMMA OnePoller ==
    ASSUME TypeOK, NEW p \in Pollers, NEW x \in Poller \cup {None},
           poller' = [poller EXCEPT ![p] = x],
           x # None => poller[p] # None /\ x.run = poller[p].run
    PROVE  /\ poller' \in [Pollers -> Poller \cup {None}]
           /\ poller'[p] = x /\ \A u \in Pollers \ {p} : poller'[u] = poller[u]
           /\ \A u \in Pollers : poller'[u] # None =>
                poller[u] # None /\ poller'[u].run = poller[u].run
<1>1. poller \in [Pollers -> Poller \cup {None}]
  BY DEF TypeOK, SubscriptionTypeOK
<1>2. QED
  BY <1>1

LEMMA ReleasedType ==
    ASSUME NEW wt \in Waiter,
           NEW s \in {"waiting", "claimed", "adopted", "closed"}
    PROVE  LET new == Released(wt, s) IN
           /\ new \in Waiter /\ new.state = s /\ new.owner = None
           /\ new.start = wt.start /\ new.cursor = wt.cursor
           /\ new.examined = wt.examined /\ new.expiry = wt.expiry
  BY DEF Released, Waiter

(* What a poller whose claim holds works on.                               *)
LEMMA ClaimFacts ==
    ASSUME TypeOK, Links, NEW p \in Pollers, poller[p] # None
    PROVE  /\ poller[p] \in Poller /\ poller[p].run \in Runs
           /\ waiter[poller[p].run] # None
           /\ waiter[poller[p].run] \in Waiter
<1>1. poller[p] \in Poller
  BY DEF TypeOK, SubscriptionTypeOK
<1>2. poller[p].run \in Runs /\ waiter[poller[p].run] # None
  BY <1>1 DEF Poller, Links, PollLinks
<1>3. QED
  BY <1>1, <1>2 DEF TypeOK, SubscriptionTypeOK

LEMMA PublishFrame ==
    ASSUME TypeOK, Links, NEW matches \in BOOLEAN, Publish(matches)
    PROVE  Subscribed({})
<1>1. /\ log' = Append(log, matches)
      /\ UNCHANGED <<parkingVars, waiter, adoption, poller>>
  BY DEF Publish
<1>2. log \in Seq(BOOLEAN)
  BY DEF TypeOK, SubscriptionTypeOK
<1>3. log' \in Seq(BOOLEAN)
  BY <1>1, <1>2
<1>4. WaitersGrow
  BY <1>1, WaitersAlone
<1>5. PollLinks'
  BY <1>1, <1>4, PollersKept
<1>6. SubscriptionTypeOK'
  BY <1>1, <1>3 DEF TypeOK, SubscriptionTypeOK
<1>7. QED
  BY <1>1, <1>4, <1>5, <1>6, ParkingAlone DEF Subscribed, Asleep

(* Steps of a poller that change its claim and no wait.                    *)
LEMMA PollerFrame ==
    ASSUME TypeOK, Links, NEW p \in Pollers,
           OpenClaim(p) \/ ReceiveEvent(p) \/ PollerCrash(p)
    PROVE  Subscribed({})
<1> DEFINE x == poller[p]
           opened == [x EXCEPT !.opened = TRUE, !.cursor = waiter[x.run].cursor,
                               !.examined = waiter[x.run].examined]
           received == [x EXCEPT !.event = x.cursor + 1]
<1>1. /\ x # None
      /\ UNCHANGED <<parkingVars, log, waiter, adoption>>
  BY DEF OpenClaim, ReceiveEvent, PollerCrash, ClaimHolds
<1>2. x \in Poller /\ x.run \in Runs /\ waiter[x.run] \in Waiter
  BY <1>1, ClaimFacts
<1>3. /\ opened \in Poller /\ received \in Poller
      /\ opened.run = x.run /\ received.run = x.run
  <2>1. x.cursor + 1 \in Nat /\ waiter[x.run].cursor \in Nat
        /\ waiter[x.run].examined \in Nat
    BY <1>2 DEF Poller, Waiter
  <2>2. QED
    BY <1>2, <2>1 DEF Poller
<1>4. PICK new \in {opened, received, None} :
        poller' = [poller EXCEPT ![p] = new]
  BY DEF OpenClaim, ReceiveEvent, PollerCrash
<1> HIDE DEF opened, received, x
<1>5. /\ new \in Poller \cup {None}
      /\ new # None => poller[p] # None /\ new.run = poller[p].run
  BY <1>1, <1>3, <1>4 DEF x
<1>6. /\ poller' \in [Pollers -> Poller \cup {None}]
      /\ \A u \in Pollers : poller'[u] # None =>
           poller[u] # None /\ poller'[u].run = poller[u].run
  BY <1>4, <1>5, OnePoller
<1>7. WaitersGrow
  BY <1>1, WaitersAlone
<1>8. PollLinks'
  BY <1>6, <1>7, PollersKept
<1>9. SubscriptionTypeOK'
  BY <1>1, <1>6 DEF TypeOK, SubscriptionTypeOK
<1>10. QED
  BY <1>1, <1>7, <1>8, <1>9, ParkingAlone DEF Subscribed, Asleep

(* Steps of a poller that give the claim back.                             *)
LEMMA GiveBackFrame ==
    ASSUME TypeOK, Links, NEW p \in Pollers,
           ReleaseClaim(p) \/ AdvanceCursorAndRelease(p)
    PROVE  Subscribed({})
<1> DEFINE r == poller[p].run
           back == Released(waiter[r], "waiting")
           further == [back EXCEPT !.cursor = poller[p].event,
                                   !.examined = @ + 1]
<1>1. /\ poller[p] # None /\ poller' = [poller EXCEPT ![p] = None]
      /\ UNCHANGED <<parkingVars, log, adoption>>
  BY DEF ReleaseClaim, AdvanceCursorAndRelease, ClaimHolds
<1>2. poller[p] \in Poller /\ r \in Runs /\ waiter[r] \in Waiter
  BY <1>1, ClaimFacts
<1>3. back \in Waiter
  BY <1>2, ReleasedType
<1>4. PICK new \in Waiter : waiter' = [waiter EXCEPT ![r] = new]
  <2>1. CASE ReleaseClaim(p)
    <3>1. waiter' = [waiter EXCEPT ![r] = back]
      BY <2>1 DEF ReleaseClaim
    <3>2. QED
      BY <1>3, <3>1
  <2>2. CASE AdvanceCursorAndRelease(p)
    <3>1. poller[p].event # None /\ waiter' = [waiter EXCEPT ![r] = further]
      BY <2>2 DEF AdvanceCursorAndRelease
    <3> HIDE DEF back
    <3>2. poller[p].event \in Nat /\ back.examined + 1 \in Nat
      BY <1>2, <1>3, <3>1 DEF Poller, Waiter
    <3>3. further \in Waiter
      BY <1>3, <3>2 DEF Waiter
    <3>4. QED
      BY <3>1, <3>3
  <2>3. QED
    BY <2>1, <2>2
<1>5. /\ waiter' \in [Runs -> Waiter \cup {None}] /\ waiter'[r] # None
      /\ \A q \in Runs \ {r} : waiter'[q] = waiter[q]
  BY <1>2, <1>4, OneWaiter
<1>6. WaitersGrow
  BY <1>1, <1>5 DEF WaitersGrow
<1>7. /\ poller' \in [Pollers -> Poller \cup {None}]
      /\ \A u \in Pollers : poller'[u] # None =>
           poller[u] # None /\ poller'[u].run = poller[u].run
  BY <1>1, OnePoller
<1>8. PollLinks'
  BY <1>6, <1>7, PollersKept
<1>9. SubscriptionTypeOK'
  BY <1>1, <1>5, <1>7 DEF TypeOK, SubscriptionTypeOK
<1>10. QED
  BY <1>1, <1>6, <1>8, <1>9, ParkingAlone DEF Subscribed, Asleep

LEMMA AdoptionRow ==
    ASSUME NEW row \in RunRow, row.state = "WaitingSubscription",
           row.ckpt # None
    PROVE  LET new == [row EXCEPT !.state = "Queued", !.eligible = 0,
                                  !.err = "adoption_ready",
                                  !.ckpt.kind = "adoption"]
           IN  /\ Changes(row, new, {"WaitingProvider"})
               /\ new.owner = row.owner /\ new.state = "Queued"
               /\ new.ckpt # None
<1> DEFINE c == [row.ckpt EXCEPT !.kind = "adoption"]
           new == [row EXCEPT !.state = "Queued", !.eligible = 0,
                              !.err = "adoption_ready", !.ckpt = c]
<1>1. c \in Checkpoint
  BY DEF RunRow, Checkpoint
<1>2. c # None
  BY <1>1, CheckpointAssumption
<1>3. new = [row EXCEPT !.state = "Queued", !.eligible = 0,
                        !.err = "adoption_ready", !.ckpt.kind = "adoption"]
  OBVIOUS
<1> HIDE DEF c
<1>4. /\ new \in RunRow /\ new.owner = row.owner /\ new.state = "Queued"
      /\ new.ckpt = c
  BY <1>1, TicksFacts DEF RunRow, States, ErrorCodes
<1> HIDE DEF new
<1>5. Changes(row, new, {"WaitingProvider"})
  BY <1>4 DEF Changes, Unowned, Closing
<1>6. QED
  BY <1>2, <1>3, <1>4, <1>5

LEMMA PersistAdoptionFrame ==
    ASSUME TypeOK, Links, NEW p \in Pollers,
           NEW kind \in {"matched", "event_limit", "timeout"},
           PersistAdoption(p, kind)
    PROVE  Subscribed({})
<1> DEFINE r == poller[p].run
           more == IF kind = "timeout" THEN 0 ELSE 1
           back == Released(waiter[r], "adopted")
           wt == [back EXCEPT !.cursor = poller[p].cursor + more,
                              !.examined = @ + more]
           a == [state |-> "queued", kind |-> kind, gen |-> 0]
           row == [run[r] EXCEPT !.state = "Queued", !.eligible = 0,
                                 !.err = "adoption_ready",
                                 !.ckpt.kind = "adoption"]
<1>1. /\ poller[p] # None /\ poller' = [poller EXCEPT ![p] = None]
      /\ run[r].state = "WaitingSubscription" /\ run[r].ckpt # None
      /\ waiter' = [waiter EXCEPT ![r] = wt]
      /\ adoption' = [adoption EXCEPT ![r] = a]
      /\ run' = [run EXCEPT ![r] = row]
      /\ UNCHANGED <<held, call, binding, session, log>>
  <2>1. /\ poller[p] # None
        /\ run[r].state = "WaitingSubscription" /\ run[r].ckpt # None
    BY DEF PersistAdoption, ClaimHolds, WaitGraph
  <2>2. waiter' = [waiter EXCEPT ![r] = wt]
    BY DEF PersistAdoption
  <2>3. run' = [run EXCEPT ![r] = row]
    BY DEF PersistAdoption
  <2>4. QED
    BY <2>1, <2>2, <2>3 DEF PersistAdoption
<1>2. /\ poller[p] \in Poller /\ r \in Runs /\ waiter[r] \in Waiter
      /\ run[r] \in RunRow
  BY <1>1, ClaimFacts DEF TypeOK, ParkingTypeOK
<1>3. back \in Waiter
  BY <1>2, ReleasedType
<1>4. /\ Changes(run[r], row, {"WaitingProvider"})
      /\ row.owner = run[r].owner
  BY <1>1, <1>2, AdoptionRow
<1> HIDE DEF back, row
<1>5. wt \in Waiter
  <2>1. poller[p].cursor + more \in Nat /\ back.examined + more \in Nat
    BY <1>2, <1>3 DEF Poller, Waiter
  <2>2. QED
    BY <1>3, <2>1 DEF Waiter
<1>6. a \in Adoption
  BY DEF Adoption
<1> HIDE DEF wt, a
<1>7. /\ waiter' \in [Runs -> Waiter \cup {None}] /\ waiter'[r] # None
      /\ \A q \in Runs \ {r} : waiter'[q] = waiter[q]
  BY <1>1, <1>2, <1>5, OneWaiter
<1>8. /\ adoption' \in [Runs -> Adoption \cup {None}] /\ adoption'[r] # None
      /\ \A q \in Runs \ {r} : adoption'[q] = adoption[q]
  BY <1>1, <1>2, <1>6, WaiterNoneAssumption DEF TypeOK, SubscriptionTypeOK
<1>9. WaitersGrow
  BY <1>7, <1>8 DEF WaitersGrow
<1>10. AdoptionLinks'
  <2>1. \A q \in Runs \ {r} : run'[q] = run[q]
    BY <1>1 DEF TypeOK, ParkingTypeOK
  <2>2. \A q \in Runs \ {r} : RowLinks(q)
    BY DEF Links
  <2>3. QED
    BY <1>7, <1>8, <2>1, <2>2 DEF AdoptionLinks, RowLinks
<1>11. /\ poller' \in [Pollers -> Poller \cup {None}]
       /\ \A u \in Pollers : poller'[u] # None =>
            poller[u] # None /\ poller'[u].run = poller[u].run
  BY <1>1, OnePoller
<1>12. PollLinks'
  BY <1>9, <1>11, PollersKept
<1>13. RowsChange({"WaitingProvider"}) /\ OwnerStep /\ HeldStep({})
  BY <1>1, <1>2, <1>4, OneChange, NoWorker DEF OwnerStep, TypeOK, ParkingTypeOK
<1>14. RestTypes' /\ SubscriptionTypeOK'
  BY <1>1, <1>7, <1>8, <1>11
     DEF RestTypes, SubscriptionTypeOK, TypeOK, ParkingTypeOK
<1>15. QED
  BY <1>9, <1>10, <1>12, <1>13, <1>14 DEF Subscribed

(* The row of a wait that ends without its outcome.                        *)
LEMMA WaitClosedRow ==
    ASSUME NEW row \in RunRow, row.state \in Asleep, NEW s \in Closing,
           NEW S, S \subseteq Asleep, row.state \notin S, NEW err \in ErrorCodes
    PROVE  /\ Changes(row, Closed(row, s, err), S)
           /\ Closed(row, s, err).owner = None
           /\ Closed(row, s, err).ckpt = row.ckpt
<1>1. /\ Closed(row, s, err) \in RunRow
      /\ Closed(row, s, err).state = s /\ Closed(row, s, err).owner = None
      /\ Closed(row, s, err).ckpt = row.ckpt
  BY ClosedRow
<1>2. s # "Absent" /\ s # "WaitingApproval" /\ s \notin Asleep
      /\ row.state \notin Closing
  BY DEF Closing, Asleep
<1>3. QED
  BY <1>1, <1>2 DEF Changes

LEMMA CloseClaimFrame ==
    ASSUME TypeOK, Links, NEW p \in Pollers, NEW s \in Closing,
           CloseClaim(p, s)
    PROVE  Subscribed({})
<1> DEFINE r == poller[p].run
           wt == Released(waiter[r], "closed")
           row == Closed(run[r], s, "other")
<1>1. /\ poller[p] # None /\ poller' = [poller EXCEPT ![p] = None]
      /\ run[r].state = "WaitingSubscription"
      /\ waiter' = [waiter EXCEPT ![r] = wt]
      /\ call' = [call EXCEPT ![r].state = "closed"]
      /\ run' = [run EXCEPT ![r] = row]
      /\ UNCHANGED <<held, binding, session, log, adoption>>
  BY DEF CloseClaim, ClaimHolds
<1>2. /\ poller[p] \in Poller /\ r \in Runs /\ waiter[r] \in Waiter
      /\ run[r] \in RunRow
  BY <1>1, ClaimFacts DEF TypeOK, ParkingTypeOK
<1>3. wt \in Waiter
  BY <1>2, ReleasedType
<1>4. /\ Changes(run[r], row, {"WaitingProvider"}) /\ row.owner = None
      /\ row.ckpt = run[r].ckpt
  <2>1. /\ run[r].state \in Asleep /\ run[r].state \notin {"WaitingProvider"}
        /\ {"WaitingProvider"} \subseteq Asleep /\ "other" \in ErrorCodes
    BY <1>1 DEF Asleep, ErrorCodes
  <2>2. QED
    BY <1>2, <2>1, WaitClosedRow
<1> HIDE DEF wt, row
<1>5. /\ waiter' \in [Runs -> Waiter \cup {None}] /\ waiter'[r] # None
      /\ \A q \in Runs \ {r} : waiter'[q] = waiter[q]
  BY <1>1, <1>2, <1>3, OneWaiter
<1>6. WaitersGrow
  BY <1>1, <1>5 DEF WaitersGrow
<1>7. AdoptionLinks'
  <2>1. \A q \in Runs : run'[q].ckpt = run[q].ckpt
    BY <1>1, <1>4 DEF TypeOK, ParkingTypeOK
  <2>2. QED
    BY <1>6, <2>1, NoOutcome
<1>8. /\ poller' \in [Pollers -> Poller \cup {None}]
      /\ \A u \in Pollers : poller'[u] # None =>
           poller[u] # None /\ poller'[u].run = poller[u].run
  BY <1>1, OnePoller
<1>9. PollLinks'
  BY <1>6, <1>8, PollersKept
<1>10. RowsChange({"WaitingProvider"}) /\ OwnerStep /\ HeldStep({})
  BY <1>1, <1>2, <1>4, OneChange, NoWorker DEF OwnerStep, TypeOK, ParkingTypeOK
<1>11. RestTypes' /\ SubscriptionTypeOK'
  <2>1. call' \in [Runs -> Call]
    BY <1>1, <1>2 DEF TypeOK, ParkingTypeOK, Call
  <2>2. QED
    BY <1>1, <1>5, <1>8, <2>1
       DEF RestTypes, SubscriptionTypeOK, TypeOK, ParkingTypeOK
<1>12. QED
  BY <1>6, <1>7, <1>9, <1>10, <1>11 DEF Subscribed

LEMMA ClaimWaiterFrame ==
    ASSUME TypeOK, Links, NEW p \in Pollers, NEW next \in Runs \cup {None},
           ClaimWaiter(p, next)
    PROVE  Subscribed({})
<1> DEFINE due == {r \in Runs : Pollable(r)}
           passed == {r \in due : next = None \/ r < next}
           taken == [waiter[next] EXCEPT !.state = "claimed", !.owner = p,
                                         !.claim = PollTtl]
           x == [run |-> next, opened |-> FALSE, cursor |-> 0,
                 examined |-> 0, event |-> None]
<1>1. /\ poller[p] = None
      /\ next # None => next \in due
      /\ run' = [r \in Runs |-> IF r \in passed THEN QuarantinedRun(r)
                                                ELSE run[r]]
      /\ waiter' = [r \in Runs |->
              CASE r \in passed -> Released(waiter[r], "closed")
                [] r = next -> [waiter[r] EXCEPT !.state = "claimed",
                                       !.owner = p, !.claim = PollTtl]
                [] OTHER -> waiter[r]]
      /\ poller' = IF next = None THEN poller ELSE [poller EXCEPT ![p] = x]
      /\ UNCHANGED <<held, call, binding, session, log, adoption>>
  BY DEF ClaimWaiter
<1>2. /\ passed \subseteq Runs /\ due \subseteq Runs
      /\ \A r \in due : waiter[r] # None /\ waiter[r] \in Waiter
  BY DEF Pollable, TypeOK, SubscriptionTypeOK
<1>3. next \notin passed /\ None \notin Runs
  BY RunNoneAssumption DEF Runs
<1>4. passed \subseteq due
  OBVIOUS
<1> HIDE DEF passed, due
<1>5. ASSUME NEW r \in Runs
      PROVE  /\ waiter'[r] \in Waiter \cup {None}
             /\ waiter[r] # None => waiter'[r] # None
  <2>1. CASE r \in passed
    <3>1. waiter'[r] = Released(waiter[r], "closed")
      BY <1>1, <1>3, <2>1
    <3>2. waiter'[r] \in Waiter
      BY <1>2, <1>4, <2>1, <3>1, ReleasedType
    <3>3. QED
      BY <3>2, WaiterNoneAssumption
  <2>2. CASE r = next
    <3>1. waiter'[r] = taken
      BY <1>1, <1>3, <2>2
    <3>2. waiter[next] \in Waiter
      BY <1>1, <1>2, <1>3, <2>2
    <3>3. taken \in Waiter
      BY <3>2, TicksFacts DEF Waiter
    <3>4. QED
      BY <3>1, <3>3, WaiterNoneAssumption
  <2>3. CASE r \notin passed /\ r # next
    BY <1>1, <2>3 DEF TypeOK, SubscriptionTypeOK
  <2>4. QED
    BY <2>1, <2>2, <2>3
<1>6. waiter' \in [Runs -> Waiter \cup {None}] /\ WaitersGrow
  BY <1>1, <1>5 DEF WaitersGrow
<1>7. ASSUME NEW r \in Runs
      PROVE  /\ Changes(run[r], run'[r], {"WaitingProvider"})
             /\ run'[r].owner \in {run[r].owner, None}
             /\ run'[r].ckpt = run[r].ckpt
  <2>1. run[r] \in RunRow
    BY DEF TypeOK, ParkingTypeOK
  <2>2. CASE r \in passed /\ run[r].state = "WaitingSubscription"
    <3>1. run'[r] = Closed(run[r], "RecoveryRequired", "other")
      BY <1>1, <2>2 DEF QuarantinedRun
    <3>2. /\ run[r].state \in Asleep /\ run[r].state \notin {"WaitingProvider"}
          /\ {"WaitingProvider"} \subseteq Asleep /\ "other" \in ErrorCodes
          /\ "RecoveryRequired" \in Closing
      BY <2>2 DEF Asleep, ErrorCodes, Closing
    <3> DEFINE c == Closed(run[r], "RecoveryRequired", "other")
    <3>3. /\ Changes(run[r], c, {"WaitingProvider"})
          /\ c.owner = None /\ c.ckpt = run[r].ckpt
      BY <2>1, <3>2, WaitClosedRow
    <3> HIDE DEF c
    <3>4. QED
      BY <3>1, <3>3 DEF c
  <2>3. CASE ~(r \in passed /\ run[r].state = "WaitingSubscription")
    <3>1. run'[r] = run[r]
      BY <1>1, <2>3 DEF QuarantinedRun
    <3>2. QED
      BY <2>1, <3>1 DEF Changes, Links, RowLinks
  <2>4. QED
    BY <2>2, <2>3
<1>8. RowsChange({"WaitingProvider"}) /\ OwnerStep /\ HeldStep({})
  BY <1>1, <1>7, NoWorker DEF RowsChange, OwnerStep, Changes
<1>9. AdoptionLinks'
  BY <1>6, <1>7, NoOutcome
<1>10. poller' \in [Pollers -> Poller \cup {None}] /\ PollLinks'
  <2>1. CASE next = None
    <3>1. poller' = poller
      BY <1>1, <2>1
    <3>2. QED
      BY <1>6, <3>1, PollersKept DEF TypeOK, SubscriptionTypeOK
  <2>2. CASE next # None
    <3>1. next \in Runs /\ poller' = [poller EXCEPT ![p] = x]
      BY <1>1, <2>2
    <3>2. x \in Poller /\ x.run = next
      BY <3>1 DEF Poller
    <3> HIDE DEF x
    <3>3. poller' \in [Pollers -> Poller \cup {None}]
      BY <3>1, <3>2 DEF TypeOK, SubscriptionTypeOK
    <3>4. waiter'[next] # None
      BY <1>1, <1>2, <1>6, <2>2, <3>1 DEF WaitersGrow
    <3>5. ASSUME NEW u \in Pollers, poller'[u] # None
          PROVE  waiter'[poller'[u].run] # None
      <4>1. CASE u = p
        BY <3>1, <3>2, <3>4, <4>1 DEF TypeOK, SubscriptionTypeOK
      <4>2. CASE u # p
        <5>1. poller'[u] = poller[u]
          BY <3>1, <4>2 DEF TypeOK, SubscriptionTypeOK
        <5>2. QED
          BY <1>6, <3>5, <5>1, ClaimFacts DEF WaitersGrow
      <4>3. QED
        BY <4>1, <4>2
    <3>6. QED
      BY <3>3, <3>5 DEF PollLinks
  <2>3. QED
    BY <2>1, <2>2
<1>11. RestTypes' /\ SubscriptionTypeOK'
  BY <1>1, <1>6, <1>10
     DEF RestTypes, SubscriptionTypeOK, TypeOK, ParkingTypeOK
<1>12. QED
  BY <1>6, <1>8, <1>9, <1>10, <1>11 DEF Subscribed

(* A step of the subscription waits.                                       *)
LEMMA SubscribingFrame ==
    ASSUME TypeOK, Links, Subscribing
    PROVE  Subscribed(SubscriptionPlaces)
           /\ UNCHANGED <<approvalVars, backgroundVars>>
<1>1. ASSUME NEW P, Subscribed(P), P \subseteq SubscriptionPlaces
      PROVE  Subscribed(SubscriptionPlaces)
  BY <1>1, MorePlaces DEF Subscribed
<1>2. /\ {} \subseteq SubscriptionPlaces
      /\ {"captured"} \subseteq SubscriptionPlaces
      /\ {"requested", "unsure"} \subseteq SubscriptionPlaces
      /\ {"adopted"} \subseteq SubscriptionPlaces
  BY DEF SubscriptionPlaces
<1>3. ASSUME NEW w \in Workers, SubscriptionWorker(w)
      PROVE  Subscribed(SubscriptionPlaces)
  <2>1. CASE CaptureSource(w)
    BY <1>1, <1>2, <2>1, CaptureFrame
  <2>2. CASE \E acked \in BOOLEAN : PersistRegistration(w, acked)
    BY <1>1, <1>2, <2>2, RegisterFrame
  <2>3. CASE ClaimAdoption(w)
    BY <1>1, <1>2, <2>3, ClaimAdoptionFrame
  <2>4. CASE ConsumeWaitAdoption(w)
    BY <1>1, <1>2, <2>4, ConsumeAdoptionFrame
  <2>5. QED
    BY <1>3, <2>1, <2>2, <2>3, <2>4 DEF SubscriptionWorker
<1>4. ASSUME NEW p \in Pollers, Poll(p) PROVE Subscribed({})
  <2>1. CASE \E next \in Runs \cup {None} : ClaimWaiter(p, next)
    BY <2>1, ClaimWaiterFrame
  <2>2. CASE OpenClaim(p) \/ ReceiveEvent(p) \/ PollerCrash(p)
    BY <2>2, PollerFrame
  <2>3. CASE ReleaseClaim(p) \/ AdvanceCursorAndRelease(p)
    BY <2>3, GiveBackFrame
  <2>4. CASE \E kind \in {"matched", "event_limit", "timeout"} :
               PersistAdoption(p, kind)
    BY <2>4, PersistAdoptionFrame
  <2>5. CASE \E s \in Closing : CloseClaim(p, s)
    BY <2>5, CloseClaimFrame
  <2>6. QED
    BY <1>4, <2>1, <2>2, <2>3, <2>4, <2>5 DEF Poll
<1>5. QED
  BY <1>1, <1>2, <1>3, <1>4, PublishFrame DEF Subscribing

LEMMA SubscribingStep ==
    ASSUME TypeOK, Links, Subscribing
    PROVE  (TypeOK /\ Links)'
<1>1. Subscribed(SubscriptionPlaces) /\ UNCHANGED <<approvalVars, backgroundVars>>
  BY SubscribingFrame
<1>2. ASSUME NEW r \in Runs PROVE RowLinks(r)'
  <2>1. RowLinks(r) /\ Changes(run[r], run'[r], {"WaitingProvider"})
    BY <1>1 DEF Links, Subscribed, RowsChange
  <2>2. QED
    BY <1>1, <2>1 DEF RowLinks, Changes, approvalVars, Subscribed, AdoptionLinks
<1>3. ParkingTypeOK'
  BY <1>1, ParkingTyped DEF Subscribed, RowsChange
<1>4. QED
  BY <1>1, <1>2, <1>3
     DEF TypeOK, Links, SubLinks, PassLinks, Subscribed, ApprovalTypeOK,
         BackgroundTypeOK, approvalVars, backgroundVars, Sub

-----------------------------------------------------------------------------
(* The background submissions.                                             *)
BackgroundPlaces ==
    {"reserved", "failed", "prepared", "marked", "lost", "accepted"}

(* No outcome of a wait for an event appears.                              *)
NoNewOutcome ==
    \A q \in Runs : run'[q].ckpt # None =>
        run'[q].ckpt = run[q].ckpt \/ run'[q].ckpt.kind # "adoption"
RowsStep(P) ==
    /\ RowsChange({"WaitingSubscription"}) /\ HeldStep(P) /\ OwnerStep
    /\ RestTypes' /\ NoNewOutcome
Backgrounded(P) == RowsStep(P) /\ BackgroundTypeOK' /\ SubLinks'

LEMMA FrameRows ==
    ASSUME TypeOK, Links, NEW P, Frame(P), UNCHANGED <<call, binding, session>>
    PROVE  RowsStep(P)
<1>1. RowsChange({"WaitingSubscription"})
  BY FitsChange DEF Frame, Asleep
<1>2. NoNewOutcome
  BY DEF NoNewOutcome, Frame, RowsFit, Fits, Moves
<1>3. RestTypes'
  BY DEF RestTypes, TypeOK, ParkingTypeOK
<1>4. QED
  BY <1>1, <1>2, <1>3 DEF RowsStep, Frame

LEMMA AloneRows ==
    ASSUME TypeOK, Links, UNCHANGED parkingVars
    PROVE  RowsStep({})
<1>1. Frame({})
  BY NoRow, NoWorker DEF Frame, parkingVars
<1>2. QED
  BY <1>1, FrameRows DEF parkingVars

LEMMA OneSubmission ==
    ASSUME TypeOK, Links, NEW r \in Runs, NEW s \in Submission,
           submission' = [submission EXCEPT ![r] = s],
           s.state \in {"waiting_provider", "reconciling"} =>
             s.next # None /\ s.deadline # None
    PROVE  /\ submission' \in [Runs -> Submission \cup {None}]
           /\ submission'[r] = s
           /\ \A q \in Runs \ {r} : submission'[q] = submission[q]
           /\ SubLinks'
<1>1. /\ submission' \in [Runs -> Submission \cup {None}]
      /\ submission'[r] = s
      /\ \A q \in Runs \ {r} : submission'[q] = submission[q]
  BY DEF TypeOK, BackgroundTypeOK
<1>2. QED
  BY <1>1 DEF Links, SubLinks, Sub

LEMMA SubmissionsAlone ==
    ASSUME TypeOK, Links, submission' = submission
    PROVE  submission' \in [Runs -> Submission \cup {None}] /\ SubLinks'
  BY DEF TypeOK, BackgroundTypeOK, Links, SubLinks, Sub

BudgetStates == {"none", "reserved", "uncertain", "committed", "estimated",
                 "released"}

LEMMA OneBudget ==
    ASSUME TypeOK, NEW r \in Runs, NEW b \in BudgetStates,
           budget' = [budget EXCEPT ![r] = b]
    PROVE  /\ budget' \in [Runs -> BudgetStates] /\ budget'[r] = b
           /\ \A q \in Runs \ {r} : budget'[q] = budget[q]
  BY DEF TypeOK, BackgroundTypeOK, BudgetStates

(* Steps of the submitting worker that move it and its reservation.        *)
LEMMA ReservationFrame ==
    ASSUME TypeOK, Links, NEW w \in Workers,
           \/ ReserveBackground(w) \/ ReleaseUnstarted(w) \/ MarkFailed(w)
           \/ \E acked \in BOOLEAN : MarkUncertain(w, acked)
    PROVE  Backgrounded(BackgroundPlaces)
<1>1. PICK P : Fenced(w, P)
  BY DEF ReserveBackground, ReleaseUnstarted, MarkFailed, MarkUncertain
<1>2. held[w] # None /\ held[w].lease.run \in Runs
  BY <1>1, FencedFacts
<1>3. PICK p \in BackgroundPlaces : held' = [held EXCEPT ![w].phase = p]
  BY DEF ReserveBackground, ReleaseUnstarted, MarkFailed, MarkUncertain,
         BackgroundPlaces
<1>4. PICK b \in BudgetStates :
        budget' = [budget EXCEPT ![held[w].lease.run] = b]
  BY DEF ReserveBackground, ReleaseUnstarted, MarkFailed, MarkUncertain,
         BudgetStates
<1>5. UNCHANGED <<run, call, binding, session, submission, job, receipt,
                  reconciler, sent, charged>>
  BY DEF ReserveBackground, ReleaseUnstarted, MarkFailed, MarkUncertain
<1>6. Frame(BackgroundPlaces)
  <2>1. p \in Phases /\ {p} \subseteq BackgroundPlaces
    BY <1>3 DEF Phases, BackgroundPlaces
  <2>2. Frame({p})
    BY <1>2, <1>3, <1>5, <2>1, PlaceFrame
  <2>3. QED
    BY <2>1, <2>2, MorePlaces DEF Frame
<1>7. RowsStep(BackgroundPlaces)
  BY <1>5, <1>6, FrameRows
<1>8. SubLinks' /\ submission' \in [Runs -> Submission \cup {None}]
  BY <1>5, SubmissionsAlone
<1>9. budget' \in [Runs -> BudgetStates]
  BY <1>2, <1>4, OneBudget
<1>10. BackgroundTypeOK'
  BY <1>5, <1>8, <1>9 DEF BackgroundTypeOK, TypeOK, BudgetStates
<1>11. QED
  BY <1>7, <1>8, <1>10 DEF Backgrounded

LEMMA PrepareFrame ==
    ASSUME TypeOK, Links, NEW w \in Workers, Prepare(w)
    PROVE  Backgrounded({"prepared"})
<1> DEFINE r == held[w].lease.run
           s == [state |-> "prepared", owner |-> None, lease |-> None,
                 next |-> None, deadline |-> None, retries |-> 0]
<1>1. /\ Fenced(w, {"reserved"})
      /\ submission' = [submission EXCEPT ![r] = s]
      /\ Renew(w, [run[r] EXCEPT !.expiry = Ttl], "prepared")
      /\ UNCHANGED <<call, binding, session, job, budget, receipt, reconciler,
                     sent, charged>>
  BY DEF Prepare
<1>2. r \in Runs
  BY <1>1, FencedFacts
<1>3. s \in Submission /\ s.state = "prepared"
  BY DEF Submission
<1> HIDE DEF s
<1>4. submission' \in [Runs -> Submission \cup {None}] /\ SubLinks'
  BY <1>1, <1>2, <1>3, OneSubmission
<1>5. Frame({"prepared"})
  BY <1>1, TouchStep DEF Phases
<1>6. RowsStep({"prepared"})
  BY <1>1, <1>5, FrameRows
<1>7. BackgroundTypeOK'
  BY <1>1, <1>4 DEF BackgroundTypeOK, TypeOK
<1>8. QED
  BY <1>4, <1>6, <1>7 DEF Backgrounded

LEMMA SubmitFrame ==
    ASSUME TypeOK, Links, NEW w \in Workers,
           \/ \E lands, acked \in BOOLEAN : SubmitProvider(w, lands, acked)
           \/ AcceptFailed(w)
    PROVE  Backgrounded({"accepted", "lost"})
<1> DEFINE r == held[w].lease.run
<1>1. /\ held[w] # None
      /\ UNCHANGED <<run, call, binding, session, submission, budget, receipt,
                     reconciler, charged>>
  BY DEF SubmitProvider, AcceptFailed, backgroundVars
<1>2. r \in Runs
  BY <1>1 DEF TypeOK, ParkingTypeOK, Held, AiRunLease
<1>3. PICK p \in {"accepted", "lost"} : held' = [held EXCEPT ![w].phase = p]
  BY DEF SubmitProvider, AcceptFailed
<1>4. Frame({"accepted", "lost"})
  <2>1. p \in Phases /\ {p} \subseteq {"accepted", "lost"}
    BY <1>3 DEF Phases
  <2>2. Frame({p})
    BY <1>1, <1>3, <2>1, PlaceFrame
  <2>3. QED
    BY <2>1, <2>2, MorePlaces DEF Frame
<1>5. RowsStep({"accepted", "lost"})
  BY <1>1, <1>4, FrameRows
<1>6. SubLinks' /\ submission' \in [Runs -> Submission \cup {None}]
  BY <1>1, SubmissionsAlone
<1>7. /\ job' \in [Runs -> {"none", "running"} \cup Terminal]
      /\ sent' \in [Runs -> Nat]
  <2>1. /\ job' = job \/ job' = [job EXCEPT ![r] = "running"]
        /\ sent' = sent \/ sent' = [sent EXCEPT ![r] = @ + 1]
    BY DEF SubmitProvider, AcceptFailed, backgroundVars
  <2>2. QED
    BY <1>2, <2>1 DEF TypeOK, BackgroundTypeOK
<1>8. BackgroundTypeOK'
  BY <1>1, <1>6, <1>7 DEF BackgroundTypeOK, TypeOK
<1>9. QED
  BY <1>5, <1>6, <1>8 DEF Backgrounded

LEMMA AcceptFrame ==
    ASSUME TypeOK, Links, NEW w \in Workers, Accept(w)
    PROVE  Backgrounded({})
<1> DEFINE r == held[w].lease.run
           s == [submission[r] EXCEPT !.state = "waiting_provider",
                                      !.next = 0, !.deadline = WaitTtl]
           row == [run[r] EXCEPT !.state = "WaitingProvider",
                                 !.owner = None, !.expiry = None,
                                 !.eligible = None, !.err = "none"]
<1>1. /\ Fenced(w, {"accepted"}) /\ run[r].state = "Running"
      /\ submission[r] # None
      /\ submission' = [submission EXCEPT ![r] = s]
      /\ run' = [run EXCEPT ![r] = row] /\ held' = [held EXCEPT ![w] = None]
      /\ UNCHANGED <<call, binding, session, job, budget, receipt, reconciler,
                     sent, charged>>
  BY DEF Accept, Leave, Sub
<1>2. /\ held[w] # None /\ r \in Runs /\ run[r] \in RunRow
      /\ submission[r] \in Submission
  BY <1>1, FencedFacts DEF TypeOK, BackgroundTypeOK
<1>3. s \in Submission /\ s.next # None /\ s.deadline # None
  <2>1. 0 \in Ticks /\ WaitTtl \in Ticks /\ None \notin Ticks
    BY TicksFacts
  <2>2. QED
    BY <1>2, <2>1 DEF Submission
<1>4. /\ row \in RunRow /\ row.state = "WaitingProvider" /\ row.owner = None
      /\ row.ckpt = run[r].ckpt
  BY <1>2, ZenonT(40) DEF RunRow, States, ErrorCodes
<1> HIDE DEF s, row
<1>5. submission' \in [Runs -> Submission \cup {None}] /\ SubLinks'
  BY <1>1, <1>2, <1>3, OneSubmission
<1>6. Changes(run[r], row, {"WaitingSubscription"})
  BY <1>1, <1>4 DEF Changes, Closing
<1>7. RowsChange({"WaitingSubscription"})
  BY <1>1, <1>2, <1>6, OneChange
<1>8. HeldStep({})
  BY <1>1, <1>2, OneWorker
<1>9. OwnerStep /\ NoNewOutcome
  BY <1>1, <1>4 DEF OwnerStep, NoNewOutcome, TypeOK, ParkingTypeOK
<1>10. RestTypes' /\ BackgroundTypeOK'
  BY <1>1, <1>5 DEF RestTypes, BackgroundTypeOK, TypeOK, ParkingTypeOK
<1>11. QED
  BY <1>5, <1>7, <1>8, <1>9, <1>10 DEF Backgrounded, RowsStep

LEMMA AmbiguityFrame ==
    ASSUME TypeOK, Links, NEW w \in Workers, CloseAmbiguity(w)
    PROVE  Backgrounded({})
<1> DEFINE r == held[w].lease.run
           s == [submission[r] EXCEPT !.state = "closed"]
<1>1. /\ Fenced(w, {"lost"}) /\ submission[r] # None
      /\ submission' = [submission EXCEPT ![r] = s]
      /\ Leave(w, Closed(run[r], "RecoveryRequired", "other"))
      /\ UNCHANGED <<call, binding, session, job, budget, receipt, reconciler,
                     sent, charged>>
  BY DEF CloseAmbiguity, Sub
<1>2. r \in Runs /\ submission[r] \in Submission
  BY <1>1, FencedFacts DEF TypeOK, BackgroundTypeOK
<1>3. s \in Submission /\ s.state = "closed"
  BY <1>2 DEF Submission
<1> HIDE DEF s
<1>4. submission' \in [Runs -> Submission \cup {None}] /\ SubLinks'
  BY <1>1, <1>2, <1>3, OneSubmission
<1>5. Frame({})
  BY <1>1, LeaveClosed DEF Closing
<1>6. RowsStep({})
  BY <1>1, <1>5, FrameRows
<1>7. BackgroundTypeOK'
  BY <1>1, <1>4 DEF BackgroundTypeOK, TypeOK
<1>8. QED
  BY <1>4, <1>6, <1>7 DEF Backgrounded

LEMMA ProviderFrame ==
    ASSUME TypeOK, Links, NEW r \in Runs,
           \/ \E status \in Terminal : ProviderFinishes(r, status)
           \/ \E status \in Terminal : Webhook(r, status)
           \/ ReclaimBudget(r)
    PROVE  Backgrounded({})
<1>1. UNCHANGED <<parkingVars, submission, reconciler, sent, charged>>
  BY DEF ProviderFinishes, Webhook, ReclaimBudget
<1>2. RowsStep({})
  BY <1>1, AloneRows
<1>3. SubLinks' /\ submission' \in [Runs -> Submission \cup {None}]
  BY <1>1, SubmissionsAlone
<1>4. job' \in [Runs -> {"none", "running"} \cup Terminal]
  BY DEF ProviderFinishes, Webhook, ReclaimBudget, TypeOK, BackgroundTypeOK
<1>5. receipt' \in [Runs -> Receipt \cup {None}]
  <2>1. \A status \in Terminal :
          [state |-> "pending", status |-> status] \in Receipt
    BY DEF Receipt
  <2>2. QED
    BY <2>1 DEF ProviderFinishes, Webhook, ReclaimBudget, TypeOK,
                BackgroundTypeOK
<1>6. budget' \in [Runs -> BudgetStates]
  BY DEF ProviderFinishes, Webhook, ReclaimBudget, TypeOK, BackgroundTypeOK,
         BudgetStates
<1>7. BackgroundTypeOK'
  BY <1>1, <1>3, <1>4, <1>5, <1>6 DEF BackgroundTypeOK, TypeOK, BudgetStates
<1>8. QED
  BY <1>2, <1>3, <1>7 DEF Backgrounded

(* What a reconciler that holds its claim works on.                        *)
LEMMA ReconcilerFacts ==
    ASSUME TypeOK, Links, NEW p \in Reconcilers, reconciler[p] # None
    PROVE  reconciler[p] \in Reconciler /\ reconciler[p].run \in Runs
<1>1. reconciler[p] \in Reconciler
  BY DEF TypeOK, BackgroundTypeOK
<1>2. QED
  BY <1>1 DEF Reconciler

LEMMA ReconcilesFacts ==
    ASSUME TypeOK, Links, NEW p \in Reconcilers, NEW ph, Reconciles(p, ph)
    PROVE  LET r == reconciler[p].run IN
           /\ reconciler[p] # None /\ reconciler[p] \in Reconciler
           /\ r \in Runs /\ submission[r] \in Submission /\ submission[r] # None
           /\ submission[r].state = "reconciling"
           /\ submission[r].next # None /\ submission[r].deadline # None
<1> DEFINE r == reconciler[p].run
<1>1. /\ reconciler[p] # None /\ submission[r] # None
      /\ submission[r].state = "reconciling"
  BY DEF Reconciles, Sub
<1>2. r \in Runs /\ reconciler[p] \in Reconciler
  BY <1>1, ReconcilerFacts
<1>3. submission[r] \in Submission
  BY <1>1, <1>2 DEF TypeOK, BackgroundTypeOK
<1>4. submission[r].next # None /\ submission[r].deadline # None
  BY <1>1, <1>2 DEF Links, SubLinks, Sub
<1>5. QED
  BY <1>1, <1>2, <1>3, <1>4

LEMMA LeastType ==
    ASSUME NEW a \in Ticks, NEW b \in Ticks
    PROVE  Least(a, b) \in Ticks /\ Least(a, b) # None
  BY TicksFacts DEF Least

LEMMA MatchedType ==
    ASSUME TypeOK, NEW r \in Runs
    PROVE  Matched(r) \in [Runs -> Receipt \cup {None}]
<1>1. receipt \in [Runs -> Receipt \cup {None}]
  BY DEF TypeOK, BackgroundTypeOK
<1>2. CASE receipt[r] # None
  <2>1. [receipt[r] EXCEPT !.state = "matched"] \in Receipt
    BY <1>1, <1>2 DEF Receipt
  <2>2. QED
    BY <1>1, <2>1 DEF Matched
<1>3. CASE receipt[r] = None
  BY <1>1, <1>3 DEF Matched
<1>4. QED
  BY <1>2, <1>3

LEMMA ClaimReconciliationFrame ==
    ASSUME TypeOK, Links, NEW p \in Reconcilers, NEW r \in Runs,
           ClaimReconciliation(p, r)
    PROVE  Backgrounded({})
<1> DEFINE t == Least(ReconcileTtl, submission[r].deadline)
           s == [submission[r] EXCEPT !.state = "reconciling", !.owner = p,
                                      !.lease = t, !.next = t]
           x == [run |-> r, phase |-> "claimed", status |-> "none"]
<1>1. /\ Sub(r, {"waiting_provider", "reconciling"})
      /\ submission' = [submission EXCEPT ![r] = s]
      /\ receipt' = Matched(r)
      /\ reconciler' = [reconciler EXCEPT ![p] = x]
      /\ UNCHANGED <<parkingVars, job, budget, sent, charged>>
  BY DEF ClaimReconciliation
<1>2. submission[r] \in Submission /\ submission[r].deadline # None
  BY <1>1 DEF Sub, Links, SubLinks, TypeOK, BackgroundTypeOK
<1>3. submission[r].deadline \in Ticks /\ ReconcileTtl \in Ticks
  BY <1>2, TicksFacts DEF Submission
<1>4. t \in Ticks /\ t # None
  BY <1>3, LeastType
<1> HIDE DEF t
<1>5. /\ s \in Submission /\ s.next = t /\ s.deadline = submission[r].deadline
  BY <1>2, <1>4 DEF Submission
<1>6. x \in Reconciler
  BY DEF Reconciler
<1> HIDE DEF s, x
<1>7. submission' \in [Runs -> Submission \cup {None}] /\ SubLinks'
  BY <1>1, <1>2, <1>4, <1>5, OneSubmission
<1>8. RowsStep({})
  BY <1>1, AloneRows
<1>9. BackgroundTypeOK'
  BY <1>1, <1>6, <1>7, MatchedType DEF BackgroundTypeOK, TypeOK
<1>10. QED
  BY <1>7, <1>8, <1>9 DEF Backgrounded

(* Steps of a reconciler that change no run.                               *)
LEMMA HeartbeatReconciliationFrame ==
    ASSUME TypeOK, Links, NEW p \in Reconcilers, HeartbeatReconciliation(p)
    PROVE  Backgrounded({})
<1> DEFINE r == reconciler[p].run
           t == Least(ReconcileTtl, submission[r].deadline)
           s == [submission[r] EXCEPT !.lease = t, !.next = t]
<1>1. /\ Reconciles(p, "claimed")
      /\ submission' = [submission EXCEPT ![r] = s]
      /\ UNCHANGED <<parkingVars, job, budget, receipt, reconciler, sent,
                     charged>>
  BY DEF HeartbeatReconciliation
<1>2. r \in Runs /\ submission[r] \in Submission /\ submission[r].deadline # None
  BY <1>1, ReconcilesFacts
<1>3. submission[r].deadline \in Ticks /\ ReconcileTtl \in Ticks
  BY <1>2, TicksFacts DEF Submission
<1>4. t \in Ticks /\ t # None
  BY <1>3, LeastType
<1> HIDE DEF t
<1>5. /\ s \in Submission /\ s.next = t /\ s.deadline = submission[r].deadline
  BY <1>2, <1>4 DEF Submission
<1> HIDE DEF s
<1>6. submission' \in [Runs -> Submission \cup {None}] /\ SubLinks'
  BY <1>1, <1>2, <1>4, <1>5, OneSubmission
<1>7. RowsStep({})
  BY <1>1, AloneRows
<1>8. BackgroundTypeOK'
  BY <1>1, <1>6 DEF BackgroundTypeOK, TypeOK
<1>9. QED
  BY <1>6, <1>7, <1>8 DEF Backgrounded

ObservedStatus == Terminal \cup {"running", "retryable", "unrecoverable"}

LEMMA ReconcilerFrame ==
    ASSUME TypeOK, Links, NEW p \in Reconcilers,
           \/ BindRetrieval(p) \/ ReconcilerCrash(p)
           \/ \E status \in ObservedStatus : Observe(p, status)
    PROVE  Backgrounded({})
<1>1. UNCHANGED <<parkingVars, submission, job, budget, receipt, sent, charged>>
  BY DEF BindRetrieval, ReconcilerCrash, Observe
<1>2. reconciler[p] # None /\ reconciler[p] \in Reconciler
  BY ReconcilerFacts DEF BindRetrieval, ReconcilerCrash, Observe, Reconciles
<1>3. reconciler' \in [Reconcilers -> Reconciler \cup {None}]
  <2>1. [reconciler[p] EXCEPT !.phase = "bound"] \in Reconciler
    BY <1>2 DEF Reconciler
  <2>2. \A status \in ObservedStatus :
          [reconciler[p] EXCEPT !.phase = "observed", !.status = status]
            \in Reconciler
    BY <1>2 DEF Reconciler, ObservedStatus
  <2>3. CASE BindRetrieval(p) \/ ReconcilerCrash(p)
    BY <2>1, <2>3 DEF BindRetrieval, ReconcilerCrash, TypeOK,
                      BackgroundTypeOK
  <2>4. CASE \E status \in ObservedStatus : Observe(p, status)
    <3>1. PICK status \in ObservedStatus : Observe(p, status)
      BY <2>4
    <3>2. reconciler' = [reconciler EXCEPT ![p] =
            [reconciler[p] EXCEPT !.phase = "observed", !.status = status]]
      BY <3>1 DEF Observe, TypeOK, BackgroundTypeOK
    <3>3. QED
      BY <2>2, <3>2 DEF TypeOK, BackgroundTypeOK
  <2>5. QED
    BY <2>3, <2>4
<1>4. RowsStep({})
  BY <1>1, AloneRows
<1>5. SubLinks' /\ submission' \in [Runs -> Submission \cup {None}]
  BY <1>1, SubmissionsAlone
<1>6. BackgroundTypeOK'
  BY <1>1, <1>3, <1>5 DEF BackgroundTypeOK, TypeOK
<1>7. QED
  BY <1>4, <1>5, <1>6 DEF Backgrounded

(* The runs of S are closed with their submissions.                        *)
LEMMA ClosedSubmissionType ==
    ASSUME NEW s \in Submission
    PROVE  ClosedSubmission(s) \in Submission
           /\ ClosedSubmission(s).state = "closed"
  BY DEF ClosedSubmission, Submission

LEMMA CloseRecoveryFrame ==
    ASSUME TypeOK, Links, NEW S \in SUBSET Runs,
           NEW receipts \in [Runs -> Receipt \cup {None}],
           \A r \in S : submission[r] # None,
           CloseRecovery(S, receipts),
           reconciler' \in [Reconcilers -> Reconciler \cup {None}]
    PROVE  Backgrounded({})
<1>1. /\ run' = [r \in Runs |->
            IF r \in S THEN Closed(run[r], "RecoveryRequired", "other")
                       ELSE run[r]]
      /\ submission' = [r \in Runs |->
            IF r \in S THEN ClosedSubmission(submission[r])
                       ELSE submission[r]]
      /\ receipt' = [r \in Runs |->
            IF r \in S THEN RecoveredReceipt(receipts[r]) ELSE receipts[r]]
      /\ UNCHANGED <<held, call, binding, session, job, budget, sent, charged>>
  BY DEF CloseRecovery
<1>2. ASSUME NEW r \in Runs
      PROVE  /\ Changes(run[r], run'[r], {"WaitingSubscription"})
             /\ run'[r].owner \in {run[r].owner, None}
             /\ run'[r].ckpt = run[r].ckpt
  <2>1. run[r] \in RunRow
    BY DEF TypeOK, ParkingTypeOK
  <2>2. CASE r \in S
    <3> DEFINE c == Closed(run[r], "RecoveryRequired", "other")
    <3>1. run'[r] = c
      BY <1>1, <2>2
    <3>2. run[r].state = "WaitingProvider"
      BY <2>2 DEF CloseRecovery, ClaimGraph
    <3>3. /\ run[r].state \in Asleep /\ run[r].state \notin {"WaitingSubscription"}
          /\ {"WaitingSubscription"} \subseteq Asleep /\ "other" \in ErrorCodes
          /\ "RecoveryRequired" \in Closing
      BY <3>2 DEF Asleep, ErrorCodes, Closing
    <3>4. /\ Changes(run[r], c, {"WaitingSubscription"})
          /\ c.owner = None /\ c.ckpt = run[r].ckpt
      BY <2>1, <3>3, WaitClosedRow
    <3> HIDE DEF c
    <3>5. QED
      BY <3>1, <3>4
  <2>3. CASE r \notin S
    <3>1. run'[r] = run[r]
      BY <1>1, <2>3
    <3>2. QED
      BY <2>1, <3>1 DEF Changes, Links, RowLinks
  <2>4. QED
    BY <2>2, <2>3
<1>3. RowsChange({"WaitingSubscription"}) /\ OwnerStep /\ NoNewOutcome
  BY <1>1, <1>2 DEF RowsChange, OwnerStep, NoNewOutcome, Changes
<1>4. HeldStep({}) /\ RestTypes'
  BY <1>1, NoWorker DEF RestTypes, TypeOK, ParkingTypeOK
<1>5. ASSUME NEW r \in Runs
      PROVE  /\ submission'[r] \in Submission \cup {None}
             /\ r \in S => submission'[r].state = "closed"
             /\ r \notin S => submission'[r] = submission[r]
  BY <1>1, ClosedSubmissionType DEF TypeOK, BackgroundTypeOK
<1>6. submission' \in [Runs -> Submission \cup {None}] /\ SubLinks'
  BY <1>1, <1>5 DEF Links, SubLinks, Sub
<1>7. receipt' \in [Runs -> Receipt \cup {None}]
  <2>1. \A c \in Receipt \cup {None} : RecoveredReceipt(c) \in Receipt \cup {None}
    BY DEF RecoveredReceipt, Receipt
  <2>2. QED
    BY <1>1, <2>1
<1>8. BackgroundTypeOK'
  BY <1>1, <1>6, <1>7 DEF BackgroundTypeOK, TypeOK
<1>9. QED
  BY <1>3, <1>4, <1>6, <1>8 DEF Backgrounded, RowsStep

LEMMA ReconcilerFree ==
    ASSUME TypeOK, NEW p \in Reconcilers,
           reconciler' = [reconciler EXCEPT ![p] = None]
    PROVE  reconciler' \in [Reconcilers -> Reconciler \cup {None}]
  BY DEF TypeOK, BackgroundTypeOK

LEMMA ReleaseReconciliationFrame ==
    ASSUME TypeOK, Links, NEW p \in Reconcilers,
           ReleaseReconciliation(p) \/ CloseUnrecoverable(p)
    PROVE  Backgrounded({})
<1> DEFINE r == reconciler[p].run
           s == [submission[r] EXCEPT !.state = "waiting_provider",
                   !.owner = None, !.lease = None, !.next = RetryDelay,
                   !.retries = @ + 1]
<1>1. PICK ph : Reconciles(p, ph)
  BY DEF ReleaseReconciliation, CloseUnrecoverable
<1>2. /\ r \in Runs /\ submission[r] \in Submission /\ submission[r] # None
      /\ submission[r].deadline # None
  BY <1>1, ReconcilesFacts
<1>3. reconciler' \in [Reconcilers -> Reconciler \cup {None}]
  BY ReconcilerFree DEF ReleaseReconciliation, CloseUnrecoverable
<1>4. CASE CloseRecovery({r}, receipt)
  <2>1. receipt \in [Runs -> Receipt \cup {None}]
    BY DEF TypeOK, BackgroundTypeOK
  <2>2. {r} \in SUBSET Runs /\ \A q \in {r} : submission[q] # None
    BY <1>2
  <2>3. QED
    BY <1>3, <1>4, <2>1, <2>2, CloseRecoveryFrame
<1>5. CASE /\ submission' = [submission EXCEPT ![r] = s]
           /\ UNCHANGED <<parkingVars, job, budget, receipt, sent, charged>>
  <2>1. /\ s \in Submission /\ s.next = RetryDelay
        /\ s.deadline = submission[r].deadline
    <3>1. RetryDelay \in Ticks /\ submission[r].retries + 1 \in Nat
      BY <1>2, TicksFacts DEF Submission
    <3>2. QED
      BY <1>2, <3>1 DEF Submission
  <2>2. RetryDelay # None
    BY TicksFacts
  <2> HIDE DEF s
  <2>3. submission' \in [Runs -> Submission \cup {None}] /\ SubLinks'
    BY <1>2, <1>5, <2>1, <2>2, OneSubmission
  <2>4. RowsStep({})
    BY <1>5, AloneRows
  <2>5. BackgroundTypeOK'
    BY <1>3, <1>5, <2>3 DEF BackgroundTypeOK, TypeOK
  <2>6. QED
    BY <2>3, <2>4, <2>5 DEF Backgrounded
<1>6. QED
  BY <1>4, <1>5 DEF ReleaseReconciliation, CloseUnrecoverable

(* The row of a run that ends with its response.                           *)
LEMMA EndedRow ==
    ASSUME NEW row \in RunRow, row.state = "WaitingProvider",
           NEW status \in Terminal, NEW new,
           new = IF status = "completed"
                 THEN [Closed(row, "Completed", "none") EXCEPT
                         !.ckpt = [kind |-> "output", gen |-> row.gen,
                                   turns |-> 1]]
                 ELSE Closed(row, Ends[status], "other")
    PROVE  /\ Changes(row, new, {"WaitingSubscription"})
           /\ new.owner = None /\ new.state = Ends[status]
           /\ new.ckpt # None => new.ckpt = row.ckpt
                                 \/ new.ckpt.kind # "adoption"
<1> DEFINE c == [kind |-> "output", gen |-> row.gen, turns |-> 1]
           d == Closed(row, "Completed", "none")
<1>1. c \in Checkpoint /\ c.kind # "adoption"
  BY DEF Checkpoint, RunRow
<1>2. /\ Ends["completed"] = "Completed"
      /\ \A t \in Terminal : Ends[t] \in Closing
  BY DEF Ends, Terminal, Closing
<1>3. /\ row.state \in Asleep /\ row.state \notin {"WaitingSubscription"}
      /\ {"WaitingSubscription"} \subseteq Asleep
      /\ "other" \in ErrorCodes /\ "none" \in ErrorCodes
      /\ "Completed" \in Closing
  BY DEF Asleep, ErrorCodes, Closing
<1>4. CASE status = "completed"
  <2>1. /\ d \in RunRow /\ d.state = "Completed" /\ d.owner = None
    BY <1>3, ClosedRow
  <2> HIDE DEF c, d
  <2>2. new = [d EXCEPT !.ckpt = c]
    BY <1>4 DEF c, d
  <2>3. /\ new \in RunRow /\ new.state = "Completed" /\ new.owner = None
        /\ new.ckpt = c
    BY <1>1, <2>1, <2>2 DEF RunRow
  <2>4. QED
    BY <1>1, <1>2, <1>4, <2>3 DEF Changes, Closing
<1>5. CASE status # "completed"
  <2> DEFINE e == Closed(row, Ends[status], "other")
  <2>1. /\ e \in RunRow /\ e.state = Ends[status] /\ e.owner = None
        /\ e.ckpt = row.ckpt
    BY <1>2, <1>3, ClosedRow
  <2>2. Changes(row, e, {"WaitingSubscription"})
    BY <1>2, <1>3, WaitClosedRow
  <2> HIDE DEF e
  <2>3. new = e
    BY <1>5 DEF e
  <2>4. QED
    BY <2>1, <2>2, <2>3
<1>6. QED
  BY <1>4, <1>5

(* What commit_once writes when nothing disagrees.                         *)
Committed(r, status) ==
    /\ budget' = [budget EXCEPT ![r] = "committed"]
    /\ charged' = [charged EXCEPT ![r] = charged[r] + 1]
    /\ submission' = [submission EXCEPT ![r] =
          [ClosedSubmission(submission[r]) EXCEPT !.state = status]]
    /\ receipt' = [receipt EXCEPT ![r] =
          IF receipt[r] = None THEN None
          ELSE [receipt[r] EXCEPT !.state = "processed"]]
    /\ \E new : /\ run' = [run EXCEPT ![r] = new]
                /\ new = IF status = "completed"
                         THEN [Closed(run[r], "Completed", "none") EXCEPT
                                 !.ckpt = [kind |-> "output",
                                           gen |-> run[r].gen, turns |-> 1]]
                         ELSE Closed(run[r], Ends[status], "other")
    /\ UNCHANGED <<held, call, binding, session, job, sent>>

LEMMA CommitCases ==
    ASSUME NEW p \in Reconcilers, CommitTerminal(p)
    PROVE  LET r == reconciler[p].run
               status == reconciler[p].status
           IN  /\ Reconciles(p, "observed") /\ status \in Terminal
               /\ ClaimGraph(r)
               /\ \/ CloseRecovery({r}, Matched(r))
                  \/ ~Disagrees(r, status) /\ Committed(r, status)
               /\ reconciler' = [reconciler EXCEPT ![p] = None]
  BY DEF CommitTerminal, Committed

LEMMA CommittedFrame ==
    ASSUME TypeOK, Links, NEW r \in Runs, NEW status \in Terminal,
           submission[r] \in Submission, run[r].state = "WaitingProvider",
           Committed(r, status),
           reconciler' \in [Reconcilers -> Reconciler \cup {None}]
    PROVE  Backgrounded({})
<1> DEFINE s == [ClosedSubmission(submission[r]) EXCEPT !.state = status]
           c == IF receipt[r] = None THEN None
                ELSE [receipt[r] EXCEPT !.state = "processed"]
<1>1. /\ budget' = [budget EXCEPT ![r] = "committed"]
      /\ charged' = [charged EXCEPT ![r] = charged[r] + 1]
      /\ submission' = [submission EXCEPT ![r] = s]
      /\ receipt' = [receipt EXCEPT ![r] = c]
      /\ UNCHANGED <<held, call, binding, session, job, sent>>
  BY DEF Committed
<1>2. PICK new :
        /\ run' = [run EXCEPT ![r] = new]
        /\ new = IF status = "completed"
                 THEN [Closed(run[r], "Completed", "none") EXCEPT
                         !.ckpt = [kind |-> "output",
                                   gen |-> run[r].gen, turns |-> 1]]
                 ELSE Closed(run[r], Ends[status], "other")
  BY DEF Committed
<1>3. run[r] \in RunRow
  BY DEF TypeOK, ParkingTypeOK
<1>4. /\ Changes(run[r], new, {"WaitingSubscription"})
      /\ new.owner = None
      /\ new.ckpt # None => new.ckpt = run[r].ckpt
                            \/ new.ckpt.kind # "adoption"
  BY <1>2, <1>3, EndedRow
<1>5. s \in Submission /\ s.state = status
  <2>1. ClosedSubmission(submission[r]) \in Submission
    BY ClosedSubmissionType
  <2>2. QED
    BY <2>1 DEF Submission
<1>6. c \in Receipt \cup {None}
  BY DEF TypeOK, BackgroundTypeOK, Receipt
<1> HIDE DEF s, c
<1>7. status \notin {"waiting_provider", "reconciling"}
  BY DEF Terminal, Ends
<1>8. submission' \in [Runs -> Submission \cup {None}] /\ SubLinks'
  BY <1>1, <1>5, <1>7, OneSubmission
<1>9. RowsChange({"WaitingSubscription"})
  BY <1>2, <1>4, OneChange
<1>10. OwnerStep /\ NoNewOutcome
  BY <1>2, <1>4 DEF OwnerStep, NoNewOutcome, TypeOK, ParkingTypeOK
<1>11. HeldStep({}) /\ RestTypes'
  BY <1>1, NoWorker DEF RestTypes, TypeOK, ParkingTypeOK
<1>12. /\ budget' \in [Runs -> BudgetStates] /\ charged' \in [Runs -> Nat]
       /\ receipt' \in [Runs -> Receipt \cup {None}]
  BY <1>1, <1>6 DEF TypeOK, BackgroundTypeOK, BudgetStates
<1>13. BackgroundTypeOK'
  BY <1>1, <1>8, <1>12 DEF BackgroundTypeOK, TypeOK, BudgetStates
<1>14. QED
  BY <1>8, <1>9, <1>10, <1>11, <1>13 DEF Backgrounded, RowsStep

LEMMA CommitFrame ==
    ASSUME TypeOK, Links, NEW p \in Reconcilers, CommitTerminal(p)
    PROVE  Backgrounded({})
<1> DEFINE r == reconciler[p].run
           status == reconciler[p].status
<1>1. /\ Reconciles(p, "observed") /\ status \in Terminal /\ ClaimGraph(r)
      /\ CloseRecovery({r}, Matched(r)) \/ Committed(r, status)
      /\ reconciler' = [reconciler EXCEPT ![p] = None]
  BY CommitCases
<1>2. /\ r \in Runs /\ submission[r] \in Submission /\ submission[r] # None
      /\ run[r].state = "WaitingProvider"
  BY <1>1, ReconcilesFacts DEF ClaimGraph
<1>3. reconciler' \in [Reconcilers -> Reconciler \cup {None}]
  BY <1>1, ReconcilerFree
<1>4. CASE CloseRecovery({r}, Matched(r))
  <2>1. Matched(r) \in [Runs -> Receipt \cup {None}]
    BY <1>2, MatchedType
  <2>2. {r} \in SUBSET Runs /\ \A q \in {r} : submission[q] # None
    BY <1>2
  <2>3. QED
    BY <1>3, <1>4, <2>1, <2>2, CloseRecoveryFrame
<1>5. CASE Committed(r, status)
  BY <1>1, <1>2, <1>3, <1>5, CommittedFrame
<1>6. QED
  BY <1>1, <1>4, <1>5

LEMMA CloseExpiredFrame ==
    ASSUME TypeOK, Links, CloseExpired
    PROVE  Backgrounded({})
<1>1. Expired \in SUBSET Runs /\ \A q \in Expired : submission[q] # None
  BY DEF Expired, Sub
<1>2. /\ receipt \in [Runs -> Receipt \cup {None}]
      /\ reconciler' \in [Reconcilers -> Reconciler \cup {None}]
  BY DEF CloseExpired, TypeOK, BackgroundTypeOK
<1>3. CloseRecovery(Expired, receipt)
  BY DEF CloseExpired
<1>4. QED
  BY <1>1, <1>2, <1>3, CloseRecoveryFrame

(* A step of the background submissions.                                   *)
LEMMA BackgroundingFrame ==
    ASSUME TypeOK, Links, Backgrounding
    PROVE  Backgrounded(BackgroundPlaces)
           /\ UNCHANGED <<approvalVars, subscriptionVars>>
<1>1. ASSUME NEW P, Backgrounded(P), P \subseteq BackgroundPlaces
      PROVE  Backgrounded(BackgroundPlaces)
  BY <1>1, MorePlaces DEF Backgrounded, RowsStep
<1>2. /\ {} \subseteq BackgroundPlaces
      /\ {"prepared"} \subseteq BackgroundPlaces
      /\ {"accepted", "lost"} \subseteq BackgroundPlaces
  BY DEF BackgroundPlaces
<1>3. ASSUME NEW w \in Workers, BackgroundWorker(w)
      PROVE  Backgrounded(BackgroundPlaces)
  <2>1. CASE \/ ReserveBackground(w) \/ ReleaseUnstarted(w) \/ MarkFailed(w)
             \/ \E acked \in BOOLEAN : MarkUncertain(w, acked)
    BY <2>1, ReservationFrame
  <2>2. CASE Prepare(w)
    BY <1>1, <1>2, <2>2, PrepareFrame
  <2>3. CASE \/ \E lands, acked \in BOOLEAN : SubmitProvider(w, lands, acked)
             \/ AcceptFailed(w)
    BY <1>1, <1>2, <2>3, SubmitFrame
  <2>4. CASE Accept(w) \/ CloseAmbiguity(w)
    BY <1>1, <1>2, <2>4, AcceptFrame, AmbiguityFrame
  <2>5. QED
    BY <1>3, <2>1, <2>2, <2>3, <2>4 DEF BackgroundWorker
<1>4. ASSUME NEW p \in Reconcilers, Reconciliation(p) PROVE Backgrounded({})
  <2>1. CASE \E r \in Runs : ClaimReconciliation(p, r)
    BY <2>1, ClaimReconciliationFrame
  <2>2. CASE HeartbeatReconciliation(p)
    BY <2>2, HeartbeatReconciliationFrame
  <2>3. CASE \/ BindRetrieval(p) \/ ReconcilerCrash(p)
             \/ \E status \in ObservedStatus : Observe(p, status)
    BY <2>3, ReconcilerFrame
  <2>4. CASE ReleaseReconciliation(p) \/ CloseUnrecoverable(p)
    BY <2>4, ReleaseReconciliationFrame
  <2>5. CASE CommitTerminal(p)
    BY <2>5, CommitFrame
  <2>6. QED
    BY <1>4, <2>1, <2>2, <2>3, <2>4, <2>5 DEF Reconciliation, ObservedStatus
<1>5. CASE ProviderSide \/ \E r \in Runs : ReclaimBudget(r)
  <2>1. Backgrounded({})
    BY <1>5, ProviderFrame DEF ProviderSide
  <2>2. QED
    BY <1>1, <1>2, <2>1 DEF Backgrounding
<1>6. CASE \/ \E p \in Reconcilers : Reconciliation(p)
           \/ CloseExpired
  <2>1. Backgrounded({})
    BY <1>4, <1>6, CloseExpiredFrame
  <2>2. QED
    BY <1>1, <1>2, <2>1 DEF Backgrounding
<1>7. Backgrounded(BackgroundPlaces)
  BY <1>3, <1>5, <1>6 DEF Backgrounding
<1>8. QED
  BY <1>7 DEF Backgrounding

LEMMA BackgroundingStep ==
    ASSUME TypeOK, Links, Backgrounding
    PROVE  (TypeOK /\ Links)'
<1>1. /\ Backgrounded(BackgroundPlaces)
      /\ UNCHANGED <<approvalVars, subscriptionVars>>
  BY BackgroundingFrame
<1>2. ASSUME NEW r \in Runs PROVE RowLinks(r)'
  <2>1. RowLinks(r) /\ Changes(run[r], run'[r], {"WaitingSubscription"})
    BY <1>1 DEF Links, Backgrounded, RowsStep, RowsChange
  <2>2. run'[r].ckpt # None =>
          run'[r].ckpt = run[r].ckpt \/ run'[r].ckpt.kind # "adoption"
    BY <1>1 DEF Backgrounded, RowsStep, NoNewOutcome
  <2>3. QED
    BY <1>1, <2>1, <2>2 DEF RowLinks, Changes, approvalVars, subscriptionVars
<1>3. ParkingTypeOK'
  BY <1>1, ParkingTyped DEF Backgrounded, RowsStep, RowsChange
<1>4. QED
  BY <1>1, <1>2, <1>3
     DEF TypeOK, Links, PassLinks, PollLinks, Backgrounded, ApprovalTypeOK,
         SubscriptionTypeOK, approvalVars, subscriptionVars

-----------------------------------------------------------------------------
(* Cancellation and time.                                                  *)

(* What a cancellation makes of the rows of one run.                       *)
LEMMA CancelFacts ==
    ASSUME TypeOK, Links, NEW r \in Runs, RequestCancellation(r)
    PROVE  /\ ~IsTerminal(run[r].state)
           /\ run' \in [Runs -> RunRow]
           /\ run'[r] = Closed(run[r], "Cancelled", "other")
           /\ run'[r].state = "Cancelled" /\ run'[r].owner = None
           /\ run'[r].ckpt = run[r].ckpt
           /\ \A q \in Runs \ {r} :
                /\ run'[q] = run[q] /\ call'[q] = call[q]
                /\ approval'[q] = approval[q] /\ waiter'[q] = waiter[q]
                /\ adoption'[q] = adoption[q] /\ submission'[q] = submission[q]
           /\ UNCHANGED <<held, binding, session, effects, pass, log, poller,
                          job, budget, receipt, reconciler, sent, charged>>
<1> DEFINE row == Closed(run[r], "Cancelled", "other")
<1>1. run[r] \in RunRow /\ run \in [Runs -> RunRow]
  BY DEF TypeOK, ParkingTypeOK
<1>2. /\ row \in RunRow /\ row.state = "Cancelled" /\ row.owner = None
      /\ row.ckpt = run[r].ckpt
  BY <1>1, ClosedRow DEF Closing, ErrorCodes
<1> HIDE DEF row
<1>3. run' = [run EXCEPT ![r] = row]
  BY DEF RequestCancellation, row
<1>4. \A q \in Runs \ {r} :
        /\ call'[q] = call[q]
        /\ approval'[q] = approval[q] /\ waiter'[q] = waiter[q]
        /\ adoption'[q] = adoption[q] /\ submission'[q] = submission[q]
  BY DEF RequestCancellation, ApprovalsAfterCancel, WaitersAfterCancel,
         AdoptionsAfterCancel, SubmissionsAfterCancel, TypeOK, ParkingTypeOK,
         ApprovalTypeOK, SubscriptionTypeOK, BackgroundTypeOK
<1>5. QED
  BY <1>1, <1>2, <1>3, <1>4 DEF RequestCancellation, Cancellable, row

LEMMA CancelCall ==
    ASSUME TypeOK, Links, NEW r \in Runs, RequestCancellation(r)
    PROVE  /\ call' \in [Runs -> Call]
           /\ call'[r].state = IF call[r].state \in {"none", "completed", "closed"}
                               THEN call[r].state ELSE "closed"
<1> DEFINE s == IF call[r].state \in {"none", "completed", "closed"}
                THEN call[r].state ELSE "closed"
<1>1. call[r] \in Call /\ call \in [Runs -> Call]
  BY DEF TypeOK, ParkingTypeOK
<1>2. [call[r] EXCEPT !.state = s] \in Call
  BY <1>1 DEF Call
<1>3. call' = [call EXCEPT ![r] = [call[r] EXCEPT !.state = s]]
  BY DEF RequestCancellation
<1>4. [call[r] EXCEPT !.state = s].state = s
  BY <1>1 DEF Call
<1>5. QED
  BY <1>1, <1>2, <1>3, <1>4

LEMMA CancelApproval ==
    ASSUME TypeOK, Links, NEW r \in Runs, RequestCancellation(r)
    PROVE  /\ approval' \in [Runs -> Approval \cup {None}]
           /\ approval'[r] = approval[r]
              \/ /\ Is(r, {"pending", "approved", "resume_claimed"})
                 /\ approval'[r] # None /\ approval'[r].state = "revoked"
<1> DEFINE a == [approval[r] EXCEPT !.state = "revoked"]
<1>1. approval \in [Runs -> Approval \cup {None}]
  BY DEF TypeOK, ApprovalTypeOK
<1>2. CASE Is(r, {"pending", "approved", "resume_claimed"})
  <2>1. approval[r] \in Approval
    BY <1>1, <1>2 DEF Is
  <2>2. a \in Approval /\ a.state = "revoked"
    BY <2>1 DEF Approval, ApprovalStates
  <2>3. approval' = [approval EXCEPT ![r] = a]
    BY <1>2 DEF RequestCancellation, ApprovalsAfterCancel
  <2> HIDE DEF a
  <2>4. QED
    BY <1>1, <1>2, <2>2, <2>3, ApprovalNoneAssumption
<1>3. CASE ~Is(r, {"pending", "approved", "resume_claimed"})
  BY <1>1, <1>3 DEF RequestCancellation, ApprovalsAfterCancel
<1>4. QED
  BY <1>2, <1>3

LEMMA CancelWaiter ==
    ASSUME TypeOK, Links, NEW r \in Runs, RequestCancellation(r)
    PROVE  /\ waiter' \in [Runs -> Waiter \cup {None}]
           /\ \/ /\ waiter'[r] = waiter[r]
                 /\ waiter[r] # None =>
                      waiter[r].state \notin {"waiting", "claimed"}
              \/ /\ waiter[r] # None /\ waiter[r] \in Waiter
                 /\ waiter[r].state \in {"waiting", "claimed"}
                 /\ waiter'[r] # None
                 /\ waiter'[r] = Released(waiter[r], "closed")
<1> DEFINE wt == Released(waiter[r], "closed")
<1>1. waiter \in [Runs -> Waiter \cup {None}]
  BY DEF TypeOK, SubscriptionTypeOK
<1>2. CASE waiter[r] # None /\ waiter[r].state \in {"waiting", "claimed"}
  <2>1. waiter[r] \in Waiter
    BY <1>1, <1>2
  <2>2. wt \in Waiter
    BY <2>1, ReleasedType
  <2>3. waiter' = [waiter EXCEPT ![r] = wt]
    BY <1>2 DEF RequestCancellation, WaitersAfterCancel
  <2> HIDE DEF wt
  <2>4. waiter'[r] = wt /\ waiter' \in [Runs -> Waiter \cup {None}]
    BY <1>1, <2>2, <2>3
  <2>5. QED
    BY <1>2, <2>1, <2>2, <2>4, WaiterNoneAssumption DEF wt
<1>3. CASE ~(waiter[r] # None /\ waiter[r].state \in {"waiting", "claimed"})
  BY <1>1, <1>3 DEF RequestCancellation, WaitersAfterCancel
<1>4. QED
  BY <1>2, <1>3

LEMMA CancelAdoption ==
    ASSUME TypeOK, Links, NEW r \in Runs, RequestCancellation(r)
    PROVE  /\ adoption' \in [Runs -> Adoption \cup {None}]
           /\ \/ adoption'[r] = adoption[r]
              \/ /\ adoption[r] # None /\ adoption'[r] # None
                 /\ adoption'[r].state = "closed"
                 /\ adoption'[r].kind = adoption[r].kind
<1> DEFINE a == [adoption[r] EXCEPT !.state = "closed"]
<1>1. adoption \in [Runs -> Adoption \cup {None}]
  BY DEF TypeOK, SubscriptionTypeOK
<1>2. CASE adoption[r] # None /\ adoption[r].state \in {"queued", "claimed"}
  <2>1. adoption[r] \in Adoption
    BY <1>1, <1>2
  <2>2. a \in Adoption /\ a.state = "closed" /\ a.kind = adoption[r].kind
    BY <2>1 DEF Adoption
  <2>3. adoption' = [adoption EXCEPT ![r] = a]
    BY <1>2 DEF RequestCancellation, AdoptionsAfterCancel
  <2> HIDE DEF a
  <2>4. QED
    BY <1>1, <1>2, <2>2, <2>3, WaiterNoneAssumption
<1>3. CASE ~(adoption[r] # None /\ adoption[r].state \in {"queued", "claimed"})
  BY <1>1, <1>3 DEF RequestCancellation, AdoptionsAfterCancel
<1>4. QED
  BY <1>2, <1>3

LEMMA CancelSubmission ==
    ASSUME TypeOK, Links, NEW r \in Runs, RequestCancellation(r)
    PROVE  /\ submission' \in [Runs -> Submission \cup {None}]
           /\ \/ /\ submission'[r] = submission[r]
                 /\ ~Sub(r, {"prepared", "waiting_provider", "reconciling"})
              \/ /\ Sub(r, {"prepared", "waiting_provider", "reconciling"})
                 /\ submission'[r] # None /\ submission'[r].state = "closed"
<1> DEFINE s == [submission[r] EXCEPT !.state = "closed", !.owner = None,
                                      !.lease = None]
<1>1. submission \in [Runs -> Submission \cup {None}]
  BY DEF TypeOK, BackgroundTypeOK
<1>2. CASE Sub(r, {"prepared", "waiting_provider", "reconciling"})
  <2>1. submission[r] \in Submission
    BY <1>1, <1>2 DEF Sub
  <2>2. s \in Submission /\ s.state = "closed"
    BY <2>1 DEF Submission
  <2>3. submission' = [submission EXCEPT ![r] = s]
    BY <1>2 DEF RequestCancellation, SubmissionsAfterCancel
  <2> HIDE DEF s
  <2>4. QED
    BY <1>1, <1>2, <2>2, <2>3, SubmissionNoneAssumption
<1>3. CASE ~Sub(r, {"prepared", "waiting_provider", "reconciling"})
  BY <1>1, <1>3 DEF RequestCancellation, SubmissionsAfterCancel
<1>4. QED
  BY <1>2, <1>3

LEMMA CancelStep ==
    ASSUME TypeOK, Links, NEW r \in Runs, RequestCancellation(r)
    PROVE  (TypeOK /\ Links)' /\ HeldStep({}) /\ OwnerStep /\ Grows
<1>1. /\ run' \in [Runs -> RunRow] /\ run'[r].state = "Cancelled"
      /\ run'[r].owner = None /\ run'[r].ckpt = run[r].ckpt
      /\ \A q \in Runs \ {r} :
           /\ run'[q] = run[q] /\ call'[q] = call[q]
           /\ approval'[q] = approval[q] /\ waiter'[q] = waiter[q]
           /\ adoption'[q] = adoption[q] /\ submission'[q] = submission[q]
      /\ UNCHANGED <<held, binding, session, effects, pass, log, poller,
                     job, budget, receipt, reconciler, sent, charged>>
  BY CancelFacts
<1>2. /\ call' \in [Runs -> Call] /\ approval' \in [Runs -> Approval \cup {None}]
      /\ waiter' \in [Runs -> Waiter \cup {None}]
      /\ adoption' \in [Runs -> Adoption \cup {None}]
      /\ submission' \in [Runs -> Submission \cup {None}]
  BY CancelCall, CancelApproval, CancelWaiter, CancelAdoption, CancelSubmission
<1>3. Grows
  <2>1. ASSUME NEW q \in Runs \ {r}
        PROVE  /\ approval'[q] = approval[q] /\ waiter'[q] = waiter[q]
               /\ adoption'[q] = adoption[q]
    BY <1>1
  <2>2. /\ approval[r] # None => approval'[r] # None
        /\ waiter[r] # None => waiter'[r] # None
        /\ adoption[r] # None => adoption'[r] # None
    BY CancelApproval, CancelWaiter, CancelAdoption DEF Is
  <2>3. QED
    BY <2>1, <2>2 DEF Grows
<1>4. TypeOK'
  BY <1>1, <1>2
     DEF TypeOK, ParkingTypeOK, ApprovalTypeOK, SubscriptionTypeOK,
         BackgroundTypeOK
<1>5. ASSUME NEW q \in Runs PROVE RowLinks(q)'
  <2>1. RowLinks(q)
    BY DEF Links
  <2>2. CASE q = r
    BY <1>1, <1>3, <2>1, <2>2 DEF RowLinks, Grows
  <2>3. CASE q # r
    BY <1>1, <1>3, <2>1, <2>3 DEF RowLinks, Grows
  <2>4. QED
    BY <2>2, <2>3
<1>6. SubLinks'
  <2>1. ASSUME NEW q \in Runs,
               Sub(q, {"waiting_provider", "reconciling"})'
        PROVE  submission'[q] = submission[q]
               /\ Sub(q, {"waiting_provider", "reconciling"})
    <3>1. CASE q = r
      BY <2>1, <3>1, CancelSubmission DEF Sub
    <3>2. CASE q # r
      BY <1>1, <2>1, <3>2 DEF Sub
    <3>3. QED
      BY <3>1, <3>2
  <2>2. QED
    BY <2>1 DEF SubLinks, Links
<1>7. PassLinks'
  <2>1. pass # None => pass.run \in Runs
    BY DEF TypeOK, ApprovalTypeOK, Pass
  <2>2. QED
    BY <1>1, <1>3, <2>1 DEF PassLinks, Links, Grows
<1>8. PollLinks'
  <2>1. \A p \in Pollers : poller[p] # None =>
          poller[p].run \in Runs /\ waiter[poller[p].run] # None
    BY ClaimFacts
  <2>2. QED
    BY <1>1, <1>3, <2>1 DEF PollLinks, Grows
<1>9. HeldStep({}) /\ OwnerStep
  BY <1>1, NoWorker DEF OwnerStep
<1>10. QED
  BY <1>3, <1>4, <1>5, <1>6, <1>7, <1>8, <1>9 DEF Links

(* Time changes deadlines and nothing else.                                *)
SameWait(old, new) ==
    /\ (old = None) <=> (new = None)
    /\ old # None =>
         /\ new.state = old.state /\ new.owner = old.owner
         /\ new.start = old.start /\ new.cursor = old.cursor
         /\ new.examined = old.examined
SameSubmission(old, new) ==
    /\ (old = None) <=> (new = None)
    /\ old # None =>
         /\ new.state = old.state /\ new.owner = old.owner
         /\ (new.next = None) <=> (old.next = None)
         /\ (new.deadline = None) <=> (old.deadline = None)
Aged ==
    /\ run' \in [Runs -> RunRow]
    /\ \A r \in Runs :
         /\ run'[r].state = run[r].state /\ run'[r].owner = run[r].owner
         /\ run'[r].ckpt = run[r].ckpt
         /\ (approval[r] = None) <=> (approval'[r] = None)
         /\ approval[r] # None => approval'[r].state = approval[r].state
         /\ SameWait(waiter[r], waiter'[r])
         /\ SameSubmission(submission[r], submission'[r])
    /\ UNCHANGED <<held, call, session, effects, log, adoption, poller, job,
                   budget, receipt, reconciler, sent, charged>>

LEMMA AgedRows ==
    ASSUME TypeOK, Links, Tick
    PROVE  /\ run' \in [Runs -> RunRow] /\ binding' \in [Runs -> Binding]
           /\ \A r \in Runs :
                /\ run'[r].state = run[r].state /\ run'[r].owner = run[r].owner
                /\ run'[r].ckpt = run[r].ckpt
<1>1. /\ run' = [r \in Runs |-> RowLater(run[r])]
      /\ binding' = [r \in Runs |-> [binding[r] EXCEPT !.expiry = Sooner(@)]]
  BY DEF Tick, Later, ParkingLater
<1>2. \A r \in Runs : run[r] \in RunRow
  BY DEF TypeOK, ParkingTypeOK
<1>3. \A r \in Runs :
        /\ RowLater(run[r]) \in RunRow
        /\ RowLater(run[r]).state = run[r].state
        /\ RowLater(run[r]).owner = run[r].owner
        /\ RowLater(run[r]).ckpt = run[r].ckpt
  BY <1>2, RowLaterRow
<1>4. ASSUME NEW r \in Runs
      PROVE  [binding[r] EXCEPT !.expiry = Sooner(binding[r].expiry)] \in Binding
  <2>1. binding[r] \in Binding
    BY DEF TypeOK, ParkingTypeOK
  <2>2. Sooner(binding[r].expiry) \in Ticks \cup {None}
    BY <2>1, TicksFacts DEF Binding
  <2>3. QED
    BY <2>1, <2>2 DEF Binding
<1>5. QED
  BY <1>1, <1>3, <1>4

LEMMA AgedApprovals ==
    ASSUME TypeOK, Links, Tick
    PROVE  /\ approval' \in [Runs -> Approval \cup {None}]
           /\ pass' \in Pass \cup {None}
           /\ \A r \in Runs :
                /\ (approval[r] = None) <=> (approval'[r] = None)
                /\ approval[r] # None => approval'[r].state = approval[r].state
           /\ pass = None => pass' = None
           /\ pass # None =>
                /\ pass'.run = pass.run /\ pass'.seen = pass.seen
                /\ pass'.call = pass.call /\ pass'.verdict = pass.verdict
                /\ pass'.row = RowLater(pass.row)
                /\ pass'.row.state = pass.row.state
<1>1. /\ approval' = [r \in Runs |-> IF approval[r] = None THEN None
                         ELSE [approval[r] EXCEPT !.expiry = Sooner(@)]]
      /\ pass' = IF pass = None THEN None ELSE [pass EXCEPT !.row = RowLater(@)]
  BY DEF Tick, Later, ApprovalLater
<1>2. ASSUME NEW r \in Runs, approval[r] # None
      PROVE  LET a == [approval[r] EXCEPT !.expiry = Sooner(@)] IN
             a \in Approval /\ a.state = approval[r].state
  <2>1. approval[r] \in Approval
    BY <1>2 DEF TypeOK, ApprovalTypeOK
  <2>2. Sooner(approval[r].expiry) \in Ticks
    BY <2>1, TicksFacts DEF Approval
  <2>3. QED
    BY <2>1, <2>2 DEF Approval
<1>3. /\ approval' \in [Runs -> Approval \cup {None}]
      /\ \A r \in Runs :
           /\ (approval[r] = None) <=> (approval'[r] = None)
           /\ approval[r] # None => approval'[r].state = approval[r].state
  BY <1>1, <1>2, ApprovalNoneAssumption
<1>4. CASE pass = None
  BY <1>1, <1>3, <1>4
<1>5. CASE pass # None
  <2> DEFINE x == [pass EXCEPT !.row = RowLater(pass.row)]
  <2>1. pass \in Pass /\ pass.row \in RunRow
    BY <1>5 DEF TypeOK, ApprovalTypeOK, Pass
  <2>2. RowLater(pass.row) \in RunRow /\ RowLater(pass.row).state = pass.row.state
    BY <2>1, RowLaterRow
  <2>3. /\ x \in Pass /\ x.run = pass.run /\ x.seen = pass.seen
        /\ x.call = pass.call /\ x.verdict = pass.verdict
        /\ x.row = RowLater(pass.row)
    BY <2>1, <2>2 DEF Pass
  <2>4. pass' = x
    BY <1>1, <1>5
  <2> HIDE DEF x
  <2>5. QED
    BY <1>3, <1>5, <2>2, <2>3, <2>4
<1>6. QED
  BY <1>4, <1>5

LEMMA AgedWaiters ==
    ASSUME TypeOK, Links, Tick
    PROVE  /\ waiter' \in [Runs -> Waiter \cup {None}]
           /\ \A r \in Runs : SameWait(waiter[r], waiter'[r])
<1>1. waiter' = [r \in Runs |-> IF waiter[r] = None THEN None
                   ELSE [waiter[r] EXCEPT !.claim = Sooner(@),
                                          !.expiry = Sooner(@)]]
  BY DEF Tick, Later, SubscriptionLater
<1>2. ASSUME NEW r \in Runs, waiter[r] # None
      PROVE  LET wt == [waiter[r] EXCEPT !.claim = Sooner(waiter[r].claim),
                                         !.expiry = Sooner(waiter[r].expiry)]
             IN  wt \in Waiter /\ SameWait(waiter[r], wt)
  <2> DEFINE wt == [waiter[r] EXCEPT !.claim = Sooner(waiter[r].claim),
                                     !.expiry = Sooner(waiter[r].expiry)]
  <2>1. waiter[r] \in Waiter
    BY <1>2 DEF TypeOK, SubscriptionTypeOK
  <2>2. /\ Sooner(waiter[r].claim) \in Ticks \cup {None}
        /\ Sooner(waiter[r].expiry) \in Ticks
    <3>1. waiter[r].claim \in Ticks \cup {None} /\ waiter[r].expiry \in Ticks
      BY <2>1 DEF Waiter
    <3>2. QED
      BY <3>1, TicksFacts
  <2>3. /\ wt \in Waiter /\ wt.state = waiter[r].state
        /\ wt.owner = waiter[r].owner /\ wt.start = waiter[r].start
        /\ wt.cursor = waiter[r].cursor /\ wt.examined = waiter[r].examined
    BY <2>1, <2>2 DEF Waiter
  <2> HIDE DEF wt
  <2>4. SameWait(waiter[r], wt)
    BY <1>2, <2>3, WaiterNoneAssumption DEF SameWait
  <2>5. QED
    BY <2>3, <2>4 DEF wt
<1>3. ASSUME NEW r \in Runs
      PROVE  waiter'[r] \in Waiter \cup {None} /\ SameWait(waiter[r], waiter'[r])
  <2>1. CASE waiter[r] = None
    BY <1>1, <2>1 DEF SameWait
  <2>2. CASE waiter[r] # None
    <3>1. waiter'[r] = [waiter[r] EXCEPT !.claim = Sooner(waiter[r].claim),
                                         !.expiry = Sooner(waiter[r].expiry)]
      BY <1>1, <2>2
    <3>2. QED
      BY <1>2, <2>2, <3>1
  <2>3. QED
    BY <2>1, <2>2
<1>4. QED
  BY <1>1, <1>3

LEMMA AgedSubmissions ==
    ASSUME TypeOK, Links, Tick
    PROVE  /\ submission' \in [Runs -> Submission \cup {None}]
           /\ \A r \in Runs : SameSubmission(submission[r], submission'[r])
<1>1. submission' = [r \in Runs |-> IF submission[r] = None THEN None
                       ELSE [submission[r] EXCEPT !.lease = Sooner(@),
                                                  !.next = Sooner(@),
                                                  !.deadline = Sooner(@)]]
  BY DEF Tick, Later, BackgroundLater
<1>2. ASSUME NEW r \in Runs, submission[r] # None
      PROVE  LET s == [submission[r] EXCEPT
                         !.lease = Sooner(submission[r].lease),
                         !.next = Sooner(submission[r].next),
                         !.deadline = Sooner(submission[r].deadline)]
             IN  s \in Submission /\ SameSubmission(submission[r], s)
  <2> DEFINE s == [submission[r] EXCEPT
                     !.lease = Sooner(submission[r].lease),
                     !.next = Sooner(submission[r].next),
                     !.deadline = Sooner(submission[r].deadline)]
  <2>1. submission[r] \in Submission
    BY <1>2 DEF TypeOK, BackgroundTypeOK
  <2>2. /\ Sooner(submission[r].lease) \in Ticks \cup {None}
        /\ Sooner(submission[r].next) \in Ticks \cup {None}
        /\ Sooner(submission[r].deadline) \in Ticks \cup {None}
        /\ Sooner(submission[r].next) = None <=> submission[r].next = None
        /\ Sooner(submission[r].deadline) = None
             <=> submission[r].deadline = None
    <3>1. /\ submission[r].lease \in Ticks \cup {None}
          /\ submission[r].next \in Ticks \cup {None}
          /\ submission[r].deadline \in Ticks \cup {None}
      BY <2>1 DEF Submission
    <3>2. QED
      BY <3>1, TicksFacts
  <2>3. /\ s \in Submission /\ s.state = submission[r].state
        /\ s.owner = submission[r].owner
        /\ s.next = Sooner(submission[r].next)
        /\ s.deadline = Sooner(submission[r].deadline)
    BY <2>1, <2>2 DEF Submission
  <2> HIDE DEF s
  <2>4. SameSubmission(submission[r], s)
    BY <1>2, <2>2, <2>3, SubmissionNoneAssumption DEF SameSubmission
  <2>5. QED
    BY <2>3, <2>4 DEF s
<1>3. ASSUME NEW r \in Runs
      PROVE  submission'[r] \in Submission \cup {None}
             /\ SameSubmission(submission[r], submission'[r])
  <2>1. CASE submission[r] = None
    BY <1>1, <2>1 DEF SameSubmission
  <2>2. CASE submission[r] # None
    <3>1. submission'[r] = [submission[r] EXCEPT
                              !.lease = Sooner(submission[r].lease),
                              !.next = Sooner(submission[r].next),
                              !.deadline = Sooner(submission[r].deadline)]
      BY <1>1, <2>2
    <3>2. QED
      BY <1>2, <2>2, <3>1
  <2>3. QED
    BY <2>1, <2>2
<1>4. QED
  BY <1>1, <1>3

LEMMA TickStep ==
    ASSUME TypeOK, Links, Tick
    PROVE  (TypeOK /\ Links)' /\ HeldStep({}) /\ OwnerStep /\ Aged
<1>1. UNCHANGED <<held, call, session, effects, log, adoption, poller, job,
                  budget, receipt, reconciler, sent, charged>>
  BY DEF Tick, Later, ParkingLater, ApprovalLater, SubscriptionLater,
         BackgroundLater
<1>2. Aged
  BY <1>1, AgedRows, AgedApprovals, AgedWaiters, AgedSubmissions DEF Aged
<1>3. TypeOK'
  BY <1>1, AgedRows, AgedApprovals, AgedWaiters, AgedSubmissions
     DEF TypeOK, ParkingTypeOK, ApprovalTypeOK, SubscriptionTypeOK,
         BackgroundTypeOK
<1>4. ASSUME NEW r \in Runs PROVE RowLinks(r)'
  <2>1. RowLinks(r)
    BY DEF Links
  <2>2. QED
    BY <1>2, <2>1 DEF RowLinks, Aged, SameWait
<1>5. SubLinks'
  BY <1>2 DEF Aged, SameSubmission, SubLinks, Links, Sub
<1>6. PassLinks'
  <2>1. pass # None => pass.run \in Runs
    BY DEF TypeOK, ApprovalTypeOK, Pass
  <2>2. QED
    BY <2>1, AgedApprovals DEF PassLinks, Links
<1>7. PollLinks'
  <2>1. \A p \in Pollers : poller[p] # None =>
          poller[p].run \in Runs /\ waiter[poller[p].run] # None
    BY ClaimFacts
  <2>2. QED
    BY <1>2, <2>1 DEF PollLinks, Aged, SameWait
<1>8. HeldStep({}) /\ OwnerStep
  BY <1>1, <1>2, NoWorker DEF OwnerStep, Aged
<1>9. QED
  BY <1>2, <1>3, <1>4, <1>5, <1>6, <1>7, <1>8 DEF Links

-----------------------------------------------------------------------------
LEMMA CoreInit ==
    ASSUME Init
    PROVE  TypeOK /\ Links
<1>1. run = [r \in Runs |-> QueuedRun(r)]
  BY DEF Init, ParkingInit
<1>2. \A r \in Runs : /\ run[r] \in RunRow /\ run[r].state = "Queued"
                      /\ run[r].ckpt = None
  BY <1>1, QueuedRow DEF Runs
<1>3. run \in [Runs -> RunRow]
  BY <1>1, <1>2
<1>4. /\ NoBinding \in Binding
      /\ [state |-> "none", gen |-> 0] \in Call
  BY DEF NoBinding, Binding, Call
<1>5. ParkingTypeOK
  BY <1>3, <1>4 DEF Init, ParkingInit, ParkingTypeOK
<1>6. ApprovalTypeOK /\ SubscriptionTypeOK /\ BackgroundTypeOK
  <2>1. <<TRUE>> \in Seq(BOOLEAN)
    OBVIOUS
  <2>2. QED
    BY <2>1 DEF Init, ApprovalInit, SubscriptionInit, BackgroundInit,
                ApprovalTypeOK, SubscriptionTypeOK, BackgroundTypeOK
<1>7. \A r \in Runs : RowLinks(r)
  BY <1>2 DEF RowLinks, Unowned, Closing
<1>8. SubLinks /\ PassLinks /\ PollLinks
  BY DEF SubLinks, PassLinks, PollLinks, Sub, Init, ApprovalInit,
         SubscriptionInit, BackgroundInit
<1>9. QED
  BY <1>5, <1>6, <1>7, <1>8 DEF TypeOK, Links

LEMMA CoreStep ==
    ASSUME TypeOK, Links, [Next]_vars
    PROVE  (TypeOK /\ Links)'
<1>1. CASE Next
  BY <1>1, RunnerStep, ApprovingStep, SubscribingStep, BackgroundingStep,
     CancelStep, TickStep DEF Next
<1>2. CASE UNCHANGED vars
  BY <1>2 DEF vars, parkingVars, approvalVars, subscriptionVars,
     backgroundVars, TypeOK, ParkingTypeOK, ApprovalTypeOK,
     SubscriptionTypeOK, BackgroundTypeOK, Links, RowLinks, SubLinks,
     PassLinks, PollLinks, Sub
<1>3. QED
  BY <1>1, <1>2

-----------------------------------------------------------------------------
(* Approvals: authority that ended stays ended, and what it allows happens *)
(* at most once.                                                           *)
Ended(r) == Is(r, Withdrawn \cup {"consumed"})
Final ==
    \A r \in Runs : Ended(r) =>
        approval'[r] # None /\ approval'[r].state = approval[r].state

LEMMA FinalAlone ==
    ASSUME approval' = approval
    PROVE  Final
  BY DEF Final, Ended, Is

LEMMA ReadState ==
    ASSUME TypeOK, NEW r \in Runs, approval[r] # None
    PROVE  approval[r].state \in ApprovalStates /\ approval[r].state # "none"
<1>1. approval[r] \in Approval
  BY DEF TypeOK, ApprovalTypeOK
<1>2. QED
  BY <1>1 DEF Approval, ApprovalStates

(* The worker that consumes read a live approval, and it is live still.    *)
LEMMA ConsumesLive ==
    ASSUME TypeOK, Links, NEW w \in Workers, ConsumeApproval(w)
    PROVE  LET r == held[w].lease.run IN
           /\ r \in Runs /\ held[w] # None
           /\ Is(r, {"approved", "resume_claimed"})
           /\ approval' = [approval EXCEPT ![r].state = "consumed"]
           /\ approval'[r] # None /\ approval'[r].state = "consumed"
           /\ \A q \in Runs \ {r} : approval'[q] = approval[q]
           /\ effects' = effects
<1> DEFINE r == held[w].lease.run
<1>1. /\ Fenced(w, {"authorised"}) /\ Is(r, {held[w].seen})
      /\ approval' = [approval EXCEPT ![r].state = "consumed"]
      /\ effects' = effects
  BY DEF ConsumeApproval
<1>2. /\ r \in Runs /\ held[w] # None
      /\ held[w].seen \in {"none", "approved", "resume_claimed"}
  BY <1>1, FencedFacts DEF Held
<1>3. approval[r] # None /\ approval[r].state = held[w].seen
  BY <1>1 DEF Is
<1>4. Is(r, {"approved", "resume_claimed"})
  BY <1>2, <1>3, ReadState DEF Is
<1>5. /\ approval'[r] # None /\ approval'[r].state = "consumed"
      /\ \A q \in Runs \ {r} : approval'[q] = approval[q]
  BY <1>1, <1>2, <1>3, StateWritten, ZenonT(40) DEF ApprovalStates
<1>6. QED
  BY <1>1, <1>2, <1>4, <1>5

LEMMA ExpiryFinal ==
    ASSUME TypeOK, NEW S \in SUBSET Runs, \A q \in S : Is(q, {"approved"})
    PROVE  \A q \in Runs : Ended(q) => ExpiredIn(S)[q] = approval[q]
<1>1. \A q \in S : approval[q] # None /\ ~Ended(q)
  BY DEF Is, Ended, Withdrawn
<1>2. QED
  BY <1>1, ExpiredType

LEMMA ApprovingFinal ==
    ASSUME TypeOK, Links, Approving
    PROVE  Final
<1>1. CASE \E w \in Workers : ApprovalWorker(w)
  <2>1. PICK w \in Workers : ApprovalWorker(w)
    BY <1>1
  <2>2. CASE \E acked \in BOOLEAN : RequestApproval(w, acked)
    <3>1. PICK acked \in BOOLEAN : RequestApproval(w, acked)
      BY <2>2
    <3>2. held[w].lease.run \in Runs /\ approval[held[w].lease.run] = None
      BY <3>1, FencedFacts DEF RequestApproval, Handing
    <3>3. \A q \in Runs \ {held[w].lease.run} : approval'[q] = approval[q]
      BY <3>1, <3>2 DEF RequestApproval, TypeOK, ApprovalTypeOK
    <3>4. QED
      BY <3>2, <3>3 DEF Final, Ended, Is
  <2>3. CASE \E r \in Runs : \E earlier \in SUBSET (Runs \ {r}) :
               ClaimApproved(w, r, earlier)
    <3>1. PICK r \in Runs : \E earlier \in SUBSET (Runs \ {r}) :
            ClaimApproved(w, r, earlier)
      BY <2>3
    <3>2. PICK earlier \in SUBSET (Runs \ {r}) : ClaimApproved(w, r, earlier)
      BY <3>1
    <3>3. /\ approval' = [ExpiredIn(earlier) EXCEPT ![r].state = "resume_claimed"]
          /\ Is(r, {"approved"}) /\ \A q \in earlier : Is(q, {"approved"})
      BY <3>2 DEF ClaimApproved
    <3>4. ~Ended(r)
      BY <3>3 DEF Ended, Is, Withdrawn
    <3>5. \A q \in Runs : Ended(q) => ExpiredIn(earlier)[q] = approval[q]
      BY <3>3, ExpiryFinal
    <3>6. ExpiredIn(earlier) \in [Runs -> Approval \cup {None}]
      BY <3>3, ExpiredType DEF Is
    <3>7. \A q \in Runs \ {r} : approval'[q] = ExpiredIn(earlier)[q]
      BY <3>3, <3>6
    <3>8. QED
      BY <3>4, <3>5, <3>7 DEF Final, Ended, Is
  <2>4. CASE ConsumeApproval(w)
    <3>1. /\ Is(held[w].lease.run, {"approved", "resume_claimed"})
          /\ \A q \in Runs \ {held[w].lease.run} : approval'[q] = approval[q]
      BY <2>4, ConsumesLive
    <3>2. ~Ended(held[w].lease.run)
      BY <3>1 DEF Is, Ended, Withdrawn
    <3>3. QED
      BY <3>1, <3>2 DEF Final, Ended, Is
  <2>5. CASE \/ ReadApproval(w) \/ FinishToolCall(w) \/ PersistToolBatch(w)
             \/ ConsumeBatch(w)
             \/ \E ran \in BOOLEAN, p \in Phases : ExecuteTool(w, ran, p)
    BY <2>5, FinalAlone DEF ReadApproval, FinishToolCall, PersistToolBatch,
                            ConsumeBatch, ExecuteTool, approvalVars
  <2>6. QED
    BY <2>1, <2>2, <2>3, <2>4, <2>5 DEF ApprovalWorker
<1>2. CASE \E r \in Runs, s \in ApprovalStates : Decide(r, s)
  <2>1. PICK r \in Runs, s \in ApprovalStates : Decide(r, s)
    BY <1>2
  <2>2. /\ Is(r, {"pending", "approved", "resume_claimed"})
        /\ approval' = [approval EXCEPT ![r].state = s]
    BY <2>1 DEF Decide, Is
  <2>3. ~Ended(r)
    BY <2>2 DEF Is, Ended, Withdrawn
  <2>4. QED
    BY <2>2, <2>3, StateWritten DEF Final, Ended, Is
<1>3. CASE ExpireApproved
  <2> DEFINE S == {r \in Runs : Is(r, {"approved"})}
  <2>1. approval' = ExpiredIn(S) /\ S \in SUBSET Runs
    BY <1>3 DEF ExpireApproved
  <2>2. \A q \in S : Is(q, {"approved"})
    OBVIOUS
  <2> HIDE DEF S
  <2>3. \A q \in Runs : Ended(q) => approval'[q] = approval[q]
    BY <2>1, <2>2, ExpiryFinal
  <2>4. QED
    BY <2>3 DEF Final, Ended, Is
<1>4. CASE \/ \E r \in Runs : LoadWait(r)
           \/ \E policy \in BOOLEAN : JudgeWait(policy)
           \/ PassFails \/ PassReturns
  BY <1>4, FinalAlone DEF LoadWait, JudgeWait, PassFails, PassReturns
<1>5. CASE CloseWait
  <2> DEFINE r == pass.run
  <2>1. CASE approval' = approval
    BY <2>1, FinalAlone
  <2>2. CASE approval' # approval
    <3>1. /\ pass # None /\ pass.verdict = "Cancelled" /\ ~Is(r, Withdrawn)
          /\ Is(r, {pass.seen})
          /\ approval' = [approval EXCEPT ![r].state = "expired"]
      BY <1>5, <2>2 DEF CloseWait
    <3>2. r \in Runs /\ pass.seen \in {"pending", "approved"} \cup Withdrawn
      BY <3>1 DEF Links, PassLinks, TypeOK, ApprovalTypeOK, Pass
    <3>3. ~Ended(r) /\ approval[r] # None
      BY <3>1, <3>2 DEF Is, Ended, Withdrawn
    <3>4. \A q \in Runs \ {r} : approval'[q] = approval[q]
      BY <3>1, <3>2, <3>3, StateWritten DEF ApprovalStates
    <3>5. QED
      BY <3>3, <3>4 DEF Final, Ended, Is
  <2>3. QED
    BY <2>1, <2>2
<1>6. QED
  BY <1>1, <1>2, <1>3, <1>4, <1>5 DEF Approving, Reconcile, PassGoesOn

LEMMA StepFinal ==
    ASSUME TypeOK, Links, Next
    PROVE  Final
<1>1. CASE Runner \/ Subscribing \/ Backgrounding
  BY <1>1, FinalAlone DEF Runner, Subscribing, Backgrounding, approvalVars
<1>2. CASE \E r \in Runs : RequestCancellation(r)
  <2>1. PICK r \in Runs : RequestCancellation(r)
    BY <1>2
  <2>2. \A q \in Runs \ {r} : approval'[q] = approval[q]
    BY <2>1, CancelFacts
  <2>3. approval'[r] = approval[r]
        \/ Is(r, {"pending", "approved", "resume_claimed"})
    BY <2>1, CancelApproval
  <2>4. QED
    BY <2>2, <2>3 DEF Final, Ended, Is, Withdrawn
<1>3. CASE Tick
  BY <1>3, AgedApprovals DEF Final, Ended, Is
<1>4. QED
  BY <1>1, <1>2, <1>3, ApprovingFinal DEF Next

(* The tool has run at most once: kept by every step but those that        *)
(* consume the approval and run the tool.                                  *)
LEMMA AuthorityKept ==
    ASSUME TypeOK, Authority, EffectApprovedOnce, Final, NEW P, HeldStep(P),
           "consumed" \notin P, effects' = effects
    PROVE  (Authority /\ EffectApprovedOnce)'
<1>1. \A r \in Runs : Is(r, {"consumed"}) => Is(r, {"consumed"})'
  BY DEF Final, Ended, Is
<1>2. EffectApprovedOnce'
  BY <1>1 DEF EffectApprovedOnce
<1>3. \A w \in Workers, r \in Runs :
        At(w, r, {"consumed"})' => At(w, r, {"consumed"})
  BY DEF HeldStep, StaysAt, GoesTo, HasClaimed, At
<1>4. Authority'
  BY <1>1, <1>3 DEF Authority
<1>5. QED
  BY <1>2, <1>4

LEMMA ConsumeAuthority ==
    ASSUME TypeOK, Links, Authority, EffectApprovedOnce, Final,
           NEW w \in Workers, ConsumeApproval(w)
    PROVE  (Authority /\ EffectApprovedOnce)'
<1>1. PICK r \in Runs :
        /\ r = held[w].lease.run /\ held[w] # None /\ effects' = effects
        /\ Is(r, {"approved", "resume_claimed"})
        /\ approval'[r] # None /\ approval'[r].state = "consumed"
  BY ConsumesLive
<1>2. \A q \in Runs : Is(q, {"consumed"}) => Is(q, {"consumed"})'
  BY DEF Final, Ended, Is
<1>3. EffectApprovedOnce'
  BY <1>1, <1>2 DEF EffectApprovedOnce
<1>4. HeldStep({"consumed"})
  BY ConsumeFrame DEF Approved, Frame
<1>5. effects[r] = 0
  BY <1>1 DEF EffectApprovedOnce, Is, TypeOK, ApprovalTypeOK
<1>6. \A u \in Workers : ~At(u, r, {"consumed"})
  BY <1>1 DEF Authority, Is
<1>7. ASSUME NEW u \in Workers, u # w PROVE held'[u] = held[u]
  BY <1>7 DEF ConsumeApproval, Renew, TypeOK, ParkingTypeOK
<1>8. held'[w] # None => held'[w].lease.run = r
  BY <1>1, <1>4 DEF HeldStep, StaysAt, GoesTo, HasClaimed
<1>9. Is(r, {"consumed"})'
  BY <1>1 DEF Is
<1>10. ASSUME NEW u \in Workers, NEW q \in Runs, At(u, q, {"consumed"})'
       PROVE  (u = w /\ q = r) \/ (At(u, q, {"consumed"}) /\ q # r)
  BY <1>6, <1>7, <1>8, <1>10 DEF At
<1>11. Authority'
  BY <1>1, <1>2, <1>5, <1>9, <1>10 DEF Authority
<1>12. QED
  BY <1>3, <1>11

LEMMA ExecuteAuthority ==
    ASSUME TypeOK, Links, Authority, EffectApprovedOnce, Final,
           NEW w \in Workers, NEW ran \in BOOLEAN, NEW p \in Phases,
           ExecuteTool(w, ran, p)
    PROVE  (Authority /\ EffectApprovedOnce)'
<1>1. PICK r : r = held[w].lease.run
  OBVIOUS
<1> DEFINE n == IF ran THEN effects[r] + 1 ELSE effects[r]
<1>2. /\ held[w] # None /\ held[w].phase = "consumed"
      /\ p \in {"executed", "failed"}
      /\ held' = [held EXCEPT ![w].phase = p]
      /\ effects' = [effects EXCEPT ![r] = n] /\ approval' = approval
  BY <1>1 DEF ExecuteTool
<1>3. r \in Runs
  BY <1>1, <1>2 DEF TypeOK, ParkingTypeOK, Held, AiRunLease
<1>4. /\ At(w, r, {"consumed"}) /\ Is(r, {"consumed"}) /\ effects[r] = 0
      /\ \A u \in Workers \ {w} : ~At(u, r, {"consumed"})
  BY <1>1, <1>2, <1>3 DEF At, Authority
<1>5. effects'[r] \in {0, 1} /\ \A q \in Runs \ {r} : effects'[q] = effects[q]
  BY <1>2, <1>3, <1>4 DEF TypeOK, ApprovalTypeOK
<1>6. \A q \in Runs : Is(q, {"consumed"})' <=> Is(q, {"consumed"})
  BY <1>2 DEF Is
<1>7. EffectApprovedOnce'
  BY <1>4, <1>5, <1>6 DEF EffectApprovedOnce
<1>8. \A u \in Workers, q \in Runs :
        At(u, q, {"consumed"})' => At(u, q, {"consumed"}) /\ q # r
  <2>1. HeldStep({"executed", "failed"})
    BY ExecuteFrame DEF Approved, Frame
  <2>2. held'[w] # None => held'[w].phase # "consumed"
    <3>1. held[w] \in Held
      BY <1>2 DEF TypeOK, ParkingTypeOK
    <3>2. held'[w].phase = p
      BY <1>2, <3>1 DEF TypeOK, ParkingTypeOK, Held
    <3>3. QED
      BY <1>2, <3>2
  <2>3. ASSUME NEW u \in Workers, NEW q \in Runs, At(u, q, {"consumed"})'
        PROVE  At(u, q, {"consumed"})
    BY <2>1, <2>3 DEF HeldStep, StaysAt, GoesTo, HasClaimed, At
  <2>4. ASSUME NEW u \in Workers, At(u, r, {"consumed"})' PROVE FALSE
    BY <1>3, <1>4, <2>2, <2>3, <2>4 DEF At
  <2>5. QED
    BY <2>3, <2>4
<1>9. Authority'
  BY <1>5, <1>6, <1>8 DEF Authority
<1>10. QED
  BY <1>7, <1>9

LEMMA ApprovingAuthority ==
    ASSUME TypeOK, Links, Authority, EffectApprovedOnce, Approving
    PROVE  (Authority /\ EffectApprovedOnce)'
<1>1. Final
  BY ApprovingFinal
<1>2. ASSUME NEW P, Approved(P), "consumed" \notin P, effects' = effects
      PROVE  (Authority /\ EffectApprovedOnce)'
  BY <1>1, <1>2, AuthorityKept DEF Approved, Frame
<1>3. ASSUME NEW w \in Workers, ApprovalWorker(w)
      PROVE  (Authority /\ EffectApprovedOnce)'
  <2>1. CASE \E acked \in BOOLEAN : RequestApproval(w, acked)
    <3>1. HeldStep({"waiting", "requested", "unsure"})
      BY <2>1, RequestFrame
    <3>2. effects' = effects
      BY <2>1 DEF RequestApproval
    <3>3. QED
      BY <1>1, <3>1, <3>2, AuthorityKept
  <2>2. CASE \E r \in Runs : \E earlier \in SUBSET (Runs \ {r}) :
               ClaimApproved(w, r, earlier)
    BY <1>2, <2>2, ClaimApprovedFrame DEF ClaimApproved
  <2>3. CASE ReadApproval(w)
    BY <1>2, <2>3, ReadFrame DEF ReadApproval, approvalVars
  <2>4. CASE ConsumeApproval(w)
    BY <1>1, <2>4, ConsumeAuthority
  <2>5. CASE \E ran \in BOOLEAN, p \in Phases : ExecuteTool(w, ran, p)
    BY <1>1, <2>5, ExecuteAuthority
  <2>6. CASE FinishToolCall(w) \/ PersistToolBatch(w) \/ ConsumeBatch(w)
    <3>1. effects' = effects /\ Approved({"done", "batched", "adopted"})
      BY <2>6, ToolFrame DEF FinishToolCall, PersistToolBatch, ConsumeBatch,
                             approvalVars
    <3>2. QED
      BY <1>2, <3>1
  <2>7. QED
    BY <1>3, <2>1, <2>2, <2>3, <2>4, <2>5, <2>6 DEF ApprovalWorker
<1>4. CASE \/ \E r \in Runs, s \in ApprovalStates : Decide(r, s)
           \/ ExpireApproved \/ Reconcile
  <2>1. Approved({})
    BY <1>4, DecideFrame, ExpireFrame, LoadFrame, JudgeFrame, CloseFrame,
       FailFrame DEF Reconcile, PassGoesOn
  <2>2. effects' = effects
    BY <1>4 DEF Decide, ExpireApproved, Reconcile, PassGoesOn, LoadWait,
                JudgeWait, CloseWait, PassFails, PassReturns
  <2>3. QED
    BY <1>2, <2>1, <2>2
<1>5. QED
  BY <1>3, <1>4 DEF Approving

LEMMA AuthorityStep ==
    ASSUME TypeOK, Links, Authority, EffectApprovedOnce, [Next]_vars
    PROVE  (Authority /\ EffectApprovedOnce)'
<1>1. CASE Approving
  BY <1>1, ApprovingAuthority
<1>2. CASE Runner
  <2>1. HeldStep(RunnerPlaces) /\ effects' = effects /\ approval' = approval
    BY <1>2, RunnerFrame DEF Frame, approvalVars
  <2>2. QED
    BY <2>1, FinalAlone, AuthorityKept DEF RunnerPlaces
<1>3. CASE Subscribing
  <2>1. HeldStep(SubscriptionPlaces) /\ effects' = effects
        /\ approval' = approval
    BY <1>3, SubscribingFrame DEF Subscribed, approvalVars
  <2>2. QED
    BY <2>1, FinalAlone, AuthorityKept DEF SubscriptionPlaces
<1>4. CASE Backgrounding
  <2>1. HeldStep(BackgroundPlaces) /\ effects' = effects
        /\ approval' = approval
    BY <1>4, BackgroundingFrame DEF Backgrounded, RowsStep, approvalVars
  <2>2. QED
    BY <2>1, FinalAlone, AuthorityKept DEF BackgroundPlaces
<1>5. CASE \E r \in Runs : RequestCancellation(r)
  <2>1. HeldStep({}) /\ effects' = effects
    BY <1>5, CancelStep DEF RequestCancellation
  <2>2. Final
    BY <1>5, StepFinal DEF Next
  <2>3. QED
    BY <2>1, <2>2, AuthorityKept
<1>6. CASE Tick
  <2>1. HeldStep({}) /\ effects' = effects
    BY <1>6, TickStep DEF Aged
  <2>2. Final
    BY <1>6, StepFinal DEF Next
  <2>3. QED
    BY <2>1, <2>2, AuthorityKept
<1>7. CASE UNCHANGED vars
  BY <1>7 DEF vars, parkingVars, approvalVars, Authority, EffectApprovedOnce,
              Is, At
<1>8. QED
  BY <1>1, <1>2, <1>3, <1>4, <1>5, <1>6, <1>7 DEF Next

-----------------------------------------------------------------------------
(* What Spending and SentOnceAndHeld say of one run.                       *)
SpendsWell(r) ==
    /\ sent[r] <= 1
    /\ sent[r] > 0 => Spent(r)
    /\ \A w \in Workers :
         /\ At(w, r, {"reserved", "prepared"}) /\ Owns(w, r) =>
              budget[r] = "reserved"
         /\ At(w, r, {"marked"}) =>
              /\ sent[r] = 0 /\ Spent(r)
              /\ \A u \in Workers \ {w} : ~At(u, r, {"marked"})

LEMMA SpendsWellIs ==
    (Spending /\ SentOnceAndHeld) <=> \A r \in Runs : SpendsWell(r)
  BY DEF Spending, SentOnceAndHeld, SpendsWell, Spent

(* A run whose reservation and requests stay as they are, and for which no *)
(* worker gets nearer to its request.                                      *)
LEMMA SpendsOn ==
    ASSUME NEW q \in Runs, SpendsWell(q), NEW P, HeldStep(P), OwnerStep,
           budget'[q] = budget[q], sent'[q] = sent[q],
           \A u \in Workers :
             /\ At(u, q, {"reserved", "prepared"})' =>
                  At(u, q, {"reserved", "prepared"})
             /\ At(u, q, {"marked"})' => At(u, q, {"marked"})
    PROVE  SpendsWell(q)'
<1>1. Spent(q)' <=> Spent(q)
  BY DEF Spent
<1>2. ASSUME NEW u \in Workers, At(u, q, {"reserved", "prepared"})',
             Owns(u, q)'
      PROVE  budget'[q] = "reserved"
  <2>1. ~HasClaimed(u)
    BY <1>2 DEF At, HasClaimed
  <2>2. Owns(u, q)
    BY <1>2, <2>1, OwnerBefore
  <2>3. QED
    BY <1>2, <2>2 DEF SpendsWell
<1>3. QED
  BY <1>1, <1>2 DEF SpendsWell

LEMMA SpendsElsewhere ==
    ASSUME Spending, SentOnceAndHeld, NEW P, HeldStep(P), OwnerStep,
           P \cap {"reserved", "prepared", "marked"} = {},
           budget' = budget, sent' = sent
    PROVE  (Spending /\ SentOnceAndHeld)'
<1>1. ASSUME NEW q \in Runs PROVE SpendsWell(q)'
  <2>1. ASSUME NEW u \in Workers
        PROVE  /\ At(u, q, {"reserved", "prepared"})' =>
                    At(u, q, {"reserved", "prepared"})
               /\ At(u, q, {"marked"})' => At(u, q, {"marked"})
    BY DEF HeldStep, StaysAt, GoesTo, HasClaimed, At
  <2>2. SpendsWell(q)
    BY SpendsWellIs
  <2>3. QED
    BY <2>1, <2>2, SpendsOn
<1>2. (\A r \in Runs : SpendsWell(r))' => (Spending /\ SentOnceAndHeld)'
  BY DEF Spending, SentOnceAndHeld, SpendsWell, Spent
<1>3. QED
  BY <1>1, <1>2

(* Worker w goes on to place p with its run r, and only the reservation    *)
(* and the requests of r may change.                                       *)
Spender(w, r, p) ==
    /\ r = held[w].lease.run /\ r \in Runs /\ held[w] # None
    /\ held'[w].lease.run = r /\ held'[w].phase = p
    /\ \A u \in Workers \ {w} : held'[u] = held[u]
    /\ \A q \in Runs \ {r} : budget'[q] = budget[q] /\ sent'[q] = sent[q]

LEMMA SpenderAlone ==
    ASSUME Spending, SentOnceAndHeld, NEW P, HeldStep(P), OwnerStep,
           NEW w \in Workers, NEW r, NEW p, Spender(w, r, p), SpendsWell(r)'
    PROVE  (Spending /\ SentOnceAndHeld)'
<1>1. ASSUME NEW q \in Runs, q # r PROVE SpendsWell(q)'
  <2>1. ASSUME NEW u \in Workers
        PROVE  /\ At(u, q, {"reserved", "prepared"})' =>
                    At(u, q, {"reserved", "prepared"})
               /\ At(u, q, {"marked"})' => At(u, q, {"marked"})
    BY <1>1 DEF Spender, At
  <2>2. SpendsWell(q)
    BY SpendsWellIs
  <2>3. budget'[q] = budget[q] /\ sent'[q] = sent[q]
    BY <1>1 DEF Spender
  <2>4. QED
    BY <2>1, <2>2, <2>3, SpendsOn
<1>2. (\A q \in Runs : SpendsWell(q))' => (Spending /\ SentOnceAndHeld)'
  BY DEF Spending, SentOnceAndHeld, SpendsWell, Spent
<1>3. QED
  BY <1>1, <1>2

LEMMA SpenderMoves ==
    ASSUME TypeOK, NEW w \in Workers, held[w] # None, NEW p \in Phases,
           held' = [held EXCEPT ![w].phase = p],
           LET r == held[w].lease.run IN
           \A q \in Runs \ {r} : budget'[q] = budget[q] /\ sent'[q] = sent[q]
    PROVE  Spender(w, held[w].lease.run, p)
<1>1. held[w] \in Held /\ held[w].lease.run \in Runs
  BY DEF TypeOK, ParkingTypeOK, Held, AiRunLease
<1>2. /\ held'[w] = [held[w] EXCEPT !.phase = p]
      /\ \A u \in Workers \ {w} : held'[u] = held[u]
  BY DEF TypeOK, ParkingTypeOK
<1>3. held'[w].lease.run = held[w].lease.run /\ held'[w].phase = p
  BY <1>1, <1>2 DEF Held
<1>4. QED
  BY <1>1, <1>2, <1>3 DEF Spender

(* The reservation of a run nothing was sent for.                          *)
LEMMA Unspent ==
    ASSUME NEW r \in Runs, SpendsWell(r), TypeOK, ~Spent(r)
    PROVE  sent[r] = 0 /\ \A u \in Workers : ~At(u, r, {"marked"})
  BY DEF SpendsWell, TypeOK, BackgroundTypeOK

LEMMA ReservationSpends ==
    ASSUME TypeOK, Links, Spending, SentOnceAndHeld, NEW w \in Workers,
           \/ ReserveBackground(w) \/ ReleaseUnstarted(w) \/ MarkFailed(w)
           \/ \E acked \in BOOLEAN : MarkUncertain(w, acked)
    PROVE  (Spending /\ SentOnceAndHeld)'
<1>1. PICK r : r = held[w].lease.run
  OBVIOUS
<1>2. PICK p \in Phases, b \in BudgetStates :
        /\ Fenced(w, {"ready", "reserved", "prepared"})
        /\ \/ budget[r] = "none" /\ b = "reserved" /\ p = "reserved"
           \/ /\ Fenced(w, {"reserved", "prepared"})
              /\ b \in {"uncertain", "released"}
              /\ p \in {"failed", "lost", "marked"}
              /\ p = "marked" => b = "uncertain"
        /\ held' = [held EXCEPT ![w].phase = p]
        /\ budget' = [budget EXCEPT ![r] = b]
        /\ sent' = sent /\ run' = run
  <2>1. CASE ReserveBackground(w)
    <3>1. "reserved" \in Phases /\ "reserved" \in BudgetStates
      BY DEF Phases, BudgetStates
    <3>2. QED
      BY <1>1, <2>1, <3>1 DEF ReserveBackground, Fenced
  <2>2. CASE ReleaseUnstarted(w)
    <3>1. "failed" \in Phases /\ "released" \in BudgetStates
      BY DEF Phases, BudgetStates
    <3>2. QED
      BY <1>1, <2>2, <3>1 DEF ReleaseUnstarted, Fenced
  <2>3. CASE MarkFailed(w)
    <3>1. "lost" \in Phases /\ "released" \in BudgetStates
      BY DEF Phases, BudgetStates
    <3>2. QED
      BY <1>1, <2>3, <3>1 DEF MarkFailed, Fenced
  <2>4. ASSUME NEW acked \in BOOLEAN, MarkUncertain(w, acked)
        PROVE  \E p \in {"marked", "lost"} :
                 /\ Fenced(w, {"reserved", "prepared"})
                 /\ held' = [held EXCEPT ![w].phase = p]
                 /\ budget' = [budget EXCEPT ![r] = "uncertain"]
                 /\ sent' = sent /\ run' = run
    BY <1>1, <2>4 DEF MarkUncertain, Fenced
  <2>5. {"marked", "lost"} \subseteq Phases /\ "uncertain" \in BudgetStates
    BY DEF Phases, BudgetStates
  <2>6. Fenced(w, {"reserved", "prepared"}) =>
          Fenced(w, {"ready", "reserved", "prepared"})
    BY DEF Fenced
  <2>7. CASE \E acked \in BOOLEAN : MarkUncertain(w, acked)
    BY <2>4, <2>5, <2>6, <2>7
  <2>8. QED
    BY <2>1, <2>2, <2>3, <2>7
<1>3. /\ held[w] # None /\ r \in Runs /\ run[r].owner = w
      /\ held[w].lease.run = r
  BY <1>1, <1>2, FencedFacts
<1>4. HeldStep({p}) /\ OwnerStep
  BY <1>2, <1>3, NextPlace, NoRow
<1>5. budget'[r] = b /\ \A q \in Runs \ {r} : budget'[q] = budget[q]
  BY <1>2, <1>3, OneBudget
<1>6. Spender(w, r, p)
  BY <1>1, <1>2, <1>3, <1>5, SpenderMoves
<1>7. SpendsWell(r)
  BY <1>3, SpendsWellIs
<1>8. ~Spent(r)
  <2>1. CASE budget[r] = "none"
    BY <2>1 DEF Spent
  <2>2. CASE Fenced(w, {"reserved", "prepared"})
    <3>1. At(w, r, {"reserved", "prepared"}) /\ Owns(w, r)
      BY <1>3, <2>2 DEF Fenced, At, Owns
    <3>2. QED
      BY <1>7, <3>1 DEF SpendsWell, Spent
  <2>3. QED
    BY <1>2, <2>1, <2>2
<1>9. sent[r] = 0 /\ \A u \in Workers : ~At(u, r, {"marked"})
  BY <1>3, <1>7, <1>8, Unspent
<1>10. sent'[r] = 0
  BY <1>2, <1>9
<1>11. ASSUME NEW u \in Workers, Owns(u, r)' PROVE u = w
  BY <1>2, <1>3, <1>11 DEF Owns
<1>12. ASSUME NEW u \in Workers, At(u, r, {"marked"})'
       PROVE  u = w /\ p = "marked" /\ b = "uncertain"
  BY <1>2, <1>6, <1>9, <1>12 DEF Spender, At
<1>13. ASSUME NEW u \in Workers, At(u, r, {"reserved", "prepared"})',
              Owns(u, r)'
       PROVE  budget'[r] = "reserved"
  BY <1>2, <1>5, <1>6, <1>11, <1>13 DEF Spender, At
<1>14. SpendsWell(r)'
  BY <1>5, <1>10, <1>12, <1>13 DEF SpendsWell, Spent
<1>15. QED
  BY <1>4, <1>6, <1>14, SpenderAlone

LEMMA PrepareSpends ==
    ASSUME TypeOK, Links, Spending, SentOnceAndHeld, NEW w \in Workers,
           Prepare(w)
    PROVE  (Spending /\ SentOnceAndHeld)'
<1>1. PICK r : r = held[w].lease.run
  OBVIOUS
<1>2. /\ Fenced(w, {"reserved"}) /\ budget[r] = "reserved"
      /\ Renew(w, [run[r] EXCEPT !.expiry = Ttl], "prepared")
      /\ budget' = budget /\ sent' = sent
  BY <1>1 DEF Prepare
<1>3. /\ held[w] # None /\ r \in Runs /\ run[r] \in RunRow /\ run[r].owner = w
  BY <1>1, <1>2, FencedFacts
<1>4. HeldStep({"prepared"}) /\ OwnerStep
  BY PrepareFrame DEF Backgrounded, RowsStep
<1>5. /\ run'[r].owner = w
      /\ held'[w] = Holding(r, [run[r] EXCEPT !.expiry = Ttl], "prepared")
      /\ \A u \in Workers \ {w} : held'[u] = held[u]
  BY <1>1, <1>2, <1>3 DEF Renew, TypeOK, ParkingTypeOK, RunRow
<1>6. Spender(w, r, "prepared")
  BY <1>1, <1>2, <1>3, <1>5 DEF Spender, Holding, LeaseFromRecord
<1>7. SpendsWell(r) /\ ~Spent(r)
  BY <1>2, <1>3, SpendsWellIs DEF Spent
<1>8. sent[r] = 0 /\ \A u \in Workers : ~At(u, r, {"marked"})
  BY <1>3, <1>7, Unspent
<1>9. ASSUME NEW u \in Workers PROVE ~At(u, r, {"marked"})'
  BY <1>6, <1>8 DEF Spender, At
<1>10. SpendsWell(r)'
  BY <1>2, <1>8, <1>9 DEF SpendsWell
<1>11. QED
  BY <1>4, <1>6, <1>10, SpenderAlone

LEMMA SubmitSpends ==
    ASSUME TypeOK, Links, Spending, SentOnceAndHeld, NEW w \in Workers,
           NEW lands \in BOOLEAN, NEW acked \in BOOLEAN,
           SubmitProvider(w, lands, acked)
    PROVE  (Spending /\ SentOnceAndHeld)'
<1>1. PICK r : r = held[w].lease.run
  OBVIOUS
<1>2. PICK p \in {"accepted", "lost"} :
        /\ held[w] # None /\ held[w].phase = "marked"
        /\ held' = [held EXCEPT ![w].phase = p]
        /\ sent' = [sent EXCEPT ![r] = sent[r] + 1]
        /\ budget' = budget /\ run' = run
  BY <1>1 DEF SubmitProvider
<1>3. r \in Runs /\ p \in Phases
  BY <1>1, <1>2 DEF TypeOK, ParkingTypeOK, Held, AiRunLease, Phases
<1>4. sent'[r] = sent[r] + 1 /\ \A q \in Runs \ {r} : sent'[q] = sent[q]
  BY <1>2, <1>3 DEF TypeOK, BackgroundTypeOK
<1>5. HeldStep({p}) /\ OwnerStep
  BY <1>2, <1>3, NextPlace, NoRow
<1>6. Spender(w, r, p)
  BY <1>1, <1>2, <1>3, <1>4, SpenderMoves
<1>7. SpendsWell(r) /\ At(w, r, {"marked"})
  BY <1>1, <1>2, <1>3, SpendsWellIs DEF At
<1>8. /\ sent[r] = 0 /\ Spent(r)
      /\ \A u \in Workers \ {w} : ~At(u, r, {"marked"})
  BY <1>7 DEF SpendsWell
<1>9. sent'[r] = 1 /\ Spent(r)'
  BY <1>2, <1>4, <1>8 DEF Spent
<1>10. ASSUME NEW u \in Workers PROVE ~At(u, r, {"marked"})'
  BY <1>2, <1>6, <1>8 DEF Spender, At
<1>11. ASSUME NEW u \in Workers, At(u, r, {"reserved", "prepared"})',
              Owns(u, r)'
       PROVE  budget'[r] = "reserved"
  <2>1. u # w
    BY <1>2, <1>6, <1>11 DEF Spender, At
  <2>2. At(u, r, {"reserved", "prepared"}) /\ Owns(u, r)
    BY <1>2, <1>6, <1>11, <2>1 DEF Spender, At, Owns
  <2>3. QED
    BY <1>2, <1>7, <2>2 DEF SpendsWell
<1>12. SpendsWell(r)'
  BY <1>9, <1>10, <1>11 DEF SpendsWell
<1>13. QED
  BY <1>5, <1>6, <1>12, SpenderAlone

(* The reservation of a run that is nobody's is charged.                   *)
LEMMA ChargeSpends ==
    ASSUME TypeOK, Links, Spending, SentOnceAndHeld, NEW r \in Runs,
           NEW b \in {"committed", "estimated"},
           budget' = [budget EXCEPT ![r] = b], sent' = sent, held' = held,
           OwnerStep, run'[r].owner = None
    PROVE  (Spending /\ SentOnceAndHeld)'
<1>1. budget'[r] = b /\ \A q \in Runs \ {r} : budget'[q] = budget[q]
  BY OneBudget DEF BudgetStates
<1>2. HeldStep({})
  BY NoWorker
<1>3. ASSUME NEW q \in Runs, q # r PROVE SpendsWell(q)'
  <2>1. SpendsWell(q)
    BY SpendsWellIs
  <2>2. budget'[q] = budget[q] /\ sent'[q] = sent[q]
    BY <1>1, <1>3
  <2>3. ASSUME NEW u \in Workers
        PROVE  /\ At(u, q, {"reserved", "prepared"})' =>
                    At(u, q, {"reserved", "prepared"})
               /\ At(u, q, {"marked"})' => At(u, q, {"marked"})
    BY DEF At
  <2>4. QED
    BY <1>2, <2>1, <2>2, <2>3, SpendsOn
<1>4. SpendsWell(r)'
  <2>1. SpendsWell(r) /\ Spent(r)'
    BY <1>1, SpendsWellIs DEF Spent
  <2>2. \A u \in Workers : ~Owns(u, r)'
    BY RunNoneAssumption DEF Owns
  <2>3. \A u \in Workers : At(u, r, {"marked"})' => At(u, r, {"marked"})
    BY DEF At
  <2>4. QED
    BY <2>1, <2>2, <2>3 DEF SpendsWell
<1>5. (\A q \in Runs : SpendsWell(q))' => (Spending /\ SentOnceAndHeld)'
  BY DEF Spending, SentOnceAndHeld, SpendsWell, Spent
<1>6. QED
  BY <1>3, <1>4, <1>5

LEMMA ReclaimSpends ==
    ASSUME TypeOK, Links, Spending, SentOnceAndHeld, NEW r \in Runs,
           ReclaimBudget(r)
    PROVE  (Spending /\ SentOnceAndHeld)'
<1>1. /\ run[r].state \in Closing /\ run' = run /\ held' = held
      /\ sent' = sent /\ budget' = [budget EXCEPT ![r] = "estimated"]
  BY DEF ReclaimBudget, parkingVars
<1>2. run'[r].owner = None
  BY <1>1 DEF Links, RowLinks, Unowned
<1>3. OwnerStep
  BY <1>1, NoRow
<1>4. QED
  BY <1>1, <1>2, <1>3, ChargeSpends

LEMMA CommitSpends ==
    ASSUME TypeOK, Links, Spending, SentOnceAndHeld, NEW p \in Reconcilers,
           CommitTerminal(p)
    PROVE  (Spending /\ SentOnceAndHeld)'
<1>1. OwnerStep /\ HeldStep({})
  BY CommitFrame DEF Backgrounded, RowsStep
<1>2. PICK r \in Runs, status \in Terminal :
        /\ run[r].state = "WaitingProvider"
        /\ \/ CloseRecovery({r}, Matched(r))
           \/ Committed(r, status)
  <2>1. Reconciles(p, "observed") /\ ClaimGraph(reconciler[p].run)
    BY CommitCases
  <2>2. reconciler[p].run \in Runs
    BY <2>1, ReconcilesFacts
  <2>3. QED
    BY <2>1, <2>2, CommitCases DEF ClaimGraph
<1>3. CASE CloseRecovery({r}, Matched(r))
  <2>1. budget' = budget /\ sent' = sent
    BY <1>3 DEF CloseRecovery
  <2>2. QED
    BY <1>1, <2>1, SpendsElsewhere
<1>4. CASE Committed(r, status)
  <2>1. /\ budget' = [budget EXCEPT ![r] = "committed"]
        /\ sent' = sent /\ held' = held
    BY <1>4 DEF Committed
  <2>2. PICK new :
          /\ run' = [run EXCEPT ![r] = new]
          /\ new = IF status = "completed"
                   THEN [Closed(run[r], "Completed", "none") EXCEPT
                           !.ckpt = [kind |-> "output",
                                     gen |-> run[r].gen, turns |-> 1]]
                   ELSE Closed(run[r], Ends[status], "other")
    BY <1>4 DEF Committed
  <2>3. run[r] \in RunRow
    BY DEF TypeOK, ParkingTypeOK
  <2>4. new.owner = None
    BY <1>2, <2>2, <2>3, EndedRow
  <2>5. run'[r].owner = None
    BY <2>2, <2>4 DEF TypeOK, ParkingTypeOK
  <2>6. QED
    BY <1>1, <2>1, <2>5, ChargeSpends
<1>5. QED
  BY <1>2, <1>3, <1>4

LEMMA BackgroundingSpends ==
    ASSUME TypeOK, Links, Spending, SentOnceAndHeld, Backgrounding
    PROVE  (Spending /\ SentOnceAndHeld)'
<1>1. ASSUME NEW P, Backgrounded(P),
             P \cap {"reserved", "prepared", "marked"} = {},
             budget' = budget, sent' = sent
      PROVE  (Spending /\ SentOnceAndHeld)'
  BY <1>1, SpendsElsewhere DEF Backgrounded, RowsStep
<1>2. ASSUME NEW w \in Workers, BackgroundWorker(w)
      PROVE  (Spending /\ SentOnceAndHeld)'
  <2>1. CASE \/ ReserveBackground(w) \/ ReleaseUnstarted(w) \/ MarkFailed(w)
             \/ \E acked \in BOOLEAN : MarkUncertain(w, acked)
    BY <2>1, ReservationSpends
  <2>2. CASE Prepare(w)
    BY <2>2, PrepareSpends
  <2>3. CASE \E lands, acked \in BOOLEAN : SubmitProvider(w, lands, acked)
    BY <2>3, SubmitSpends
  <2>4. CASE AcceptFailed(w)
    <3>1. budget' = budget /\ sent' = sent
      BY <2>4 DEF AcceptFailed, backgroundVars
    <3>2. QED
      BY <1>1, <2>4, <3>1, SubmitFrame
  <2>5. CASE Accept(w) \/ CloseAmbiguity(w)
    <3>1. budget' = budget /\ sent' = sent
      BY <2>5 DEF Accept, CloseAmbiguity
    <3>2. QED
      BY <1>1, <2>5, <3>1, AcceptFrame, AmbiguityFrame
  <2>6. QED
    BY <1>2, <2>1, <2>2, <2>3, <2>4, <2>5 DEF BackgroundWorker
<1>3. ASSUME NEW p \in Reconcilers, Reconciliation(p)
      PROVE  (Spending /\ SentOnceAndHeld)'
  <2>1. CASE CommitTerminal(p)
    BY <2>1, CommitSpends
  <2>2. CASE \/ \E r \in Runs : ClaimReconciliation(p, r)
             \/ HeartbeatReconciliation(p) \/ BindRetrieval(p)
             \/ \E status \in ObservedStatus : Observe(p, status)
             \/ ReconcilerCrash(p)
    <3>1. budget' = budget /\ sent' = sent
      BY <2>2 DEF ClaimReconciliation, HeartbeatReconciliation, BindRetrieval,
                  Observe, ReconcilerCrash
    <3>2. Backgrounded({})
      BY <2>2, ClaimReconciliationFrame, HeartbeatReconciliationFrame,
         ReconcilerFrame
    <3>3. QED
      BY <1>1, <3>1, <3>2
  <2>3. CASE ReleaseReconciliation(p) \/ CloseUnrecoverable(p)
    <3>1. budget' = budget /\ sent' = sent
      BY <2>3 DEF ReleaseReconciliation, CloseUnrecoverable, CloseRecovery
    <3>2. QED
      BY <1>1, <2>3, <3>1, ReleaseReconciliationFrame
  <2>4. QED
    BY <1>3, <2>1, <2>2, <2>3 DEF Reconciliation, ObservedStatus
<1>4. CASE CloseExpired
  <2>1. budget' = budget /\ sent' = sent
    BY <1>4 DEF CloseExpired, CloseRecovery
  <2>2. QED
    BY <1>1, <1>4, <2>1, CloseExpiredFrame
<1>5. CASE ProviderSide
  <2>1. budget' = budget /\ sent' = sent
    BY <1>5 DEF ProviderSide, ProviderFinishes, Webhook
  <2>2. Backgrounded({})
    BY <1>5, ProviderFrame DEF ProviderSide
  <2>3. QED
    BY <1>1, <2>1, <2>2
<1>6. CASE \E r \in Runs : ReclaimBudget(r)
  BY <1>6, ReclaimSpends
<1>7. QED
  BY <1>2, <1>3, <1>4, <1>5, <1>6 DEF Backgrounding

LEMMA SpendingStep ==
    ASSUME TypeOK, Links, Spending, SentOnceAndHeld, [Next]_vars
    PROVE  (Spending /\ SentOnceAndHeld)'
<1>1. CASE Backgrounding
  BY <1>1, BackgroundingSpends
<1>2. CASE Runner
  <2>1. /\ HeldStep(RunnerPlaces) /\ OwnerStep
        /\ budget' = budget /\ sent' = sent
    BY <1>2, RunnerFrame DEF Frame, backgroundVars
  <2>2. QED
    BY <2>1, SpendsElsewhere DEF RunnerPlaces
<1>3. CASE Approving
  <2>1. /\ HeldStep(ApprovalPlaces) /\ OwnerStep
        /\ budget' = budget /\ sent' = sent
    BY <1>3, ApprovingFrame DEF backgroundVars
  <2>2. QED
    BY <2>1, SpendsElsewhere DEF ApprovalPlaces
<1>4. CASE Subscribing
  <2>1. /\ HeldStep(SubscriptionPlaces) /\ OwnerStep
        /\ budget' = budget /\ sent' = sent
    BY <1>4, SubscribingFrame DEF Subscribed, backgroundVars
  <2>2. QED
    BY <2>1, SpendsElsewhere DEF SubscriptionPlaces
<1>5. CASE \E r \in Runs : RequestCancellation(r)
  <2>1. HeldStep({}) /\ OwnerStep /\ budget' = budget /\ sent' = sent
    BY <1>5, CancelStep DEF RequestCancellation
  <2>2. QED
    BY <2>1, SpendsElsewhere
<1>6. CASE Tick
  <2>1. HeldStep({}) /\ OwnerStep /\ budget' = budget /\ sent' = sent
    BY <1>6, TickStep DEF Aged
  <2>2. QED
    BY <2>1, SpendsElsewhere
<1>7. CASE UNCHANGED vars
  BY <1>7 DEF vars, parkingVars, backgroundVars, Spending, SentOnceAndHeld,
              Spent, Owns, At
<1>8. QED
  BY <1>1, <1>2, <1>3, <1>4, <1>5, <1>6, <1>7 DEF Next

-----------------------------------------------------------------------------
(* What ChargedWithItsEnd and RunWaitsWithItsSubmission say of one run.    *)
Settles(r) ==
    /\ charged[r] <= 1
    /\ charged[r] = 1 <=> Sub(r, Terminal)
    /\ Sub(r, Terminal) =>
         /\ submission[r].state = job[r]
         /\ budget[r] = "committed"
         /\ run[r].state = Ends[job[r]]
         /\ receipt[r] # None /\ receipt[r].state # "pending" =>
              receipt[r] = [state |-> "processed", status |-> job[r]]
    /\ run[r].state = "WaitingProvider"
         <=> Sub(r, {"waiting_provider", "reconciling"})
AllSettle == \A r \in Runs : Settles(r)

LEMMA SettlesIs ==
    ASSUME TRUE
    PROVE  /\ (ChargedWithItsEnd /\ RunWaitsWithItsSubmission) <=> AllSettle
           /\ (ChargedWithItsEnd /\ RunWaitsWithItsSubmission)' <=> AllSettle'
  BY DEF ChargedWithItsEnd, RunWaitsWithItsSubmission, Settles, AllSettle

LEMMA TerminalFacts ==
    /\ Terminal = {"completed", "failed", "cancelled"}
    /\ \A t \in Terminal : Ends[t] \in Closing
    /\ "WaitingProvider" \notin Closing
  BY DEF Terminal, Ends, Closing

LEMMA Unended ==
    ASSUME NEW r \in Runs, Settles(r), run[r].state \notin Closing
    PROVE  ~Sub(r, Terminal)
  BY TerminalFacts DEF Settles, Sub

(* The submission of r stays as it is, and so does what a response that    *)
(* was committed wrote.                                                    *)
Quiet(r) ==
    /\ (submission'[r] = None) <=> (submission[r] = None)
    /\ submission[r] # None => submission'[r].state = submission[r].state
    /\ charged'[r] = charged[r]
    /\ run'[r].state = "WaitingProvider" <=> run[r].state = "WaitingProvider"
    /\ Sub(r, Terminal) =>
         /\ job'[r] = job[r] /\ budget'[r] = budget[r]
         /\ run'[r].state = run[r].state
         /\ receipt'[r] = receipt[r]
            \/ (receipt'[r] # None /\ receipt'[r].state = "pending")

(* The submission of r is open or closed, but has no response.             *)
Opens(r) ==
    /\ ~Sub(r, Terminal) /\ ~Sub(r, Terminal)'
    /\ charged'[r] = charged[r]
    /\ run'[r].state = "WaitingProvider"
         <=> Sub(r, {"waiting_provider", "reconciling"})'

LEMMA QuietSettles ==
    ASSUME NEW r \in Runs, Settles(r), Quiet(r)
    PROVE  Settles(r)'
<1>1. /\ Sub(r, Terminal)' <=> Sub(r, Terminal)
      /\ Sub(r, {"waiting_provider", "reconciling"})'
           <=> Sub(r, {"waiting_provider", "reconciling"})
      /\ Sub(r, Terminal) => submission'[r].state = submission[r].state
  BY DEF Quiet, Sub
<1>2. ASSUME Sub(r, Terminal)
      PROVE  /\ submission'[r].state = job'[r]
             /\ budget'[r] = "committed"
             /\ run'[r].state = Ends[job'[r]]
             /\ receipt'[r] # None /\ receipt'[r].state # "pending" =>
                  receipt'[r] = [state |-> "processed", status |-> job'[r]]
  BY <1>1, <1>2 DEF Quiet, Settles
<1>3. QED
  BY <1>1, <1>2 DEF Quiet, Settles

LEMMA OpensSettles ==
    ASSUME NEW r \in Runs, Settles(r), Opens(r)
    PROVE  Settles(r)'
  BY DEF Opens, Settles

LEMMA AllSettleStep ==
    ASSUME AllSettle, \A r \in Runs : Quiet(r) \/ Opens(r)
    PROVE  AllSettle'
  BY QuietSettles, OpensSettles DEF AllSettle

(* Nothing happens to the submission of r.                                 *)
LEMMA LeftAlone ==
    ASSUME NEW r \in Runs, submission'[r] = submission[r], job'[r] = job[r],
           budget'[r] = budget[r], charged'[r] = charged[r],
           receipt'[r] = receipt[r], run'[r].state = run[r].state
    PROVE  Quiet(r)
  BY DEF Quiet

(* The provider's side: what was observed of a response stays true.        *)
LEMMA ObservedOn ==
    ASSUME TypeOK, Observed, job' = job, sent' = sent,
           \A p \in Reconcilers :
             \/ reconciler'[p] \in {reconciler[p], None}
             \/ /\ reconciler'[p].status \in Terminal
                /\ reconciler'[p].status = job[reconciler'[p].run]
             \/ reconciler'[p].status \notin Terminal
    PROVE  Observed'
  BY DEF Observed

(* Steps that leave submissions alone and change no run that waits for its *)
(* provider or has ended.                                                  *)
LEMMA RunsElsewhere ==
    ASSUME TypeOK, Observed, AllSettle, UNCHANGED backgroundVars,
           \A r \in Runs : run'[r].state # run[r].state =>
             /\ run[r].state \notin Closing \cup {"WaitingProvider"}
             /\ run'[r].state # "WaitingProvider"
    PROVE  (Observed /\ AllSettle)'
<1>1. Observed'
  BY DEF Observed, backgroundVars
<1>2. ASSUME NEW r \in Runs PROVE Quiet(r)
  <2>1. Settles(r)
    BY DEF AllSettle
  <2>2. Sub(r, Terminal) => run[r].state \in Closing
    BY <2>1, Unended
  <2>3. QED
    BY <2>2 DEF Quiet, backgroundVars
<1>3. QED
  BY <1>1, <1>2, AllSettleStep

(* A worker that passes its fence has a run without a response.            *)
LEMMA FencedUnended ==
    ASSUME TypeOK, Links, AllSettle, NEW w \in Workers, NEW P, Fenced(w, P),
           NEW r, r = held[w].lease.run
    PROVE  r \in Runs /\ ~Sub(r, Terminal) /\ held[w] # None
           /\ run[r] \in RunRow
<1>1. /\ r \in Runs /\ held[w] # None /\ run[r] \in RunRow
      /\ run[r].state \notin Closing
  BY FencedFacts DEF Unowned
<1>2. QED
  BY <1>1, Unended DEF AllSettle

LEMMA ReservationSettles ==
    ASSUME TypeOK, Links, Observed, AllSettle, NEW w \in Workers,
           \/ ReserveBackground(w) \/ ReleaseUnstarted(w) \/ MarkFailed(w)
           \/ \E acked \in BOOLEAN : MarkUncertain(w, acked)
    PROVE  (Observed /\ AllSettle)'
<1>1. PICK r : r = held[w].lease.run
  OBVIOUS
<1>2. /\ Fenced(w, {"ready", "reserved", "prepared"})
      /\ \E b : budget' = [budget EXCEPT ![r] = b]
      /\ UNCHANGED <<run, submission, job, receipt, reconciler, sent, charged>>
  BY <1>1 DEF ReserveBackground, ReleaseUnstarted, MarkFailed, MarkUncertain,
              Fenced
<1>3. r \in Runs /\ ~Sub(r, Terminal)
  BY <1>1, <1>2, FencedUnended
<1>4. \A q \in Runs \ {r} : budget'[q] = budget[q]
  BY <1>2 DEF TypeOK, BackgroundTypeOK
<1>5. \A q \in Runs : Quiet(q)
  BY <1>2, <1>3, <1>4 DEF Quiet
<1>6. Observed'
  BY <1>2, ObservedOn
<1>7. QED
  BY <1>5, <1>6, AllSettleStep

LEMMA PrepareSettles ==
    ASSUME TypeOK, Links, Observed, AllSettle, NEW w \in Workers, Prepare(w)
    PROVE  (Observed /\ AllSettle)'
<1>1. PICK r : r = held[w].lease.run
  OBVIOUS
<1>2. PICK s : s = [state |-> "prepared", owner |-> None, lease |-> None,
                    next |-> None, deadline |-> None, retries |-> 0]
  OBVIOUS
<1>3. /\ Fenced(w, {"reserved"}) /\ run[r].state = "Running"
      /\ submission' = [submission EXCEPT ![r] = s]
      /\ run' = [run EXCEPT ![r] = [run[r] EXCEPT !.expiry = Ttl]]
      /\ UNCHANGED <<job, budget, receipt, reconciler, sent, charged>>
  BY <1>1, <1>2 DEF Prepare, Renew
<1>4. r \in Runs /\ run[r] \in RunRow /\ ~Sub(r, Terminal)
  BY <1>1, <1>3, FencedUnended
<1>5. /\ submission'[r] = s /\ s.state = "prepared"
      /\ run'[r].state = "Running"
      /\ \A q \in Runs \ {r} :
           submission'[q] = submission[q] /\ run'[q] = run[q]
  BY <1>2, <1>3, <1>4 DEF TypeOK, ParkingTypeOK, BackgroundTypeOK, RunRow
<1>6. Opens(r)
  BY <1>3, <1>4, <1>5, TerminalFacts DEF Opens, Sub
<1>7. \A q \in Runs \ {r} : Quiet(q)
  BY <1>3, <1>5, LeftAlone
<1>8. Observed'
  BY <1>3, ObservedOn
<1>9. QED
  BY <1>6, <1>7, <1>8, AllSettleStep

LEMMA SubmitSettles ==
    ASSUME TypeOK, Links, Observed, AllSettle, Spending, NEW w \in Workers,
           NEW lands \in BOOLEAN, NEW acked \in BOOLEAN,
           SubmitProvider(w, lands, acked)
    PROVE  (Observed /\ AllSettle)'
<1>1. PICK r : r = held[w].lease.run
  OBVIOUS
<1>2. /\ held[w] # None /\ held[w].phase = "marked"
      /\ job' = job \/ job' = [job EXCEPT ![r] = "running"]
      /\ sent' = [sent EXCEPT ![r] = sent[r] + 1]
      /\ UNCHANGED <<run, submission, budget, receipt, reconciler, charged>>
  BY <1>1 DEF SubmitProvider
<1>3. r \in Runs
  BY <1>1, <1>2 DEF TypeOK, ParkingTypeOK, Held, AiRunLease
<1>4. At(w, r, {"marked"})
  BY <1>1, <1>2 DEF At
<1>5. sent[r] = 0
  BY <1>3, <1>4 DEF Spending
<1>6. job[r] = "none"
  BY <1>3, <1>5 DEF Observed
<1>7. ~Sub(r, Terminal)
  BY <1>3, <1>6, TerminalFacts DEF AllSettle, Settles, Sub
<1>8. /\ \A q \in Runs \ {r} : job'[q] = job[q] /\ sent'[q] = sent[q]
      /\ sent'[r] = 1
  BY <1>2, <1>3, <1>5 DEF TypeOK, BackgroundTypeOK
<1>9. \A q \in Runs : Quiet(q)
  BY <1>2, <1>7, <1>8 DEF Quiet
<1>10. Observed'
  <2>1. \A q \in Runs : job'[q] # "none" => sent'[q] > 0
    BY <1>8 DEF Observed
  <2>2. ASSUME NEW p \in Reconcilers, reconciler'[p] # None,
               reconciler'[p].status \in Terminal
        PROVE  reconciler'[p].status = job'[reconciler'[p].run]
    <3>1. /\ reconciler[p] # None /\ reconciler'[p] = reconciler[p]
          /\ reconciler[p].run \in Runs
          /\ reconciler[p].status = job[reconciler[p].run]
      BY <1>2, <2>2, ReconcilerFacts DEF Observed
    <3>2. reconciler[p].run # r
      BY <1>2, <1>6, <2>2, <3>1, TerminalFacts
    <3>3. QED
      BY <1>8, <3>1, <3>2
  <2>3. QED
    BY <2>1, <2>2 DEF Observed
<1>11. QED
  BY <1>9, <1>10, AllSettleStep

LEMMA AcceptSettles ==
    ASSUME TypeOK, Links, Observed, AllSettle, NEW w \in Workers,
           Accept(w) \/ CloseAmbiguity(w)
    PROVE  (Observed /\ AllSettle)'
<1>1. PICK r : r = held[w].lease.run
  OBVIOUS
<1>2. /\ Fenced(w, {"accepted", "lost"}) /\ Sub(r, {"prepared"})
      /\ UNCHANGED <<job, budget, receipt, reconciler, sent, charged>>
  BY <1>1 DEF Accept, CloseAmbiguity, Fenced
<1>3. /\ r \in Runs /\ run[r] \in RunRow /\ ~Sub(r, Terminal)
      /\ submission[r] \in Submission
  BY <1>1, <1>2, FencedUnended DEF TypeOK, BackgroundTypeOK, Sub
<1>4. PICK s \in Submission, row \in RunRow :
        /\ submission' = [submission EXCEPT ![r] = s]
        /\ run' = [run EXCEPT ![r] = row]
        /\ \/ s.state = "waiting_provider" /\ row.state = "WaitingProvider"
           \/ s.state = "closed" /\ row.state = "RecoveryRequired"
  <2>1. CASE Accept(w)
    <3> DEFINE s == [submission[r] EXCEPT !.state = "waiting_provider",
                                          !.next = 0, !.deadline = WaitTtl]
               row == [run[r] EXCEPT !.state = "WaitingProvider",
                                     !.owner = None, !.expiry = None,
                                     !.eligible = None, !.err = "none"]
    <3>1. /\ submission' = [submission EXCEPT ![r] = s]
          /\ run' = [run EXCEPT ![r] = row]
      BY <1>1, <2>1 DEF Accept, Leave
    <3>2. s \in Submission /\ s.state = "waiting_provider"
      <4>1. 0 \in Ticks /\ WaitTtl \in Ticks
        BY TicksFacts
      <4>2. QED
        BY <1>3, <4>1 DEF Submission
    <3>3. row \in RunRow /\ row.state = "WaitingProvider"
      BY <1>3, ZenonT(40) DEF RunRow, States, ErrorCodes
    <3> HIDE DEF s, row
    <3>4. QED
      BY <3>1, <3>2, <3>3
  <2>2. CASE CloseAmbiguity(w)
    <3> DEFINE s == [submission[r] EXCEPT !.state = "closed"]
               row == Closed(run[r], "RecoveryRequired", "other")
    <3>1. /\ submission' = [submission EXCEPT ![r] = s]
          /\ run' = [run EXCEPT ![r] = row]
      BY <1>1, <2>2 DEF CloseAmbiguity, Leave
    <3>2. s \in Submission /\ s.state = "closed"
      BY <1>3 DEF Submission
    <3>3. row \in RunRow /\ row.state = "RecoveryRequired"
      BY <1>3, ClosedRow DEF Closing, ErrorCodes
    <3> HIDE DEF s, row
    <3>4. QED
      BY <3>1, <3>2, <3>3
  <2>3. QED
    BY <2>1, <2>2
<1>5. /\ submission'[r] = s /\ run'[r] = row
      /\ \A q \in Runs \ {r} :
           submission'[q] = submission[q] /\ run'[q] = run[q]
  BY <1>3, <1>4 DEF TypeOK, ParkingTypeOK, BackgroundTypeOK
<1>6. submission'[r] # None
  BY <1>4, <1>5, SubmissionNoneAssumption
<1>7. Opens(r)
  BY <1>2, <1>3, <1>4, <1>5, <1>6, TerminalFacts DEF Opens, Sub
<1>8. \A q \in Runs \ {r} : Quiet(q)
  BY <1>2, <1>5, LeftAlone
<1>9. Observed'
  BY <1>2, ObservedOn
<1>10. QED
  BY <1>7, <1>8, <1>9, AllSettleStep

LEMMA ProviderSettles ==
    ASSUME TypeOK, Links, Observed, AllSettle, ProviderSide
    PROVE  (Observed /\ AllSettle)'
<1>1. PICK r \in Runs, status \in Terminal :
        ProviderFinishes(r, status) \/ Webhook(r, status)
  BY DEF ProviderSide
<1>2. CASE ProviderFinishes(r, status)
  <2>1. /\ job[r] = "running" /\ job' = [job EXCEPT ![r] = status]
        /\ UNCHANGED <<run, submission, budget, receipt, reconciler, sent,
                       charged>>
    BY <1>2 DEF ProviderFinishes, parkingVars
  <2>2. \A q \in Runs \ {r} : job'[q] = job[q]
    BY <2>1 DEF TypeOK, BackgroundTypeOK
  <2>3. ~Sub(r, Terminal)
    BY <2>1, TerminalFacts DEF AllSettle, Settles, Sub
  <2>4. \A q \in Runs : Quiet(q)
    BY <2>1, <2>2, <2>3 DEF Quiet
  <2>5. \A q \in Runs : job'[q] # "none" => sent'[q] > 0
    BY <2>1, <2>2 DEF Observed
  <2>6. ASSUME NEW p \in Reconcilers, reconciler'[p] # None,
               reconciler'[p].status \in Terminal
        PROVE  reconciler'[p].status = job'[reconciler'[p].run]
    <3>1. /\ reconciler[p] # None /\ reconciler'[p] = reconciler[p]
          /\ reconciler[p].run \in Runs
          /\ reconciler[p].status = job[reconciler[p].run]
      BY <2>1, <2>6, ReconcilerFacts DEF Observed
    <3>2. reconciler[p].run # r
      BY <2>1, <2>6, <3>1, TerminalFacts
    <3>3. QED
      BY <2>2, <3>1, <3>2
  <2>7. Observed'
    BY <2>5, <2>6 DEF Observed
  <2>8. QED
    BY <2>4, <2>7, AllSettleStep
<1>3. CASE Webhook(r, status)
  <2> DEFINE c == [state |-> "pending", status |-> status]
  <2>1. /\ receipt' = [receipt EXCEPT ![r] = c]
        /\ UNCHANGED <<run, submission, job, budget, reconciler, sent,
                       charged>>
    BY <1>3 DEF Webhook, parkingVars
  <2>2. c.state = "pending"
    OBVIOUS
  <2>3. receipt[r] = None
    BY <1>3 DEF Webhook
  <2> HIDE DEF c
  <2>4. receipt'[r] = c /\ \A q \in Runs \ {r} : receipt'[q] = receipt[q]
    BY <2>1 DEF TypeOK, BackgroundTypeOK
  <2>5. \A q \in Runs \ {r} : Quiet(q)
    BY <2>1, <2>4, LeftAlone
  <2>6. Quiet(r)
    BY <2>1, <2>2, <2>3, <2>4 DEF Quiet
  <2>7. Observed'
    BY <2>1, ObservedOn
  <2>8. QED
    BY <2>5, <2>6, <2>7, AllSettleStep
<1>4. QED
  BY <1>1, <1>2, <1>3

LEMMA ReclaimSettles ==
    ASSUME TypeOK, Links, Observed, AllSettle, NEW r \in Runs, ReclaimBudget(r)
    PROVE  (Observed /\ AllSettle)'
<1>1. /\ budget[r] \in {"reserved", "uncertain"}
      /\ budget' = [budget EXCEPT ![r] = "estimated"]
      /\ UNCHANGED <<run, submission, job, receipt, reconciler, sent, charged>>
  BY DEF ReclaimBudget, parkingVars
<1>2. ~Sub(r, Terminal)
  BY <1>1 DEF AllSettle, Settles
<1>3. \A q \in Runs \ {r} : budget'[q] = budget[q]
  BY <1>1 DEF TypeOK, BackgroundTypeOK
<1>4. \A q \in Runs : Quiet(q)
  BY <1>1, <1>2, <1>3 DEF Quiet
<1>5. Observed'
  BY <1>1, ObservedOn
<1>6. QED
  BY <1>4, <1>5, AllSettleStep

(* The submission of a run that goes on waiting for its provider.          *)
LEMMA WaitsOn ==
    ASSUME TypeOK, AllSettle, NEW r \in Runs, NEW s \in Submission,
           Sub(r, {"waiting_provider", "reconciling"}),
           s.state \in {"waiting_provider", "reconciling"},
           submission' = [submission EXCEPT ![r] = s],
           UNCHANGED <<run, job, budget, charged>>,
           \A q \in Runs \ {r} : receipt'[q] = receipt[q]
    PROVE  AllSettle'
<1>1. /\ submission'[r] = s /\ s # None
      /\ \A q \in Runs \ {r} : submission'[q] = submission[q]
  BY SubmissionNoneAssumption DEF TypeOK, BackgroundTypeOK
<1>2. run[r].state = "WaitingProvider"
  BY DEF AllSettle, Settles
<1>3. Opens(r)
  BY <1>1, <1>2, TerminalFacts DEF Opens, Sub
<1>4. \A q \in Runs \ {r} : Quiet(q)
  BY <1>1, LeftAlone
<1>5. QED
  BY <1>3, <1>4, AllSettleStep

LEMMA ClaimSettles ==
    ASSUME TypeOK, Links, Observed, AllSettle, NEW p \in Reconcilers,
           NEW r \in Runs, ClaimReconciliation(p, r)
    PROVE  (Observed /\ AllSettle)'
<1> DEFINE t == Least(ReconcileTtl, submission[r].deadline)
           s == [submission[r] EXCEPT !.state = "reconciling", !.owner = p,
                                      !.lease = t, !.next = t]
           x == [run |-> r, phase |-> "claimed", status |-> "none"]
<1>1. /\ Sub(r, {"waiting_provider", "reconciling"})
      /\ submission' = [submission EXCEPT ![r] = s]
      /\ receipt' = Matched(r)
      /\ reconciler' = [reconciler EXCEPT ![p] = x]
      /\ UNCHANGED <<run, job, budget, sent, charged>>
  BY DEF ClaimReconciliation, parkingVars
<1>2. submission[r] \in Submission /\ submission[r].deadline \in Ticks
  BY <1>1 DEF Sub, TypeOK, BackgroundTypeOK, Links, SubLinks, Submission
<1>3. t \in Ticks
  BY <1>2, LeastType, TicksFacts
<1> HIDE DEF t
<1>4. s \in Submission /\ s.state = "reconciling"
  BY <1>2, <1>3 DEF Submission
<1>5. \A q \in Runs \ {r} : receipt'[q] = receipt[q]
  BY <1>1 DEF Matched, TypeOK, BackgroundTypeOK
<1>6. x.status \notin Terminal
  BY TerminalFacts
<1> HIDE DEF s, x
<1>7. AllSettle'
  BY <1>1, <1>4, <1>5, WaitsOn
<1>8. Observed'
  <2>1. \A u \in Reconcilers :
          reconciler'[u] = reconciler[u] \/ reconciler'[u].status \notin Terminal
    BY <1>1, <1>6 DEF TypeOK, BackgroundTypeOK
  <2>2. QED
    BY <1>1, <2>1, ObservedOn
<1>9. QED
  BY <1>7, <1>8

LEMMA HeartbeatSettles ==
    ASSUME TypeOK, Links, Observed, AllSettle, NEW p \in Reconcilers,
           HeartbeatReconciliation(p)
    PROVE  (Observed /\ AllSettle)'
<1> DEFINE r == reconciler[p].run
           t == Least(ReconcileTtl, submission[r].deadline)
           s == [submission[r] EXCEPT !.lease = t, !.next = t]
<1>1. /\ Reconciles(p, "claimed")
      /\ submission' = [submission EXCEPT ![r] = s]
      /\ UNCHANGED <<run, job, budget, receipt, reconciler, sent, charged>>
  BY DEF HeartbeatReconciliation, parkingVars
<1>2. /\ r \in Runs /\ submission[r] \in Submission
      /\ submission[r].state = "reconciling" /\ submission[r] # None
      /\ submission[r].deadline # None
  BY <1>1, ReconcilesFacts
<1>3. t \in Ticks
  BY <1>2, LeastType, TicksFacts DEF Submission
<1> HIDE DEF t
<1>4. s \in Submission /\ s.state = "reconciling"
  BY <1>2, <1>3 DEF Submission
<1> HIDE DEF s
<1>5. Sub(r, {"waiting_provider", "reconciling"})
  BY <1>2 DEF Sub
<1> HIDE DEF r
<1>6. AllSettle'
  BY <1>1, <1>2, <1>4, <1>5, WaitsOn
<1>7. Observed'
  BY <1>1, ObservedOn
<1>8. QED
  BY <1>6, <1>7

LEMMA RetrievalSettles ==
    ASSUME TypeOK, Links, Observed, AllSettle, NEW p \in Reconcilers,
           \/ BindRetrieval(p) \/ ReconcilerCrash(p)
           \/ \E status \in ObservedStatus : Observe(p, status)
    PROVE  (Observed /\ AllSettle)'
<1>1. /\ UNCHANGED <<run, submission, job, budget, receipt, sent, charged>>
      /\ reconciler[p] # None
  BY DEF BindRetrieval, ReconcilerCrash, Observe, Reconciles, parkingVars
<1>2. AllSettle'
  BY <1>1, LeftAlone, AllSettleStep
<1>3. reconciler[p] \in Reconciler /\ reconciler[p].run \in Runs
  BY <1>1, ReconcilerFacts
<1>4. CASE ReconcilerCrash(p)
  BY <1>1, <1>2, <1>4, ObservedOn DEF ReconcilerCrash, TypeOK, BackgroundTypeOK
<1>5. CASE BindRetrieval(p)
  <2>1. /\ reconciler'[p] = [reconciler[p] EXCEPT !.phase = "bound"]
        /\ \A u \in Reconcilers \ {p} : reconciler'[u] = reconciler[u]
    BY <1>5 DEF BindRetrieval, TypeOK, BackgroundTypeOK
  <2>2. /\ reconciler'[p].run = reconciler[p].run
        /\ reconciler'[p].status = reconciler[p].status
    BY <1>3, <2>1 DEF Reconciler
  <2>3. \/ /\ reconciler'[p].status \in Terminal
           /\ reconciler'[p].status = job[reconciler'[p].run]
        \/ reconciler'[p].status \notin Terminal
    BY <1>1, <2>2 DEF Observed
  <2>4. QED
    BY <1>1, <1>2, <2>1, <2>3, ObservedOn
<1>6. CASE \E status \in ObservedStatus : Observe(p, status)
  <2>1. PICK status \in ObservedStatus : Observe(p, status)
    BY <1>6
  <2>2. /\ status \in {job[reconciler[p].run], "retryable", "unrecoverable"}
        /\ reconciler' = [reconciler EXCEPT ![p].phase = "observed",
                                            ![p].status = status]
    BY <2>1 DEF Observe
  <2>3. /\ reconciler'[p] = [reconciler[p] EXCEPT !.phase = "observed",
                                                  !.status = status]
        /\ \A u \in Reconcilers \ {p} : reconciler'[u] = reconciler[u]
    BY <2>2 DEF TypeOK, BackgroundTypeOK
  <2>4. /\ reconciler'[p].run = reconciler[p].run
        /\ reconciler'[p].status = status
    BY <1>3, <2>3 DEF Reconciler
  <2>5. \/ /\ reconciler'[p].status \in Terminal
           /\ reconciler'[p].status = job[reconciler'[p].run]
        \/ reconciler'[p].status \notin Terminal
    BY <2>2, <2>4, TerminalFacts
  <2>6. QED
    BY <1>1, <1>2, <2>3, <2>5, ObservedOn
<1>7. QED
  BY <1>4, <1>5, <1>6

LEMMA RecoverySettles ==
    ASSUME TypeOK, Links, Observed, AllSettle, NEW S \in SUBSET Runs,
           NEW receipts,
           \A r \in S : Sub(r, {"waiting_provider", "reconciling"}),
           \A r \in Runs \ S : receipts[r] = receipt[r],
           CloseRecovery(S, receipts),
           \A p \in Reconcilers : reconciler'[p] \in {reconciler[p], None}
    PROVE  (Observed /\ AllSettle)'
<1>1. /\ run' = [r \in Runs |->
            IF r \in S THEN Closed(run[r], "RecoveryRequired", "other")
                       ELSE run[r]]
      /\ submission' = [r \in Runs |->
            IF r \in S THEN ClosedSubmission(submission[r])
                       ELSE submission[r]]
      /\ receipt' = [r \in Runs |->
            IF r \in S THEN RecoveredReceipt(receipts[r]) ELSE receipts[r]]
      /\ UNCHANGED <<job, budget, sent, charged>>
  BY DEF CloseRecovery
<1>2. Observed'
  BY <1>1, ObservedOn
<1>3. ASSUME NEW r \in Runs, r \notin S PROVE Quiet(r)
  <2>1. /\ run'[r] = run[r] /\ submission'[r] = submission[r]
        /\ receipt'[r] = receipt[r]
    BY <1>1, <1>3
  <2>2. QED
    BY <1>1, <2>1, LeftAlone
<1>4. ASSUME NEW r \in S PROVE Opens(r)
  <2>1. /\ r \in Runs /\ run[r] \in RunRow /\ submission[r] \in Submission
    BY DEF TypeOK, ParkingTypeOK, BackgroundTypeOK, Sub
  <2>2. /\ submission'[r] = ClosedSubmission(submission[r])
        /\ run'[r] = Closed(run[r], "RecoveryRequired", "other")
    BY <1>1, <2>1
  <2>3. submission'[r].state = "closed" /\ run'[r].state = "RecoveryRequired"
    BY <2>1, <2>2, ClosedSubmissionType, ClosedRow DEF Closing, ErrorCodes
  <2>4. QED
    BY <1>1, <2>3, TerminalFacts DEF Opens, Sub
<1>5. QED
  BY <1>2, <1>3, <1>4, AllSettleStep

LEMMA ReleaseSettles ==
    ASSUME TypeOK, Links, Observed, AllSettle, NEW p \in Reconcilers,
           ReleaseReconciliation(p) \/ CloseUnrecoverable(p)
    PROVE  (Observed /\ AllSettle)'
<1> DEFINE r == reconciler[p].run
           s == [submission[r] EXCEPT !.state = "waiting_provider",
                   !.owner = None, !.lease = None, !.next = RetryDelay,
                   !.retries = @ + 1]
<1>1. PICK ph : Reconciles(p, ph)
  BY DEF ReleaseReconciliation, CloseUnrecoverable
<1>2. /\ r \in Runs /\ submission[r] \in Submission /\ submission[r] # None
      /\ submission[r].state = "reconciling"
  BY <1>1, ReconcilesFacts
<1>3. \A u \in Reconcilers : reconciler'[u] \in {reconciler[u], None}
  BY DEF ReleaseReconciliation, CloseUnrecoverable, TypeOK, BackgroundTypeOK
<1>4. Sub(r, {"waiting_provider", "reconciling"})
  BY <1>2 DEF Sub
<1>5. CASE CloseRecovery({r}, receipt)
  <2>1. {r} \in SUBSET Runs
    BY <1>2
  <2> HIDE DEF r
  <2>2. QED
    BY <1>3, <1>4, <1>5, <2>1, RecoverySettles
<1>6. CASE /\ submission' = [submission EXCEPT ![r] = s]
           /\ UNCHANGED <<parkingVars, job, budget, receipt, sent, charged>>
  <2>1. s \in Submission /\ s.state = "waiting_provider"
    <3>1. RetryDelay \in Ticks /\ submission[r].retries + 1 \in Nat
      BY <1>2, TicksFacts DEF Submission
    <3>2. QED
      BY <1>2, <3>1 DEF Submission
  <2>2. UNCHANGED <<run, job, budget, receipt, sent, charged>>
    BY <1>6 DEF parkingVars
  <2> HIDE DEF s, r
  <2>3. AllSettle'
    BY <1>2, <1>4, <1>6, <2>1, <2>2, WaitsOn
  <2>4. Observed'
    BY <1>3, <2>2, ObservedOn
  <2>5. QED
    BY <2>3, <2>4
<1>7. QED
  BY <1>5, <1>6 DEF ReleaseReconciliation, CloseUnrecoverable

LEMMA CommitSettles ==
    ASSUME TypeOK, Links, Observed, AllSettle, NEW p \in Reconcilers,
           CommitTerminal(p)
    PROVE  (Observed /\ AllSettle)'
<1>1. PICK r, status :
        /\ r = reconciler[p].run /\ status = reconciler[p].status
        /\ Reconciles(p, "observed") /\ status \in Terminal /\ ClaimGraph(r)
        /\ \/ CloseRecovery({r}, Matched(r))
           \/ ~Disagrees(r, status) /\ Committed(r, status)
        /\ reconciler' = [reconciler EXCEPT ![p] = None]
  BY CommitCases
<1>2. /\ r \in Runs /\ submission[r] \in Submission /\ submission[r] # None
      /\ submission[r].state = "reconciling" /\ reconciler[p] # None
      /\ run[r] \in RunRow /\ run[r].state = "WaitingProvider"
  BY <1>1, ReconcilesFacts DEF TypeOK, ParkingTypeOK, ClaimGraph
<1>3. \A u \in Reconcilers : reconciler'[u] \in {reconciler[u], None}
  BY <1>1 DEF TypeOK, BackgroundTypeOK
<1>4. CASE CloseRecovery({r}, Matched(r))
  <2>1. /\ {r} \in SUBSET Runs
        /\ \A q \in {r} : Sub(q, {"waiting_provider", "reconciling"})
        /\ \A q \in Runs \ {r} : Matched(r)[q] = receipt[q]
    BY <1>2 DEF Sub, Matched, TypeOK, BackgroundTypeOK
  <2>2. QED
    BY <1>3, <1>4, <2>1, RecoverySettles
<1>5. CASE ~Disagrees(r, status) /\ Committed(r, status)
  <2> DEFINE s == [ClosedSubmission(submission[r]) EXCEPT !.state = status]
             c == IF receipt[r] = None THEN None
                  ELSE [receipt[r] EXCEPT !.state = "processed"]
  <2>1. /\ budget' = [budget EXCEPT ![r] = "committed"]
        /\ charged' = [charged EXCEPT ![r] = charged[r] + 1]
        /\ submission' = [submission EXCEPT ![r] = s]
        /\ receipt' = [receipt EXCEPT ![r] = c]
        /\ job' = job /\ sent' = sent
    BY <1>5 DEF Committed
  <2>2. PICK new :
          /\ run' = [run EXCEPT ![r] = new]
          /\ new = IF status = "completed"
                   THEN [Closed(run[r], "Completed", "none") EXCEPT
                           !.ckpt = [kind |-> "output",
                                     gen |-> run[r].gen, turns |-> 1]]
                   ELSE Closed(run[r], Ends[status], "other")
    BY <1>5 DEF Committed
  <2>3. new.state = Ends[status]
    BY <1>1, <1>2, <2>2, EndedRow, ZenonT(40)
  <2>4. s \in Submission /\ s.state = status /\ s # None
    <3>1. ClosedSubmission(submission[r]) \in Submission
      BY <1>2, ClosedSubmissionType
    <3>2. QED
      BY <1>1, <3>1, SubmissionNoneAssumption DEF Submission
  <2>5. c # None => c = [state |-> "processed", status |-> status]
    <3>1. ASSUME receipt[r] # None
          PROVE  receipt[r] \in Receipt /\ receipt[r].status = status
      BY <1>2, <1>5, <3>1 DEF Disagrees, TypeOK, BackgroundTypeOK
    <3>2. QED
      BY <3>1 DEF Receipt
  <2> HIDE DEF s, c
  <2>6. /\ budget'[r] = "committed" /\ charged'[r] = charged[r] + 1
        /\ submission'[r] = s /\ receipt'[r] = c /\ run'[r] = new
        /\ \A q \in Runs \ {r} :
             /\ budget'[q] = budget[q] /\ charged'[q] = charged[q]
             /\ submission'[q] = submission[q] /\ receipt'[q] = receipt[q]
             /\ run'[q] = run[q]
    BY <1>2, <2>1, <2>2 DEF TypeOK, ParkingTypeOK, BackgroundTypeOK
  <2>7. status = job[r]
    BY <1>1, <1>2 DEF Observed
  <2>8. charged[r] = 0
    BY <1>2, TerminalFacts DEF AllSettle, Settles, Sub, TypeOK,
                               BackgroundTypeOK
  <2>9. Sub(r, Terminal)' /\ ~Sub(r, {"waiting_provider", "reconciling"})'
    BY <1>1, <2>4, <2>6, TerminalFacts DEF Sub
  <2>10. run'[r].state # "WaitingProvider"
    BY <1>1, <2>3, <2>6, TerminalFacts
  <2>11. Settles(r)'
    BY <2>1, <2>3, <2>4, <2>5, <2>6, <2>7, <2>8, <2>9, <2>10 DEF Settles
  <2>12. ASSUME NEW q \in Runs, q # r PROVE Settles(q)'
    BY <2>1, <2>6, <2>12, LeftAlone, QuietSettles DEF AllSettle
  <2>13. Observed'
    BY <1>3, <2>1, ObservedOn
  <2>14. QED
    BY <2>11, <2>12, <2>13 DEF AllSettle
<1>6. QED
  BY <1>1, <1>4, <1>5

LEMMA BackgroundingSettles ==
    ASSUME TypeOK, Links, Observed, AllSettle, Spending, Backgrounding
    PROVE  (Observed /\ AllSettle)'
<1>1. ASSUME NEW w \in Workers, BackgroundWorker(w)
      PROVE  (Observed /\ AllSettle)'
  <2>1. CASE \/ ReserveBackground(w) \/ ReleaseUnstarted(w) \/ MarkFailed(w)
             \/ \E acked \in BOOLEAN : MarkUncertain(w, acked)
    BY <2>1, ReservationSettles
  <2>2. CASE Prepare(w)
    BY <2>2, PrepareSettles
  <2>3. CASE \E lands, acked \in BOOLEAN : SubmitProvider(w, lands, acked)
    BY <2>3, SubmitSettles
  <2>4. CASE AcceptFailed(w)
    <3>1. UNCHANGED backgroundVars /\ run' = run
      BY <2>4 DEF AcceptFailed
    <3>2. QED
      BY <3>1, RunsElsewhere
  <2>5. CASE Accept(w) \/ CloseAmbiguity(w)
    BY <2>5, AcceptSettles
  <2>6. QED
    BY <1>1, <2>1, <2>2, <2>3, <2>4, <2>5 DEF BackgroundWorker
<1>2. ASSUME NEW p \in Reconcilers, Reconciliation(p)
      PROVE  (Observed /\ AllSettle)'
  <2>1. CASE \E r \in Runs : ClaimReconciliation(p, r)
    BY <2>1, ClaimSettles
  <2>2. CASE HeartbeatReconciliation(p)
    BY <2>2, HeartbeatSettles
  <2>3. CASE \/ BindRetrieval(p) \/ ReconcilerCrash(p)
             \/ \E status \in ObservedStatus : Observe(p, status)
    BY <2>3, RetrievalSettles
  <2>4. CASE ReleaseReconciliation(p) \/ CloseUnrecoverable(p)
    BY <2>4, ReleaseSettles
  <2>5. CASE CommitTerminal(p)
    BY <2>5, CommitSettles
  <2>6. QED
    BY <1>2, <2>1, <2>2, <2>3, <2>4, <2>5 DEF Reconciliation, ObservedStatus
<1>3. CASE CloseExpired
  <2>1. /\ Expired \in SUBSET Runs /\ CloseRecovery(Expired, receipt)
        /\ \A r \in Expired : Sub(r, {"waiting_provider", "reconciling"})
        /\ reconciler' = reconciler
    BY <1>3 DEF CloseExpired, Expired
  <2>2. QED
    BY <2>1, RecoverySettles
<1>4. CASE ProviderSide
  BY <1>4, ProviderSettles
<1>5. CASE \E r \in Runs : ReclaimBudget(r)
  BY <1>5, ReclaimSettles
<1>6. QED
  BY <1>1, <1>2, <1>3, <1>4, <1>5 DEF Backgrounding

LEMMA CancelSettles ==
    ASSUME TypeOK, Links, Observed, AllSettle, NEW r \in Runs,
           RequestCancellation(r)
    PROVE  (Observed /\ AllSettle)'
<1>1. /\ ~IsTerminal(run[r].state) /\ run'[r].state = "Cancelled"
      /\ \A q \in Runs \ {r} :
           run'[q] = run[q] /\ submission'[q] = submission[q]
      /\ UNCHANGED <<job, budget, receipt, reconciler, sent, charged>>
  BY CancelFacts
<1>2. Settles(r) /\ ~Sub(r, Terminal)
  <2>1. \A t \in Terminal : IsTerminal(Ends[t])
    BY DEF Ends, Terminal, IsTerminal
  <2>2. QED
    BY <1>1, <2>1 DEF AllSettle, Settles, Sub
<1>3. \/ /\ submission'[r] = submission[r]
         /\ ~Sub(r, {"prepared", "waiting_provider", "reconciling"})
      \/ submission'[r] # None /\ submission'[r].state = "closed"
  BY CancelSubmission
<1>4. Opens(r)
  BY <1>1, <1>2, <1>3, TerminalFacts DEF Opens, Sub
<1>5. \A q \in Runs \ {r} : Quiet(q)
  BY <1>1, LeftAlone
<1>6. Observed'
  BY <1>1, ObservedOn
<1>7. QED
  BY <1>4, <1>5, <1>6, AllSettleStep

LEMMA SettlesStep ==
    ASSUME TypeOK, Links, Spending, Observed, AllSettle, [Next]_vars
    PROVE  (Observed /\ AllSettle)'
<1>1. CASE Runner
  <2>1. RowsFit /\ UNCHANGED backgroundVars
    BY <1>1, RunnerFrame DEF Frame
  <2>2. QED
    BY <2>1, RunsElsewhere DEF RowsFit, Fits, Moves, Asleep
<1>2. CASE Approving
  <2>1. RowsMove /\ UNCHANGED backgroundVars
    BY <1>2, ApprovingFrame
  <2>2. QED
    BY <2>1, RunsElsewhere DEF RowsMove, Moves, Asleep
<1>3. CASE Subscribing
  <2>1. RowsChange({"WaitingProvider"}) /\ UNCHANGED backgroundVars
    BY <1>3, SubscribingFrame DEF Subscribed
  <2>2. QED
    BY <2>1, RunsElsewhere DEF RowsChange, Changes
<1>4. CASE Backgrounding
  BY <1>4, BackgroundingSettles
<1>5. CASE \E r \in Runs : RequestCancellation(r)
  BY <1>5, CancelSettles
<1>6. CASE Tick
  <2>1. Aged
    BY <1>6, TickStep
  <2>2. ASSUME NEW r \in Runs PROVE Quiet(r)
    BY <2>1 DEF Aged, SameSubmission, Quiet
  <2>3. Observed'
    BY <2>1, ObservedOn DEF Aged
  <2>4. QED
    BY <2>2, <2>3, AllSettleStep
<1>7. CASE UNCHANGED vars
  <2>1. UNCHANGED backgroundVars /\ run' = run
    BY <1>7 DEF vars, parkingVars
  <2>2. QED
    BY <2>1, RunsElsewhere
<1>8. QED
  BY <1>1, <1>2, <1>3, <1>4, <1>5, <1>6, <1>7 DEF Next

-----------------------------------------------------------------------------
(* What OneWait and RunWaitsWithItsWaiter say of one run.                  *)
Waits(r) == waiter[r] # None /\ waiter[r].state \in {"waiting", "claimed"}
WaitsWell(r) ==
    /\ OneWait(r)
    /\ run[r].state = "WaitingSubscription" <=> Waits(r)
    /\ Waits(r) => call[r].state = "waiting_subscription" /\ adoption[r] = None
    /\ Consumed(r) => call[r].state = "completed" /\ run[r].ckpt = None
AllWait == \A r \in Runs : WaitsWell(r)

LEMMA AllWaitIs ==
    ASSUME TRUE
    PROVE  /\ ((\A r \in Runs : OneWait(r)) /\ RunWaitsWithItsWaiter) <=> AllWait
           /\ ((\A r \in Runs : OneWait(r)) /\ RunWaitsWithItsWaiter)'
                <=> AllWait'
  BY DEF RunWaitsWithItsWaiter, WaitsWell, AllWait, Waits, Consumed

(* The wait of q stays as it is.                                           *)
Steady(q) ==
    /\ (waiter'[q] = None) <=> (waiter[q] = None)
    /\ Waits(q)' <=> Waits(q)
    /\ adoption'[q] = adoption[q]
    /\ approval'[q] # None => approval[q] # None
    /\ call'[q].state = call[q].state
    /\ run'[q].state = "WaitingSubscription"
         <=> run[q].state = "WaitingSubscription"
    /\ Consumed(q) => /\ run'[q].state \in {"Running"} \cup Closing
                      /\ run'[q].ckpt = None
    /\ \A u \in Workers : Owns(u, q)' =>
         /\ held'[u].phase = "turned" => call[q].state = "none"
         /\ Consumed(q) => held'[u].phase \in {"adopted", "continuing"}

(* The run q has no waiter, and its call is one of a tool.                 *)
Waiterless(q) ==
    /\ waiter[q] = None /\ waiter' = waiter /\ adoption' = adoption
    /\ call'[q].state # "none"
    /\ run'[q].state # "WaitingSubscription"
    /\ \A u \in Workers : Owns(u, q)' => held'[u].phase # "turned"

LEMMA SteadyWaits ==
    ASSUME NEW q \in Runs, WaitsWell(q), Steady(q)
    PROVE  WaitsWell(q)'
<1>1. Consumed(q)' <=> Consumed(q)
  BY DEF Consumed, Steady
<1>2. OneWait(q)'
  BY <1>1 DEF Steady, WaitsWell, OneWait
<1>3. QED
  BY <1>1, <1>2 DEF Steady, WaitsWell

LEMMA WaiterlessWaits ==
    ASSUME NEW q \in Runs, WaitsWell(q), Waiterless(q)
    PROVE  WaitsWell(q)'
<1>1. ~Consumed(q)' /\ ~Waits(q)' /\ adoption'[q] = None /\ waiter'[q] = None
  BY DEF Waiterless, WaitsWell, OneWait, Consumed, Waits
<1>2. OneWait(q)'
  BY <1>1 DEF Waiterless, OneWait
<1>3. QED
  BY <1>1, <1>2 DEF Waiterless, WaitsWell

LEMMA AllWaitStep ==
    ASSUME AllWait, \A q \in Runs : Steady(q) \/ Waiterless(q)
    PROVE  AllWait'
  BY SteadyWaits, WaiterlessWaits DEF AllWait

(* Worker w acts for r, is then at one of the places Q or free, and no     *)
(* other run or worker is concerned.                                       *)
Acts(w, r, Q) ==
    /\ held'[w] # None => held'[w].lease.run = r /\ held'[w].phase \in Q
    /\ \A u \in Workers \ {w} : held'[u] = held[u]
    /\ \A q \in Runs \ {r} :
         /\ run'[q] = run[q] /\ call'[q].state = call[q].state
         /\ approval'[q] # None => approval[q] # None
    /\ waiter' = waiter /\ adoption' = adoption

LEMMA Bystanders ==
    ASSUME AllWait, NEW w \in Workers, NEW r, NEW Q, Acts(w, r, Q)
    PROVE  \A q \in Runs \ {r} : Steady(q)
<1>1. ASSUME NEW q \in Runs \ {r} PROVE Steady(q)
  <2>1. WaitsWell(q)
    BY DEF AllWait
  <2>2. ASSUME NEW u \in Workers, Owns(u, q)'
        PROVE  Owns(u, q) /\ held'[u] = held[u]
    BY <2>2 DEF Acts, Owns
  <2>3. ASSUME NEW u \in Workers, Owns(u, q)'
        PROVE  /\ held'[u].phase = "turned" => call[q].state = "none"
               /\ Consumed(q) => held'[u].phase \in {"adopted", "continuing"}
    BY <2>1, <2>2, <2>3 DEF WaitsWell, OneWait
  <2>4. Consumed(q) => /\ run'[q].state \in {"Running"} \cup Closing
                       /\ run'[q].ckpt = None
    BY <2>1 DEF Acts, WaitsWell, OneWait
  <2>5. QED
    BY <2>3, <2>4 DEF Acts, Steady, Waits
<1>2. QED
  BY <1>1

(* Only the worker that passes its fence acts for its run.                 *)
LEMMA OwnerAlone ==
    ASSUME TypeOK, Links, NEW w \in Workers, NEW P, Fenced(w, P), NEW r,
           r = held[w].lease.run, NEW Q, Acts(w, r, Q), NEW R, HeldStep(R),
           OwnerStep
    PROVE  /\ r \in Runs /\ Owns(w, r) /\ held[w].phase \in P
           /\ \A u \in Workers : Owns(u, r)' => u = w /\ held'[u].phase \in Q
<1>1. /\ r \in Runs /\ held[w] # None /\ run[r].owner = w
      /\ held[w].phase \in P
  BY FencedFacts
<1>2. ASSUME NEW u \in Workers, Owns(u, r)' PROVE u = w
  <2>1. Owns(u, r) \/ HasClaimed(u)
    BY <1>1, <1>2, OwnerBefore
  <2>2. QED
    BY <1>1, <1>2, <2>1 DEF Owns, HasClaimed, Acts
<1>3. QED
  BY <1>1, <1>2 DEF Owns, Acts

LEMMA OwnerActs ==
    ASSUME TypeOK, Links, AllWait, NEW w \in Workers, NEW P, Fenced(w, P),
           P \cap {"adopted", "continuing"} = {}, NEW r,
           r = held[w].lease.run, NEW Q, Acts(w, r, Q),
           NEW R, HeldStep(R), OwnerStep,
           "turned" \notin Q \/ call[r].state = "none",
           call'[r].state = call[r].state,
           approval'[r] # None => approval[r] # None,
           run'[r].state = "WaitingSubscription"
             <=> run[r].state = "WaitingSubscription"
    PROVE  AllWait'
<1>1. /\ r \in Runs /\ Owns(w, r) /\ held[w].phase \in P
      /\ \A u \in Workers : Owns(u, r)' => u = w /\ held'[u].phase \in Q
  BY OwnerAlone
<1>2. ~Consumed(r)
  BY <1>1 DEF AllWait, WaitsWell, OneWait
<1>3. Steady(r)
  BY <1>1, <1>2 DEF Acts, Steady, Waits
<1>4. QED
  BY <1>3, Bystanders, AllWaitStep

LEMMA OwnerCalls ==
    ASSUME TypeOK, Links, AllWait, NEW w \in Workers, NEW P, Fenced(w, P),
           NEW r, r = held[w].lease.run, NEW Q, Acts(w, r, Q),
           NEW R, HeldStep(R), OwnerStep, "turned" \notin Q,
           waiter[r] = None, call'[r].state # "none",
           run'[r].state # "WaitingSubscription"
    PROVE  AllWait'
<1>1. \A u \in Workers : Owns(u, r)' => u = w /\ held'[u].phase \in Q
  BY OwnerAlone
<1>2. Waiterless(r)
  BY <1>1 DEF Acts, Waiterless
<1>3. QED
  BY <1>2, Bystanders, AllWaitStep

(* A worker goes on to place p, and no row changes.                        *)
LEMMA PlaceActs ==
    ASSUME TypeOK, AllWait, NEW w \in Workers, held[w] # None,
           NEW p \in Phases, held' = [held EXCEPT ![w].phase = p],
           UNCHANGED <<run, call, waiter, adoption, approval>>, p # "turned",
           \/ held[w].phase \notin {"adopted", "continuing"}
           \/ p \in {"adopted", "continuing"}
    PROVE  AllWait'
<1>1. held[w] \in Held
  BY DEF TypeOK, ParkingTypeOK
<1>2. /\ held'[w].lease = held[w].lease /\ held'[w].phase = p
      /\ \A u \in Workers \ {w} : held'[u] = held[u]
  BY <1>1 DEF TypeOK, ParkingTypeOK, Held
<1>3. ASSUME NEW q \in Runs PROVE Steady(q)
  <2>1. WaitsWell(q)
    BY DEF AllWait
  <2>2. \A u \in Workers : Owns(u, q)' => Owns(u, q)
    BY <1>2 DEF Owns
  <2>3. ASSUME NEW u \in Workers, Owns(u, q)'
        PROVE  /\ held'[u].phase = "turned" => call[q].state = "none"
               /\ Consumed(q) => held'[u].phase \in {"adopted", "continuing"}
    BY <1>2, <2>1, <2>2, <2>3 DEF WaitsWell, OneWait
  <2>4. QED
    BY <2>1, <2>3 DEF Steady, WaitsWell, OneWait, Waits
<1>4. QED
  BY <1>3, AllWaitStep

(* Nothing changes but that workers give up.                               *)
LEMMA GiveUpWaits ==
    ASSUME AllWait, UNCHANGED <<run, call, waiter, adoption>>,
           \A q \in Runs : approval'[q] # None => approval[q] # None,
           \A u \in Workers : held'[u] \in {held[u], None}
    PROVE  AllWait'
<1>1. ASSUME NEW q \in Runs PROVE Steady(q)
  <2>1. WaitsWell(q)
    BY DEF AllWait
  <2>2. \A u \in Workers : Owns(u, q)' => Owns(u, q) /\ held'[u] = held[u]
    BY DEF Owns
  <2>3. QED
    BY <2>1, <2>2 DEF Steady, WaitsWell, OneWait, Waits
<1>2. QED
  BY <1>1, AllWaitStep

LEMMA RenewActs ==
    ASSUME TypeOK, Links, NEW w \in Workers, NEW P, Fenced(w, P), NEW r,
           r = held[w].lease.run, NEW row, NEW p, Renew(w, row, p),
           waiter' = waiter, adoption' = adoption,
           \A q \in Runs \ {r} : /\ call'[q].state = call[q].state
                                 /\ approval'[q] # None => approval[q] # None
    PROVE  Acts(w, r, {p}) /\ run'[r] = row
<1>1. r \in Runs
  BY FencedFacts
<1>2. /\ held'[w] = Holding(r, row, p)
      /\ \A u \in Workers \ {w} : held'[u] = held[u]
      /\ run'[r] = row /\ \A q \in Runs \ {r} : run'[q] = run[q]
  BY <1>1 DEF Renew, TypeOK, ParkingTypeOK
<1>3. held'[w].lease.run = r /\ held'[w].phase = p
  BY <1>2 DEF Holding, LeaseFromRecord
<1>4. QED
  BY <1>2, <1>3 DEF Acts

(* An attempt goes on with its turn.                                       *)
LEMMA TurnWaits ==
    ASSUME TypeOK, Links, AllWait, NEW w \in Workers,
           \/ Start(w) \/ Heartbeat(w)
           \/ \E retained \in BOOLEAN : PersistProviderTurn(w, retained),
           UNCHANGED <<approval, waiter, adoption>>, NEW R, Frame(R)
    PROVE  AllWait'
<1>1. PICK r : r = held[w].lease.run
  OBVIOUS
<1>2. PICK P, row, p :
        /\ Fenced(w, P) /\ Renew(w, row, p)
        /\ P \cap {"adopted", "continuing"} = {}
        /\ call' = call
        /\ p # "turned" \/ call[r].state = "none"
  <2>1. CASE Start(w)
    BY <2>1, <1>1 DEF Start
  <2>2. CASE Heartbeat(w)
    <3>1. held[w].phase # "turned"
      BY <2>2 DEF Heartbeat, Fenced
    <3>2. QED
      BY <1>1, <2>2, <3>1 DEF Heartbeat
  <2>3. CASE \E retained \in BOOLEAN : PersistProviderTurn(w, retained)
    BY <1>1, <2>3 DEF PersistProviderTurn
  <2>4. QED
    BY <2>1, <2>2, <2>3
<1>3. Acts(w, r, {p}) /\ r \in Runs
  BY <1>1, <1>2, RenewActs, FencedFacts
<1>4. /\ HeldStep(R) /\ OwnerStep
      /\ run'[r].state = "WaitingSubscription"
           <=> run[r].state = "WaitingSubscription"
  BY <1>3 DEF Frame, RowsFit, Fits, Moves, Asleep
<1>5. /\ "turned" \notin {p} \/ call[r].state = "none"
      /\ call'[r].state = call[r].state
      /\ approval'[r] # None => approval[r] # None
  BY <1>2
<1>6. QED
  BY <1>1, <1>2, <1>3, <1>4, <1>5, OwnerActs

LEMMA StageWaits ==
    ASSUME TypeOK, Links, AllWait, NEW w \in Workers, StageCall(w),
           UNCHANGED <<approval, waiter, adoption>>
    PROVE  AllWait'
<1>1. PICK r : r = held[w].lease.run
  OBVIOUS
<1>2. /\ Fenced(w, {"turned"})
      /\ call' = [call EXCEPT ![r] = [state |-> "executing",
                                      gen |-> held[w].lease.gen]]
      /\ Renew(w, [run[r] EXCEPT !.expiry = Ttl], "staged")
  BY <1>1 DEF StageCall
<1>3. /\ r \in Runs /\ held[w] # None /\ held[w].phase = "turned"
      /\ run[r].owner = w /\ run[r].state \notin Unowned
  BY <1>1, <1>2, FencedFacts
<1>4. /\ call'[r].state = "executing"
      /\ \A q \in Runs \ {r} : call'[q] = call[q]
  BY <1>2, <1>3 DEF TypeOK, ParkingTypeOK
<1>5. waiter[r] = None
  BY <1>1, <1>3 DEF AllWait, WaitsWell, OneWait, Owns
<1>6. Acts(w, r, {"staged"})
  BY <1>1, <1>2, <1>4, RenewActs
<1>7. HeldStep({"staged"}) /\ OwnerStep
      /\ run'[r].state # "WaitingSubscription"
  BY <1>3, StageFrame DEF Frame, RowsFit, Fits, Moves, Asleep, Unowned
<1>8. call'[r].state # "none" /\ "turned" \notin {"staged"}
  BY <1>4
<1>9. QED
  BY <1>1, <1>2, <1>5, <1>6, <1>7, <1>8, OwnerCalls

LEMMA PlaceWaits ==
    ASSUME TypeOK, Links, AllWait, NEW w \in Workers,
           \/ ParkForWait(w) \/ HandoffFailed(w) \/ CleanupHandoff(w)
           \/ ReclaimAfterWait(w),
           UNCHANGED <<approval, waiter, adoption>>
    PROVE  AllWait'
<1>1. PICK p \in {"parking", "unsure", "failed", "continuing"} :
        /\ held[w] # None /\ run' = run /\ call' = call
        /\ held' = [held EXCEPT ![w].phase = p]
        /\ \/ held[w].phase \notin {"adopted", "continuing"}
           \/ p = "continuing"
  BY DEF ParkForWait, HandoffFailed, CleanupHandoff, ReclaimAfterWait, Fenced
<1>2. p \in Phases /\ p # "turned"
  BY <1>1 DEF Phases
<1>3. QED
  BY <1>1, <1>2, PlaceActs

LEMMA ClaimWaits ==
    ASSUME TypeOK, Links, AllWait, NEW w \in Workers, NEW r \in Runs,
           Claim(w, r), UNCHANGED <<approval, waiter, adoption>>
    PROVE  AllWait'
<1> DEFINE row == Leased(run[r], w, 0)
<1>1. /\ run[r].state \in {"Queued", "RetryScheduled"}
      /\ run' = [run EXCEPT ![r] = row] /\ call' = call
      /\ held' = [held EXCEPT ![w] = Holding(r, row, "claimed")]
  BY DEF Claim
<1>2. row.owner = w /\ row.state = "Leased"
  BY LeasedRow DEF TypeOK, ParkingTypeOK
<1> HIDE DEF row
<1>3. /\ run'[r] = row /\ \A q \in Runs \ {r} : run'[q] = run[q]
      /\ held'[w].lease.run = r /\ held'[w].phase = "claimed"
      /\ \A u \in Workers \ {w} : held'[u] = held[u]
  BY <1>1 DEF TypeOK, ParkingTypeOK, Holding, LeaseFromRecord
<1>4. Acts(w, r, {"claimed"})
  BY <1>1, <1>3 DEF Acts
<1>5. ~Consumed(r)
  BY <1>1 DEF AllWait, WaitsWell, OneWait, Closing
<1>6. \A u \in Workers : Owns(u, r)' => u = w
  BY <1>2, <1>3 DEF Owns
<1>7. Steady(r)
  BY <1>1, <1>2, <1>3, <1>5, <1>6 DEF Steady, Waits
<1>8. QED
  BY <1>4, <1>7, Bystanders, AllWaitStep

LEMMA FinishWaits ==
    ASSUME TypeOK, Links, AllWait, NEW w \in Workers, NEW s \in Closing,
           Finish(w, s), UNCHANGED <<approval, waiter, adoption>>
    PROVE  AllWait'
<1>1. PICK r : r = held[w].lease.run
  OBVIOUS
<1>2. PICK P : Fenced(w, P)
  BY DEF Finish
<1>3. r \in Runs /\ run[r] \in RunRow /\ run[r].state \notin Unowned
  BY <1>1, <1>2, FencedFacts
<1> DEFINE row == Closed(run[r], s, "other")
<1>4. /\ run' = [run EXCEPT ![r] = row] /\ held' = [held EXCEPT ![w] = None]
      /\ call' = call
  BY <1>1 DEF Finish, Leave
<1>5. row.state = s /\ row.owner = None /\ row.ckpt = run[r].ckpt
  BY <1>3, ClosedRow DEF ErrorCodes
<1> HIDE DEF row
<1>6. /\ run'[r] = row /\ \A q \in Runs \ {r} : run'[q] = run[q]
      /\ held'[w] = None /\ \A u \in Workers \ {w} : held'[u] = held[u]
  BY <1>3, <1>4 DEF TypeOK, ParkingTypeOK
<1>7. Acts(w, r, {})
  BY <1>4, <1>6 DEF Acts
<1>8. \A u \in Workers : ~Owns(u, r)'
  BY <1>5, <1>6, RunNoneAssumption DEF Owns
<1>9. Consumed(r) => run[r].ckpt = None
  BY <1>3 DEF AllWait, WaitsWell
<1>10. s # "WaitingSubscription" /\ run[r].state # "WaitingSubscription"
  BY <1>3 DEF Closing, Unowned
<1>11. Steady(r)
  BY <1>4, <1>5, <1>6, <1>8, <1>9, <1>10 DEF Steady, Waits
<1>12. QED
  BY <1>7, <1>11, Bystanders, AllWaitStep

LEMMA RecoverWaits ==
    ASSUME TypeOK, Links, AllWait, RecoverExpiredLeases,
           UNCHANGED <<approval, waiter, adoption>>
    PROVE  AllWait'
<1> DEFINE due == {r \in {r \in Runs : run[r].state \in Recoverable} :
                     run[r].expiry <= 0}
<1>1. /\ run' = [r \in Runs |-> IF r \in due THEN Recovered(run[r])
                                             ELSE run[r]]
      /\ held' = held /\ call' = call
  BY DEF RecoverExpiredLeases
<1>2. ASSUME NEW r \in Runs, r \in due PROVE Steady(r)
  <2>1. run[r].state \in {"Leased", "Running", "WaitingTool"}
    BY <1>2 DEF Recoverable
  <2> HIDE DEF due
  <2>2. run'[r] = Recovered(run[r]) /\ run[r] \in RunRow
    BY <1>1, <1>2 DEF TypeOK, ParkingTypeOK
  <2>3. /\ run'[r].state \in {"RetryScheduled", "Failed", "RecoveryRequired"}
        /\ (run[r].state # "Leased" /\ run[r].ckpt = None) =>
             run'[r].state = "RecoveryRequired"
        /\ run'[r].owner = None /\ run'[r].ckpt = run[r].ckpt
    BY <2>2, RecoveredRow
  <2>4. Consumed(r) => run[r].state = "Running" /\ run[r].ckpt = None
    BY <2>1 DEF AllWait, WaitsWell, OneWait, Closing
  <2>5. \A u \in Workers : ~Owns(u, r)'
    BY <2>3, RunNoneAssumption DEF Owns
  <2>6. QED
    BY <1>1, <2>1, <2>3, <2>4, <2>5 DEF Steady, Waits, Closing
<1>3. ASSUME NEW r \in Runs, r \notin due PROVE Steady(r)
  <2> HIDE DEF due
  <2>1. run'[r] = run[r]
    BY <1>1, <1>3
  <2>2. WaitsWell(r)
    BY DEF AllWait
  <2>3. \A u \in Workers : Owns(u, r)' => Owns(u, r)
    BY <1>1, <2>1 DEF Owns
  <2>4. QED
    BY <1>1, <2>1, <2>2, <2>3 DEF Steady, WaitsWell, OneWait, Waits
<1>4. QED
  BY <1>2, <1>3, AllWaitStep

LEMMA RunnerWaits ==
    ASSUME TypeOK, Links, AllWait, Runner
    PROVE  AllWait'
<1>1. UNCHANGED <<approval, waiter, adoption>>
  BY DEF Runner, approvalVars, subscriptionVars
<1>2. Frame(RunnerPlaces)
  BY RunnerFrame
<1>3. ASSUME NEW w \in Workers, ParkingWorker(w) \/ ConfirmParkedWait(w)
      PROVE  AllWait'
  <2>1. CASE \E r \in Runs : Claim(w, r)
    BY <1>1, <2>1, ClaimWaits
  <2>2. CASE \/ Start(w) \/ Heartbeat(w)
             \/ \E retained \in BOOLEAN : PersistProviderTurn(w, retained)
    BY <1>1, <1>2, <2>2, TurnWaits
  <2>3. CASE StageCall(w)
    BY <1>1, <2>3, StageWaits
  <2>4. CASE \/ ParkForWait(w) \/ HandoffFailed(w) \/ CleanupHandoff(w)
             \/ ReclaimAfterWait(w)
    BY <1>1, <2>4, PlaceWaits
  <2>5. CASE \E s \in Closing : Finish(w, s)
    BY <1>1, <2>5, FinishWaits
  <2>6. CASE Crash(w) \/ ConfirmParkedWait(w)
    <3>1. /\ held' = [held EXCEPT ![w] = None] /\ run' = run /\ call' = call
      BY <2>6 DEF Crash, ConfirmParkedWait
    <3>2. \A u \in Workers : held'[u] \in {held[u], None}
      BY <3>1 DEF TypeOK, ParkingTypeOK
    <3>3. QED
      BY <1>1, <3>1, <3>2, GiveUpWaits
  <2>7. QED
    BY <1>3, <2>1, <2>2, <2>3, <2>4, <2>5, <2>6 DEF ParkingWorker
<1>4. CASE RecoverExpiredLeases
  BY <1>1, <1>4, RecoverWaits
<1>5. CASE \/ \E r \in Runs : MaintainBinding(r)
           \/ \E r \in Runs, s \in {"active", "archived", "deleting"} :
                MoveSession(r, s)
  <2>1. held' = held /\ run' = run /\ call' = call
    BY <1>5 DEF MaintainBinding, MoveSession
  <2>2. QED
    BY <1>1, <2>1, GiveUpWaits
<1>6. QED
  BY <1>3, <1>4, <1>5 DEF Runner

LEMMA RequestWaits ==
    ASSUME TypeOK, Links, AllWait, NEW w \in Workers, NEW acked \in BOOLEAN,
           RequestApproval(w, acked), UNCHANGED <<waiter, adoption>>
    PROVE  AllWait'
<1>1. PICK r : r = held[w].lease.run
  OBVIOUS
<1>2. /\ Fenced(w, {"parking", "staged", "captured"})
      /\ call[r].state = "executing" /\ run[r].state = "Running"
      /\ call' = [call EXCEPT ![r].state = "waiting_approval"]
      /\ approval' = [approval EXCEPT ![r] =
                        [state |-> "pending", expiry |-> WaitTtl]]
  <2>1. Fenced(w, {"parking", "staged", "captured"})
    BY DEF RequestApproval, Handing, Fenced
  <2>2. call[r] = [state |-> "executing", gen |-> held[w].lease.gen]
    BY <1>1 DEF RequestApproval
  <2>3. call[r].state = "executing"
    BY <2>2
  <2>4. /\ run[r].state = "Running"
        /\ call' = [call EXCEPT ![r].state = "waiting_approval"]
        /\ approval' = [approval EXCEPT ![r] =
                          [state |-> "pending", expiry |-> WaitTtl]]
    BY <1>1 DEF RequestApproval
  <2>5. QED
    BY <2>1, <2>3, <2>4
<1>3. r \in Runs /\ held[w] # None /\ held[w] \in Held
  BY <1>1, <1>2, FencedFacts
<1>4. /\ call'[r].state = "waiting_approval"
      /\ \A q \in Runs \ {r} :
           call'[q] = call[q] /\ approval'[q] = approval[q]
  BY <1>2, <1>3 DEF TypeOK, ParkingTypeOK, ApprovalTypeOK, Call
<1>5. waiter[r] = None
  BY <1>2, <1>3 DEF AllWait, WaitsWell, OneWait
<1>6. PICK row : \E p \in {"waiting", "requested", "unsure"} :
        \/ Renew(w, row, p)
        \/ /\ run' = [run EXCEPT ![r] = row]
           /\ held' = [held EXCEPT ![w].phase = p]
  <2> DEFINE next == IF held[w].phase = "parking"
                     THEN Parked(run[r], "WaitingApproval",
                                 CheckpointOf(w, "parked"))
                     ELSE [run[r] EXCEPT !.state = "WaitingApproval",
                                         !.expiry = Ttl, !.err = "none"]
  <2>1. IF acked /\ held[w].phase # "parking"
        THEN Renew(w, next, "waiting")
        ELSE /\ run' = [run EXCEPT ![r] = next]
             /\ held' = [held EXCEPT ![w].phase =
                            IF acked THEN "requested" ELSE "unsure"]
    BY <1>1 DEF RequestApproval
  <2> HIDE DEF next
  <2>2. QED
    BY <2>1
<1> PICK p \in {"waiting", "requested", "unsure"} :
      \/ Renew(w, row, p)
      \/ /\ run' = [run EXCEPT ![r] = row]
         /\ held' = [held EXCEPT ![w].phase = p]
  BY <1>6
<1>7. Acts(w, r, {p})
  <2>1. CASE Renew(w, row, p)
    BY <1>1, <1>2, <1>4, <2>1, RenewActs
  <2>2. CASE /\ run' = [run EXCEPT ![r] = row]
             /\ held' = [held EXCEPT ![w].phase = p]
    <3>1. /\ \A q \in Runs \ {r} : run'[q] = run[q]
          /\ \A u \in Workers \ {w} : held'[u] = held[u]
          /\ held'[w] = [held[w] EXCEPT !.phase = p]
      BY <2>2 DEF TypeOK, ParkingTypeOK
    <3>2. held'[w].lease.run = r /\ held'[w].phase = p
      BY <1>1, <1>3, <3>1 DEF Held
    <3>3. QED
      BY <1>4, <3>1, <3>2 DEF Acts
  <2>3. QED
    BY <1>6, <2>1, <2>2
<1>8. /\ HeldStep({"waiting", "requested", "unsure"}) /\ OwnerStep
      /\ run'[r].state # "WaitingSubscription"
  BY <1>2, <1>3, RequestFrame DEF RowsMove, Moves, Asleep
<1>9. "turned" \notin {p} /\ call'[r].state # "none"
  BY <1>4, <1>6
<1>10. QED
  BY <1>1, <1>2, <1>5, <1>7, <1>8, <1>9, OwnerCalls

LEMMA ClaimApprovedWaits ==
    ASSUME TypeOK, Links, AllWait, NEW w \in Workers, NEW r \in Runs,
           NEW earlier \in SUBSET (Runs \ {r}), ClaimApproved(w, r, earlier),
           UNCHANGED <<waiter, adoption>>
    PROVE  AllWait'
<1> DEFINE row == Resumed(run[r], w)
<1>1. /\ Is(r, {"approved"}) /\ Linked(r)
      /\ \A q \in earlier : Is(q, {"approved"})
      /\ run' = [run EXCEPT ![r] = row]
      /\ call' = [call EXCEPT ![r].gen = row.gen]
      /\ held' = [held EXCEPT ![w] = Holding(r, row, "resumed")]
      /\ approval' = [ExpiredIn(earlier) EXCEPT ![r].state = "resume_claimed"]
  BY DEF ClaimApproved
<1>2. call[r].state = "waiting_approval" /\ run[r].state = "WaitingApproval"
  BY <1>1 DEF Linked
<1>3. row.owner = w /\ row.state = "WaitingTool"
  BY <1>2, ResumedRow DEF TypeOK, ParkingTypeOK
<1> HIDE DEF row
<1>4. /\ run'[r] = row /\ \A q \in Runs \ {r} : run'[q] = run[q]
      /\ held'[w].lease.run = r /\ held'[w].phase = "resumed"
      /\ \A u \in Workers \ {w} : held'[u] = held[u]
  BY <1>1 DEF TypeOK, ParkingTypeOK, Holding, LeaseFromRecord
<1>5. /\ call'[r].state = "waiting_approval"
      /\ \A q \in Runs \ {r} : call'[q] = call[q]
  BY <1>1, <1>2 DEF TypeOK, ParkingTypeOK, Call
<1>6. \A q \in Runs \ {r} : approval'[q] # None => approval[q] # None
  <2>1. /\ ExpiredIn(earlier) \in [Runs -> Approval \cup {None}]
        /\ \A q \in Runs : q \notin earlier =>
             ExpiredIn(earlier)[q] = approval[q]
    BY <1>1, ExpiredType DEF Is
  <2>2. \A q \in Runs \ {r} : approval'[q] = ExpiredIn(earlier)[q]
    BY <1>1, <2>1
  <2>3. QED
    BY <1>1, <2>1, <2>2 DEF Is
<1>7. Acts(w, r, {"resumed"})
  BY <1>4, <1>5, <1>6 DEF Acts
<1>8. waiter[r] = None
  BY <1>2 DEF AllWait, WaitsWell, OneWait
<1>9. \A u \in Workers : Owns(u, r)' => u = w
  BY <1>3, <1>4 DEF Owns
<1>10. Waiterless(r)
  BY <1>3, <1>4, <1>5, <1>8, <1>9 DEF Waiterless
<1>11. QED
  BY <1>7, <1>10, Bystanders, AllWaitStep

(* The call of the tool goes on.                                           *)
LEMMA ToolCallWaits ==
    ASSUME TypeOK, Links, AllWait, NEW w \in Workers,
           ConsumeApproval(w) \/ FinishToolCall(w),
           UNCHANGED <<waiter, adoption>>, NEW R, Frame(R)
    PROVE  AllWait'
<1>1. PICK r : r = held[w].lease.run
  OBVIOUS
<1>2. PICK P, row, p, s :
        /\ Fenced(w, P) /\ Renew(w, row, p) /\ p # "turned" /\ s # "none"
        /\ call[r].state \in {"waiting_approval", "executing"}
        /\ call' = [call EXCEPT ![r].state = s]
        /\ approval' = approval
           \/ approval' = [approval EXCEPT ![r].state = "consumed"]
  <2>1. CASE ConsumeApproval(w)
    <3> DEFINE row == [run[r] EXCEPT !.state = "Running", !.expiry = Ttl,
                                     !.err = "none"]
    <3>1. /\ Fenced(w, {"authorised"}) /\ Renew(w, row, "consumed")
          /\ call[r] = [state |-> "waiting_approval",
                        gen |-> held[w].lease.gen]
          /\ call' = [call EXCEPT ![r].state = "executing"]
          /\ approval' = [approval EXCEPT ![r].state = "consumed"]
      BY <1>1, <2>1 DEF ConsumeApproval
    <3> HIDE DEF row
    <3>2. call[r].state = "waiting_approval"
      BY <3>1
    <3>3. QED
      BY <3>1, <3>2
  <2>2. CASE FinishToolCall(w)
    <3> DEFINE row == [run[r] EXCEPT !.expiry = Ttl]
    <3>1. /\ Fenced(w, {"executed"}) /\ Renew(w, row, "done")
          /\ call[r] = [state |-> "executing", gen |-> held[w].lease.gen]
          /\ call' = [call EXCEPT ![r].state = "completed"]
          /\ approval' = approval
      BY <1>1, <2>2 DEF FinishToolCall, approvalVars
    <3> HIDE DEF row
    <3>2. call[r].state = "executing"
      BY <3>1
    <3>3. QED
      BY <3>1, <3>2
  <2>3. QED
    BY <2>1, <2>2
<1>3. r \in Runs /\ run[r].state \notin Unowned
  BY <1>1, <1>2, FencedFacts
<1>4. /\ call'[r].state = s
      /\ \A q \in Runs \ {r} : call'[q] = call[q] /\ approval'[q] = approval[q]
  BY <1>2, <1>3 DEF TypeOK, ParkingTypeOK, ApprovalTypeOK, Call
<1>5. Acts(w, r, {p})
  BY <1>1, <1>2, <1>4, RenewActs
<1>6. waiter[r] = None
  BY <1>2, <1>3 DEF AllWait, WaitsWell, OneWait
<1>7. /\ HeldStep(R) /\ OwnerStep /\ run'[r].state # "WaitingSubscription"
  BY <1>3 DEF Frame, RowsFit, Fits, Moves, Asleep, Unowned
<1>8. call'[r].state # "none" /\ "turned" \notin {p}
  BY <1>2, <1>4
<1>9. QED
  BY <1>1, <1>2, <1>5, <1>6, <1>7, <1>8, OwnerCalls

LEMMA BatchWaits ==
    ASSUME TypeOK, Links, AllWait, NEW w \in Workers,
           PersistToolBatch(w) \/ ConsumeBatch(w),
           UNCHANGED <<waiter, adoption>>, NEW R, Frame(R)
    PROVE  AllWait'
<1>1. PICK r : r = held[w].lease.run
  OBVIOUS
<1>2. PICK row, p :
        /\ Fenced(w, {"done", "batched", "adopting"}) /\ Renew(w, row, p)
        /\ p # "turned" /\ call' = call /\ approval' = approval
  BY <1>1 DEF PersistToolBatch, ConsumeBatch, approvalVars, Fenced
<1>3. r \in Runs
  BY <1>1, <1>2, FencedFacts
<1>4. Acts(w, r, {p})
  BY <1>1, <1>2, RenewActs
<1>5. /\ HeldStep(R) /\ OwnerStep
      /\ run'[r].state = "WaitingSubscription"
           <=> run[r].state = "WaitingSubscription"
  BY <1>3 DEF Frame, RowsFit, Fits, Moves, Asleep
<1>6. /\ "turned" \notin {p} \/ call[r].state = "none"
      /\ call'[r].state = call[r].state
      /\ approval'[r] # None => approval[r] # None
      /\ {"done", "batched", "adopting"} \cap {"adopted", "continuing"} = {}
  BY <1>2
<1>7. QED
  BY <1>1, <1>2, <1>4, <1>5, <1>6, OwnerActs

LEMMA CloseWaits ==
    ASSUME TypeOK, Links, AllWait, CloseWait, UNCHANGED <<waiter, adoption>>
    PROVE  AllWait'
<1>1. CASE run' = run /\ call' = call /\ approval' = approval /\ held' = held
  BY <1>1, GiveUpWaits
<1>2. CASE ~(run' = run /\ call' = call /\ approval' = approval
             /\ held' = held)
  <2>1. PICK r : r = pass.run
    OBVIOUS
  <2> DEFINE row == Closed(run[r], pass.verdict, "other")
  <2>2. /\ pass # None /\ run[r] = pass.row /\ held' = held
        /\ pass.verdict \in {"Cancelled", "RecoveryRequired"}
        /\ run' = [run EXCEPT ![r] = row]
        /\ \/ call' = call /\ approval' = approval
           \/ /\ pass.verdict = "Cancelled" /\ call[r] = pass.call
              /\ Is(r, {pass.seen})
              /\ call' = [call EXCEPT ![r].state = "closed"]
              /\ approval' = approval
                 \/ approval' = [approval EXCEPT ![r].state = "expired"]
    BY <1>2, <2>1 DEF CloseWait
  <2>3. pass \in Pass
    BY <2>2 DEF TypeOK, ApprovalTypeOK
  <2>4. r \in Runs /\ pass.verdict \in {"Cancelled", "RecoveryRequired"}
    BY <2>1, <2>2, <2>3 DEF Pass
  <2>5. /\ run[r] \in RunRow /\ run[r].state = "WaitingApproval"
        /\ pass.verdict = "Cancelled" => pass.call.state = "waiting_approval"
    BY <2>2, <2>4 DEF TypeOK, ParkingTypeOK, Links, PassLinks
  <2>6. row.state = pass.verdict /\ row.owner = None
    BY <2>4, <2>5, ClosedRow DEF Closing, ErrorCodes
  <2> HIDE DEF row
  <2>7. run'[r] = row /\ \A q \in Runs \ {r} : run'[q] = run[q]
    BY <2>2, <2>4 DEF TypeOK, ParkingTypeOK
  <2>8. WaitsWell(r) /\ ~Consumed(r)
    BY <2>4, <2>5 DEF AllWait, WaitsWell, OneWait, Closing
  <2>9. \A u \in Workers : ~Owns(u, r)'
    BY <2>6, <2>7, RunNoneAssumption DEF Owns
  <2>10. run'[r].state # "WaitingSubscription"
    BY <2>4, <2>6, <2>7
  <2>11. Steady(r) \/ Waiterless(r)
    <3>1. CASE call' = call /\ approval' = approval
      BY <2>4, <2>5, <2>8, <2>9, <2>10, <3>1 DEF Steady, Waits
    <3>2. CASE /\ call[r].state = "waiting_approval"
               /\ call' = [call EXCEPT ![r].state = "closed"]
      <4>1. call'[r].state = "closed"
        BY <2>4, <3>2 DEF TypeOK, ParkingTypeOK, Call
      <4>2. waiter[r] = None
        BY <2>8, <3>2 DEF WaitsWell, OneWait
      <4>3. QED
        BY <2>9, <2>10, <4>1, <4>2 DEF Waiterless
    <3>3. QED
      BY <2>2, <2>5, <3>1, <3>2
  <2>12. ASSUME NEW q \in Runs, q # r PROVE Steady(q)
    <3>1. /\ run'[q] = run[q] /\ call'[q] = call[q]
          /\ approval'[q] = approval[q]
      BY <2>2, <2>7, <2>12 DEF TypeOK, ParkingTypeOK, ApprovalTypeOK
    <3>2. WaitsWell(q) /\ \A u \in Workers : Owns(u, q)' => Owns(u, q)
      BY <2>2, <3>1 DEF AllWait, Owns
    <3>3. QED
      BY <2>2, <3>1, <3>2 DEF Steady, WaitsWell, OneWait, Waits
  <2>13. QED
    BY <2>11, <2>12, AllWaitStep
<1>3. QED
  BY <1>1, <1>2

LEMMA ApprovingWaits ==
    ASSUME TypeOK, Links, AllWait, Approving
    PROVE  AllWait'
<1>1. UNCHANGED <<waiter, adoption>>
  BY DEF Approving, subscriptionVars
<1>2. ASSUME NEW w \in Workers, ApprovalWorker(w) PROVE AllWait'
  <2>1. CASE \E acked \in BOOLEAN : RequestApproval(w, acked)
    BY <1>1, <2>1, RequestWaits
  <2>2. CASE \E r \in Runs : \E earlier \in SUBSET (Runs \ {r}) :
               ClaimApproved(w, r, earlier)
    BY <1>1, <2>2, ClaimApprovedWaits
  <2>3. CASE ReadApproval(w)
    <3>1. /\ held[w] # None /\ held[w].phase \in {"waiting", "resumed"}
          /\ UNCHANGED <<run, call, approval>>
      BY <2>3 DEF ReadApproval, approvalVars
    <3>2. ASSUME NEW q \in Runs PROVE Steady(q)
      <4>1. held[w] \in Held
        BY <3>1 DEF TypeOK, ParkingTypeOK
      <4>2. /\ held'[w].lease = held[w].lease
            /\ held'[w].phase = "authorised"
            /\ \A u \in Workers \ {w} : held'[u] = held[u]
        BY <2>3, <4>1 DEF ReadApproval, TypeOK, ParkingTypeOK, Held
      <4>3. WaitsWell(q)
        BY DEF AllWait
      <4>4. \A u \in Workers : Owns(u, q)' => Owns(u, q)
        BY <3>1, <4>2 DEF Owns
      <4>5. ASSUME NEW u \in Workers, Owns(u, q)'
            PROVE  /\ held'[u].phase = "turned" => call[q].state = "none"
                   /\ Consumed(q) =>
                        held'[u].phase \in {"adopted", "continuing"}
        BY <3>1, <4>2, <4>3, <4>4, <4>5 DEF WaitsWell, OneWait
      <4>6. QED
        BY <1>1, <3>1, <4>3, <4>5 DEF Steady, WaitsWell, OneWait, Waits
    <3>3. QED
      BY <3>2, AllWaitStep
  <2>4. CASE ConsumeApproval(w)
    <3>1. Frame({"consumed"})
      BY <2>4, ConsumeFrame DEF Approved
    <3>2. QED
      BY <1>1, <2>4, <3>1, ToolCallWaits
  <2>5. CASE \E ran \in BOOLEAN, p \in Phases : ExecuteTool(w, ran, p)
    BY <1>1, <2>5, PlaceActs DEF ExecuteTool
  <2>6. CASE FinishToolCall(w) \/ PersistToolBatch(w) \/ ConsumeBatch(w)
    <3>1. Frame({"done", "batched", "adopted"})
      BY <2>6, ToolFrame DEF Approved
    <3>2. QED
      BY <1>1, <2>6, <3>1, ToolCallWaits, BatchWaits
  <2>7. QED
    BY <1>2, <2>1, <2>2, <2>3, <2>4, <2>5, <2>6 DEF ApprovalWorker
<1>3. ASSUME UNCHANGED parkingVars,
             \A q \in Runs : approval'[q] # None => approval[q] # None
      PROVE  AllWait'
  BY <1>1, <1>3, GiveUpWaits DEF parkingVars
<1>4. CASE \E r \in Runs, s \in ApprovalStates : Decide(r, s)
  <2>1. PICK r \in Runs, s \in ApprovalStates : Decide(r, s)
    BY <1>4
  <2>2. /\ approval[r] # None /\ UNCHANGED parkingVars
        /\ approval' = [approval EXCEPT ![r].state = s]
    BY <2>1 DEF Decide, Is
  <2>3. \A q \in Runs \ {r} : approval'[q] = approval[q]
    BY <2>2, StateWritten
  <2>4. QED
    BY <1>3, <2>2, <2>3
<1>5. CASE ExpireApproved
  <2> DEFINE approved == {r \in Runs : Is(r, {"approved"})}
  <2>1. approval' = ExpiredIn(approved) /\ UNCHANGED parkingVars
    BY <1>5 DEF ExpireApproved
  <2>2. \A q \in Runs : q \notin approved => approval'[q] = approval[q]
    BY <2>1, ExpiredType DEF Is
  <2>3. QED
    BY <1>3, <2>1, <2>2 DEF Is
<1>6. CASE \/ \E r \in Runs : LoadWait(r)
           \/ \E policy \in BOOLEAN : JudgeWait(policy)
           \/ PassFails \/ PassReturns
  BY <1>3, <1>6 DEF LoadWait, JudgeWait, PassFails, PassReturns
<1>7. CASE CloseWait
  BY <1>1, <1>7, CloseWaits
<1>8. QED
  BY <1>2, <1>4, <1>5, <1>6, <1>7 DEF Approving, Reconcile, PassGoesOn

(* A step of the subscription waits that is not of q.                      *)
LEMMA AloneWaits ==
    ASSUME NEW q \in Runs, WaitsWell(q),
           /\ run'[q] = run[q] /\ call'[q] = call[q]
           /\ waiter'[q] = waiter[q] /\ adoption'[q] = adoption[q]
           /\ approval'[q] = approval[q],
           \A u \in Workers : \/ held'[u] \in {held[u], None}
                              \/ held'[u].lease.run # q
    PROVE  WaitsWell(q)'
<1>1. \A u \in Workers : Owns(u, q)' => Owns(u, q) /\ held'[u] = held[u]
  BY DEF Owns
<1>2. OneWait(q)'
  BY <1>1 DEF WaitsWell, OneWait, Consumed
<1>3. QED
  BY <1>2 DEF WaitsWell, Waits, Consumed

(* A run that waits is nobody's and asked for nothing else.                *)
LEMMA SleeperFacts ==
    ASSUME TypeOK, Links, AllWait, NEW r \in Runs, Waits(r)
    PROVE  /\ run[r] \in RunRow /\ run[r].state = "WaitingSubscription"
           /\ run[r].owner = None /\ call[r].state = "waiting_subscription"
           /\ waiter[r] # None /\ waiter[r] \in Waiter
           /\ adoption[r] = None /\ approval[r] = None
<1>1. WaitsWell(r) /\ RowLinks(r)
  BY DEF AllWait, Links
<1>2. QED
  BY <1>1 DEF WaitsWell, OneWait, RowLinks, Unowned, Waits, TypeOK,
              ParkingTypeOK, SubscriptionTypeOK

(* A run with a waiter that is nobody's.                                   *)
LEMMA WakesWell ==
    ASSUME NEW r \in Runs, waiter'[r] # None, approval'[r] = None,
           run'[r].owner = None, ~Consumed(r)',
           call'[r].state \in {"waiting_subscription", "completed", "closed"},
           run'[r].state = "WaitingSubscription" <=> Waits(r)',
           Waits(r)' => /\ call'[r].state = "waiting_subscription"
                        /\ adoption'[r] = None
    PROVE  WaitsWell(r)'
<1>1. \A u \in Workers : ~Owns(u, r)'
  BY RunNoneAssumption DEF Owns
<1>2. OneWait(r)'
  BY <1>1 DEF OneWait
<1>3. QED
  BY <1>2 DEF WaitsWell

LEMMA CaptureWaits ==
    ASSUME TypeOK, Links, AllWait, NEW w \in Workers, CaptureSource(w),
           approval' = approval
    PROVE  AllWait'
<1>1. /\ Fenced(w, {"turned"})
      /\ UNCHANGED <<run, call, waiter, adoption>>
      /\ held' = [held EXCEPT ![w].phase = "captured", ![w].pos = Len(log)]
  BY DEF CaptureSource, subscriptionVars
<1>2. held[w] # None /\ held[w] \in Held /\ held[w].phase = "turned"
  BY <1>1, FencedFacts
<1>3. /\ held'[w].lease = held[w].lease /\ held'[w].phase = "captured"
      /\ \A u \in Workers \ {w} : held'[u] = held[u]
  BY <1>1, <1>2 DEF TypeOK, ParkingTypeOK, Held
<1>4. ASSUME NEW q \in Runs PROVE Steady(q)
  <2>1. WaitsWell(q)
    BY DEF AllWait
  <2>2. \A u \in Workers : Owns(u, q)' => Owns(u, q)
    BY <1>1, <1>2, <1>3 DEF Owns
  <2>3. ASSUME NEW u \in Workers, Owns(u, q)'
        PROVE  /\ held'[u].phase = "turned" => call[q].state = "none"
               /\ Consumed(q) => held'[u].phase \in {"adopted", "continuing"}
    BY <1>2, <1>3, <2>1, <2>2, <2>3 DEF WaitsWell, OneWait
  <2>4. QED
    BY <1>1, <2>1, <2>3 DEF Steady, WaitsWell, OneWait, Waits
<1>5. QED
  BY <1>4, AllWaitStep

LEMMA RegisterWaits ==
    ASSUME TypeOK, Links, AllWait, NEW w \in Workers, NEW acked \in BOOLEAN,
           PersistRegistration(w, acked), approval' = approval
    PROVE  AllWait'
<1>1. PICK r : r = held[w].lease.run
  OBVIOUS
<1>2. PICK P : Fenced(w, P)
  BY DEF PersistRegistration, Register, Handing
<1>3. /\ held[w] # None /\ held[w] \in Held /\ r \in Runs
      /\ run[r] \in RunRow
  BY <1>1, <1>2, FencedFacts
<1> DEFINE new == NewWaiter(held[w].pos, held[w].pos)
           c == CheckpointOf(w, "parked")
           row == Parked(run[r], "WaitingSubscription", c)
<1>4. /\ run[r].state = "Running" /\ call[r].state = "none"
      /\ run' = [run EXCEPT ![r] = row]
      /\ call' = [call EXCEPT ![r] = [state |-> "waiting_subscription",
                                      gen |-> held[w].lease.gen]]
      /\ waiter' = [waiter EXCEPT ![r] = new] /\ adoption' = adoption
      /\ \/ \E p \in Phases : held' = [held EXCEPT ![w].phase = p]
         \/ held' = [held EXCEPT ![w] = None]
  BY <1>1 DEF PersistRegistration, Register, Phases
<1>5. /\ row.state = "WaitingSubscription" /\ row.owner = None
  BY <1>3 DEF Parked, RunRow
<1>6. new \in Waiter /\ new.state = "waiting"
  BY <1>3, TicksFacts DEF Waiter, NewWaiter, Held
<1> HIDE DEF new, row
<1>7. /\ run'[r] = row /\ waiter'[r] = new /\ waiter'[r] # None
      /\ call'[r].state = "waiting_subscription"
      /\ \A q \in Runs \ {r} : /\ run'[q] = run[q] /\ call'[q] = call[q]
                               /\ waiter'[q] = waiter[q]
  BY <1>3, <1>4, <1>6, WaiterNoneAssumption
     DEF TypeOK, ParkingTypeOK, SubscriptionTypeOK
<1>8. adoption[r] = None /\ approval[r] = None
  BY <1>3, <1>4 DEF AllWait, WaitsWell, OneWait
<1>9. WaitsWell(r)'
  <2>1. ~Consumed(r)' /\ Waits(r)' /\ approval'[r] = None
        /\ adoption'[r] = None
    BY <1>4, <1>6, <1>7, <1>8 DEF Consumed, Waits
  <2>2. QED
    BY <1>3, <1>5, <1>7, <2>1, WakesWell
<1>10. \A u \in Workers : held'[u] \in {held[u], None}
                          \/ held'[u].lease.run = r
  BY <1>1, <1>3, <1>4 DEF TypeOK, ParkingTypeOK, Held
<1>11. ASSUME NEW q \in Runs, q # r PROVE WaitsWell(q)'
  BY <1>4, <1>7, <1>10, <1>11, AloneWaits DEF AllWait
<1>12. QED
  BY <1>9, <1>11 DEF AllWait

LEMMA ClaimAdoptionWaits ==
    ASSUME TypeOK, Links, AllWait, NEW w \in Workers, ClaimAdoption(w),
           approval' = approval
    PROVE  AllWait'
<1>1. PICK r : r = held[w].lease.run
  OBVIOUS
<1>2. r \in Runs
  BY <1>1, FencedFacts DEF ClaimAdoption
<1> DEFINE a == [adoption[r] EXCEPT !.state = "claimed",
                                    !.gen = held[w].lease.gen]
<1>3. /\ run[r].ckpt # None /\ run[r].ckpt.kind = "adoption"
      /\ waiter[r].state = "adopted" /\ adoption[r].state = "queued"
      /\ adoption' = [adoption EXCEPT ![r] = a]
      /\ UNCHANGED <<run, held, call, waiter>>
  BY <1>1 DEF ClaimAdoption, parkingVars
<1>4. waiter[r] # None /\ adoption[r] # None /\ adoption[r] \in Adoption
  BY <1>2, <1>3 DEF Links, RowLinks, TypeOK, SubscriptionTypeOK
<1>5. a.state = "claimed"
  BY <1>4 DEF Adoption
<1> HIDE DEF a
<1>6. /\ adoption'[r] = a
      /\ \A q \in Runs \ {r} : adoption'[q] = adoption[q]
  BY <1>2, <1>3 DEF TypeOK, SubscriptionTypeOK
<1>7. WaitsWell(r)'
  <2>1. WaitsWell(r) /\ ~Consumed(r)' /\ ~Waits(r) /\ ~Waits(r)'
    BY <1>2, <1>3, <1>5, <1>6 DEF AllWait, Consumed, Waits
  <2>2. \A u \in Workers : Owns(u, r)' => Owns(u, r)
    BY <1>3 DEF Owns
  <2>3. OneWait(r)'
    BY <1>3, <1>4, <2>1, <2>2 DEF WaitsWell, OneWait
  <2>4. QED
    BY <1>3, <2>1, <2>3 DEF WaitsWell
<1>8. ASSUME NEW q \in Runs, q # r PROVE WaitsWell(q)'
  BY <1>3, <1>6, <1>8, AloneWaits DEF AllWait
<1>9. QED
  BY <1>7, <1>8 DEF AllWait

(* A worker that starts to adopt the outcome of a wait has started the     *)
(* run.                                                                    *)
Adopting ==
    \A w \in Workers : (held[w] # None /\ held[w].phase = "adopting") =>
        held[w].lease.state = "Running"

LEMMA AdoptingKept ==
    ASSUME Adopting, NEW P, HeldStep(P), "adopting" \notin P
    PROVE  Adopting'
<1>1. ASSUME NEW w \in Workers, held'[w] # None,
             held'[w].phase = "adopting"
      PROVE  held'[w].lease.state = "Running"
  <2>1. StaysAt(w)
    BY <1>1 DEF HeldStep, GoesTo, HasClaimed
  <2>2. QED
    BY <1>1, <2>1 DEF StaysAt, Adopting
<1>2. QED
  BY <1>1 DEF Adopting

LEMMA ConsumeAdoptionWaits ==
    ASSUME TypeOK, Links, AllWait, Adopting, NEW w \in Workers,
           ConsumeWaitAdoption(w), approval' = approval
    PROVE  AllWait'
<1>1. PICK r : r = held[w].lease.run
  OBVIOUS
<1> DEFINE row == [run[r] EXCEPT !.ckpt = None, !.expiry = Ttl]
           a == [adoption[r] EXCEPT !.state = "consumed"]
<1>2. /\ Fenced(w, {"adopting"})
      /\ run[r].ckpt # None /\ run[r].ckpt.kind = "adoption"
      /\ waiter[r].state = "adopted"
      /\ adoption' = [adoption EXCEPT ![r] = a]
      /\ call' = [call EXCEPT ![r].state = "completed"]
      /\ Renew(w, row, "adopted") /\ waiter' = waiter
  BY <1>1 DEF ConsumeWaitAdoption
<1>3. /\ r \in Runs /\ held[w] # None /\ held[w].phase = "adopting"
      /\ run[r] \in RunRow /\ run[r].owner = w
      /\ run[r].state = held[w].lease.state
  BY <1>1, <1>2, FencedFacts, SMTT(20)
<1>4. /\ waiter[r] # None /\ adoption[r] # None /\ adoption[r] \in Adoption
      /\ run[r].state = "Running" /\ approval[r] = None /\ WaitsWell(r)
  BY <1>2, <1>3 DEF Links, RowLinks, TypeOK, SubscriptionTypeOK, Adopting,
                    AllWait, WaitsWell, OneWait
<1>5. row.state = "Running" /\ row.ckpt = None /\ row.owner = w
  BY <1>3, <1>4 DEF RunRow
<1>6. a.state = "consumed" /\ a \in Adoption
  BY <1>4 DEF Adoption
<1> HIDE DEF row, a
<1>7. /\ run'[r] = row /\ held'[w] = Holding(r, row, "adopted")
      /\ adoption'[r] = a /\ call'[r].state = "completed"
      /\ \A u \in Workers \ {w} : held'[u] = held[u]
      /\ \A q \in Runs \ {r} : /\ run'[q] = run[q] /\ call'[q] = call[q]
                               /\ adoption'[q] = adoption[q]
  BY <1>1, <1>2, <1>3
     DEF Renew, TypeOK, ParkingTypeOK, SubscriptionTypeOK, Call
<1>8. held'[w].lease.run = r /\ held'[w].phase = "adopted"
  BY <1>7 DEF Holding, LeaseFromRecord
<1>9. WaitsWell(r)'
  <2>1. ~Waits(r)' /\ adoption'[r] # None
    BY <1>2, <1>6, <1>7, WaiterNoneAssumption DEF Waits
  <2>2. ASSUME NEW u \in Workers, Owns(u, r)'
        PROVE  held'[u].phase = "adopted"
    BY <1>5, <1>7, <1>8, <2>2 DEF Owns
  <2>3. OneWait(r)'
    BY <1>2, <1>4, <1>5, <1>7, <2>1, <2>2 DEF OneWait
  <2>4. QED
    BY <1>5, <1>7, <2>1, <2>3 DEF WaitsWell
<1>10. ASSUME NEW q \in Runs, q # r PROVE WaitsWell(q)'
  BY <1>2, <1>7, <1>8, <1>10, AloneWaits DEF AllWait
<1>11. QED
  BY <1>9, <1>10 DEF AllWait

(* A poller changes the wait of the run it works on.                       *)
LEMMA PollWaits ==
    ASSUME AllWait, NEW r \in Runs, NEW wt,
           waiter' = [waiter EXCEPT ![r] = wt], TypeOK,
           approval' = approval, held' = held,
           \A q \in Runs \ {r} : /\ run'[q] = run[q] /\ call'[q] = call[q]
                                 /\ adoption'[q] = adoption[q],
           WaitsWell(r)'
    PROVE  AllWait'
<1>1. \A q \in Runs \ {r} : waiter'[q] = waiter[q]
  BY DEF TypeOK, SubscriptionTypeOK
<1>2. ASSUME NEW q \in Runs, q # r PROVE WaitsWell(q)'
  BY <1>1, <1>2, AloneWaits DEF AllWait
<1>3. QED
  BY <1>2 DEF AllWait

(* A claim that holds is of a run that waits.                              *)
LEMMA ClaimWaitsFor ==
    ASSUME TypeOK, Links, NEW p \in Pollers, ClaimHolds(p)
    PROVE  poller[p].run \in Runs /\ Waits(poller[p].run)
  BY ClaimFacts DEF ClaimHolds, Waits

LEMMA GiveBackWaits ==
    ASSUME TypeOK, Links, AllWait, NEW p \in Pollers,
           ReleaseClaim(p) \/ AdvanceCursorAndRelease(p), approval' = approval
    PROVE  AllWait'
<1>1. PICK r : r = poller[p].run
  OBVIOUS
<1> DEFINE back == Released(waiter[r], "waiting")
           further == [back EXCEPT !.cursor = poller[p].event,
                                   !.examined = @ + 1]
<1>2. ClaimHolds(p) /\ UNCHANGED <<run, held, call, adoption>>
  BY DEF ReleaseClaim, AdvanceCursorAndRelease, parkingVars
<1>3. r \in Runs /\ Waits(r)
  BY <1>1, <1>2, ClaimWaitsFor
<1>4. /\ waiter[r] \in Waiter /\ run[r].state = "WaitingSubscription"
      /\ run[r].owner = None /\ call[r].state = "waiting_subscription"
      /\ adoption[r] = None /\ approval[r] = None
  BY <1>3, SleeperFacts
<1>5. PICK new : /\ waiter' = [waiter EXCEPT ![r] = new]
                 /\ new.state = "waiting" /\ new \in Waiter
  <2>1. back \in Waiter /\ back.state = "waiting"
    BY <1>4, ReleasedType
  <2> HIDE DEF back
  <2>2. CASE ReleaseClaim(p)
    <3>1. waiter' = [waiter EXCEPT ![r] = back]
      BY <1>1, <2>2 DEF ReleaseClaim, back
    <3>2. QED
      BY <2>1, <3>1
  <2>3. CASE AdvanceCursorAndRelease(p)
    <3>1. poller[p].event # None /\ waiter' = [waiter EXCEPT ![r] = further]
      BY <1>1, <2>3 DEF AdvanceCursorAndRelease, back
    <3>2. poller[p].event \in Nat /\ back.examined + 1 \in Nat
      BY <1>2, <2>1, <3>1, ClaimFacts DEF Poller, Waiter, ClaimHolds
    <3>3. further.state = "waiting" /\ further \in Waiter
      BY <2>1, <3>2 DEF Waiter
    <3>4. QED
      BY <3>1, <3>3
  <2>4. QED
    BY <2>2, <2>3
<1>6. waiter'[r] = new /\ waiter'[r] # None
  BY <1>3, <1>5, WaiterNoneAssumption DEF TypeOK, SubscriptionTypeOK
<1>7. Waits(r)' /\ ~Consumed(r)'
  BY <1>2, <1>4, <1>5, <1>6 DEF Waits, Consumed
<1>8. WaitsWell(r)'
  BY <1>2, <1>3, <1>4, <1>6, <1>7, WakesWell
<1>9. QED
  BY <1>2, <1>3, <1>5, <1>8, PollWaits

LEMMA PersistAdoptionWaits ==
    ASSUME TypeOK, Links, AllWait, NEW p \in Pollers,
           NEW kind \in {"matched", "event_limit", "timeout"},
           PersistAdoption(p, kind), approval' = approval
    PROVE  AllWait'
<1>1. PICK r : r = poller[p].run
  OBVIOUS
<1> DEFINE more == IF kind = "timeout" THEN 0 ELSE 1
           back == Released(waiter[r], "adopted")
           wt == [back EXCEPT !.cursor = poller[p].cursor + more,
                              !.examined = @ + more]
           a == [state |-> "queued", kind |-> kind, gen |-> 0]
           row == [run[r] EXCEPT !.state = "Queued", !.eligible = 0,
                                 !.err = "adoption_ready",
                                 !.ckpt.kind = "adoption"]
<1>2. ClaimHolds(p) /\ run[r].ckpt # None
  BY <1>1 DEF PersistAdoption, WaitGraph
<1>3. waiter' = [waiter EXCEPT ![r] = wt]
  BY <1>1 DEF PersistAdoption
<1>4. /\ adoption' = [adoption EXCEPT ![r] = a]
      /\ run' = [run EXCEPT ![r] = row] /\ held' = held /\ call' = call
  BY <1>1 DEF PersistAdoption
<1>5. r \in Runs /\ Waits(r) /\ poller[p] \in Poller
  BY <1>1, <1>2, ClaimWaitsFor, ClaimFacts DEF ClaimHolds
<1>6. /\ waiter[r] \in Waiter /\ run[r].state = "WaitingSubscription"
      /\ run[r].owner = None /\ call[r].state = "waiting_subscription"
      /\ approval[r] = None /\ run[r] \in RunRow
  BY <1>5, SleeperFacts
<1>7. wt \in Waiter /\ wt.state = "adopted"
  <2>1. back \in Waiter /\ back.state = "adopted"
    BY <1>6, ReleasedType
  <2> HIDE DEF back
  <2>2. poller[p].cursor + more \in Nat /\ back.examined + more \in Nat
    BY <1>5, <2>1 DEF Poller, Waiter
  <2>3. QED
    BY <2>1, <2>2 DEF Waiter
<1>8. row.state = "Queued" /\ row.owner = None
  BY <1>2, <1>6, AdoptionRow
<1>9. a.state = "queued"
  OBVIOUS
<1> HIDE DEF wt, a, row
<1>10. /\ waiter'[r] = wt /\ waiter'[r] # None /\ run'[r] = row
       /\ adoption'[r] = a
       /\ \A q \in Runs \ {r} : /\ run'[q] = run[q]
                                /\ adoption'[q] = adoption[q]
  BY <1>3, <1>4, <1>5, <1>7, WaiterNoneAssumption
     DEF TypeOK, ParkingTypeOK, SubscriptionTypeOK
<1>11. ~Waits(r)' /\ ~Consumed(r)'
  BY <1>7, <1>9, <1>10 DEF Waits, Consumed
<1>12. WaitsWell(r)'
  BY <1>4, <1>5, <1>6, <1>8, <1>10, <1>11, WakesWell
<1>13. QED
  BY <1>3, <1>4, <1>5, <1>10, <1>12, PollWaits

LEMMA CloseClaimWaits ==
    ASSUME TypeOK, Links, AllWait, NEW p \in Pollers, NEW s \in Closing,
           CloseClaim(p, s), approval' = approval
    PROVE  AllWait'
<1>1. PICK r : r = poller[p].run
  OBVIOUS
<1> DEFINE wt == Released(waiter[r], "closed")
           row == Closed(run[r], s, "other")
<1>2. /\ ClaimHolds(p)
      /\ waiter' = [waiter EXCEPT ![r] = wt]
      /\ call' = [call EXCEPT ![r].state = "closed"]
      /\ run' = [run EXCEPT ![r] = row]
      /\ held' = held /\ adoption' = adoption
  BY <1>1 DEF CloseClaim
<1>3. r \in Runs /\ Waits(r)
  BY <1>1, <1>2, ClaimWaitsFor
<1>4. /\ waiter[r] \in Waiter /\ run[r] \in RunRow /\ adoption[r] = None
      /\ approval[r] = None
  BY <1>3, SleeperFacts
<1>5. wt \in Waiter /\ wt.state = "closed"
  BY <1>4, ReleasedType
<1>6. row.state = s /\ row.owner = None /\ s # "WaitingSubscription"
  BY <1>4, ClosedRow DEF ErrorCodes, Closing
<1> HIDE DEF wt, row
<1>7. /\ waiter'[r] = wt /\ waiter'[r] # None /\ run'[r] = row
      /\ call'[r].state = "closed"
      /\ \A q \in Runs \ {r} : run'[q] = run[q] /\ call'[q] = call[q]
  BY <1>2, <1>3, <1>5, WaiterNoneAssumption
     DEF TypeOK, ParkingTypeOK, SubscriptionTypeOK, Call
<1>8. ~Waits(r)' /\ ~Consumed(r)'
  BY <1>2, <1>4, <1>5, <1>7 DEF Waits, Consumed
<1>9. WaitsWell(r)'
  BY <1>3, <1>4, <1>6, <1>7, <1>8, WakesWell
<1>10. QED
  BY <1>2, <1>3, <1>7, <1>9, PollWaits

LEMMA ClaimWaiterWaits ==
    ASSUME TypeOK, Links, AllWait, NEW p \in Pollers,
           NEW next \in Runs \cup {None}, ClaimWaiter(p, next),
           approval' = approval
    PROVE  AllWait'
<1> DEFINE due == {r \in Runs : Pollable(r)}
           passed == {r \in due : next = None \/ r < next}
<1>1. /\ next # None => next \in due
      /\ run' = [r \in Runs |-> IF r \in passed THEN QuarantinedRun(r)
                                                ELSE run[r]]
      /\ waiter' = [r \in Runs |->
              CASE r \in passed -> Released(waiter[r], "closed")
                [] r = next -> [waiter[r] EXCEPT !.state = "claimed",
                                       !.owner = p, !.claim = PollTtl]
                [] OTHER -> waiter[r]]
      /\ UNCHANGED <<held, call, adoption>>
  BY DEF ClaimWaiter
<1>2. \A r \in due : r \in Runs /\ Waits(r)
  BY DEF Pollable, Waits
<1>3. next \notin passed /\ None \notin Runs /\ passed \subseteq due
  BY RunNoneAssumption DEF Runs
<1> HIDE DEF passed, due
<1>4. ASSUME NEW r \in passed PROVE WaitsWell(r)'
  <2>1. r \in Runs /\ Waits(r)
    BY <1>2, <1>3
  <2>2. /\ waiter[r] \in Waiter /\ run[r] \in RunRow
        /\ run[r].state = "WaitingSubscription"
        /\ call[r].state = "waiting_subscription"
        /\ adoption[r] = None /\ approval[r] = None
    BY <2>1, SleeperFacts
  <2> DEFINE row == Closed(run[r], "RecoveryRequired", "other")
             wt == Released(waiter[r], "closed")
  <2>3. run'[r] = row
    BY <1>1, <2>1, <2>2 DEF QuarantinedRun
  <2>4. waiter'[r] = wt
    BY <1>1, <1>3, <2>1
  <2>5. row.state = "RecoveryRequired" /\ row.owner = None
    BY <2>2, ClosedRow DEF ErrorCodes, Closing
  <2>6. wt \in Waiter /\ wt.state = "closed"
    BY <2>2, ReleasedType
  <2> HIDE DEF row, wt
  <2>7. ~Waits(r)' /\ ~Consumed(r)' /\ waiter'[r] # None
    BY <1>1, <2>2, <2>4, <2>6, WaiterNoneAssumption DEF Waits, Consumed
  <2>8. QED
    BY <1>1, <2>1, <2>2, <2>3, <2>5, <2>7, WakesWell
<1>5. ASSUME next # None PROVE WaitsWell(next)'
  <2>1. next \in Runs /\ Waits(next)
    BY <1>1, <1>2, <1>5
  <2>2. /\ waiter[next] \in Waiter /\ run[next].owner = None
        /\ run[next].state = "WaitingSubscription"
        /\ call[next].state = "waiting_subscription"
        /\ adoption[next] = None /\ approval[next] = None
    BY <2>1, SleeperFacts
  <2> DEFINE wt == [waiter[next] EXCEPT !.state = "claimed", !.owner = p,
                                        !.claim = PollTtl]
  <2>3. run'[next] = run[next]
    BY <1>1, <1>3, <2>1
  <2>4. waiter'[next] = wt
    BY <1>1, <1>3, <2>1
  <2>5. wt \in Waiter /\ wt.state = "claimed"
    BY <2>2, TicksFacts DEF Waiter
  <2> HIDE DEF wt
  <2>6. Waits(next)' /\ ~Consumed(next)' /\ waiter'[next] # None
    BY <1>1, <2>2, <2>4, <2>5, WaiterNoneAssumption DEF Waits, Consumed
  <2>7. QED
    BY <1>1, <2>1, <2>2, <2>3, <2>6, WakesWell
<1>6. ASSUME NEW r \in Runs, r \notin passed, r # next PROVE WaitsWell(r)'
  <2>1. run'[r] = run[r] /\ waiter'[r] = waiter[r]
    BY <1>1, <1>6
  <2>2. QED
    BY <1>1, <2>1, AloneWaits DEF AllWait
<1>7. QED
  BY <1>3, <1>4, <1>5, <1>6 DEF AllWait

LEMMA SubscribingWaits ==
    ASSUME TypeOK, Links, AllWait, Adopting, Subscribing
    PROVE  AllWait'
<1>1. approval' = approval
  BY DEF Subscribing, approvalVars
<1>2. ASSUME NEW w \in Workers, SubscriptionWorker(w) PROVE AllWait'
  BY <1>1, <1>2, CaptureWaits, RegisterWaits, ClaimAdoptionWaits,
     ConsumeAdoptionWaits DEF SubscriptionWorker
<1>3. ASSUME UNCHANGED <<parkingVars, waiter, adoption>> PROVE AllWait'
  BY <1>1, <1>3, GiveUpWaits DEF parkingVars
<1>4. ASSUME NEW p \in Pollers, Poll(p) PROVE AllWait'
  <2>1. CASE \E next \in Runs \cup {None} : ClaimWaiter(p, next)
    BY <1>1, <2>1, ClaimWaiterWaits
  <2>2. CASE OpenClaim(p) \/ ReceiveEvent(p) \/ PollerCrash(p)
    BY <1>3, <2>2 DEF OpenClaim, ReceiveEvent, PollerCrash
  <2>3. CASE ReleaseClaim(p) \/ AdvanceCursorAndRelease(p)
    BY <1>1, <2>3, GiveBackWaits
  <2>4. CASE \E kind \in {"matched", "event_limit", "timeout"} :
               PersistAdoption(p, kind)
    BY <1>1, <2>4, PersistAdoptionWaits
  <2>5. CASE \E s \in Closing : CloseClaim(p, s)
    BY <1>1, <2>5, CloseClaimWaits
  <2>6. QED
    BY <1>4, <2>1, <2>2, <2>3, <2>4, <2>5 DEF Poll
<1>5. CASE \E matches \in BOOLEAN : Publish(matches)
  BY <1>3, <1>5 DEF Publish
<1>6. QED
  BY <1>2, <1>4, <1>5 DEF Subscribing

(* A submitting worker gives up its run.                                   *)
LEMMA HandOverWaits ==
    ASSUME TypeOK, Links, AllWait, NEW w \in Workers,
           Prepare(w) \/ Accept(w) \/ CloseAmbiguity(w),
           UNCHANGED <<approval, waiter, adoption>>,
           Backgrounded(BackgroundPlaces)
    PROVE  AllWait'
<1>1. PICK r : r = held[w].lease.run
  OBVIOUS
<1>2. PICK row : /\ Fenced(w, {"reserved", "accepted", "lost"})
                 /\ run[r].state = "Running" /\ call' = call
                 /\ \/ Renew(w, row, "prepared") \/ Leave(w, row)
  BY <1>1 DEF Prepare, Accept, CloseAmbiguity, Fenced
<1>3. r \in Runs
  BY <1>1, <1>2, FencedFacts
<1>4. Acts(w, r, {"prepared"})
  <2>1. CASE Renew(w, row, "prepared")
    BY <1>1, <1>2, <2>1, RenewActs
  <2>2. CASE Leave(w, row)
    <3>1. /\ held'[w] = None /\ \A u \in Workers \ {w} : held'[u] = held[u]
          /\ \A q \in Runs \ {r} : run'[q] = run[q]
      BY <1>1, <2>2 DEF Leave, TypeOK, ParkingTypeOK
    <3>2. QED
      BY <1>2, <3>1 DEF Acts
  <2>3. QED
    BY <1>2, <2>1, <2>2
<1>5. /\ HeldStep(BackgroundPlaces) /\ OwnerStep
      /\ run'[r].state = "WaitingSubscription"
           <=> run[r].state = "WaitingSubscription"
  BY <1>3 DEF Backgrounded, RowsStep, RowsChange, Changes
<1>6. /\ "turned" \notin {"prepared"}
      /\ call'[r].state = call[r].state
      /\ approval'[r] # None => approval[r] # None
      /\ {"reserved", "accepted", "lost"} \cap {"adopted", "continuing"} = {}
  BY <1>2
<1>7. QED
  BY <1>1, <1>2, <1>4, <1>5, <1>6, OwnerActs

(* Runs that waited for their provider end.                                *)
LEMMA EndWaits ==
    ASSUME AllWait, UNCHANGED <<held, call, approval, waiter, adoption>>,
           \A r \in Runs :
             \/ run'[r] = run[r]
             \/ /\ run[r].state = "WaitingProvider"
                /\ run'[r].state \in Closing /\ run'[r].owner = None
    PROVE  AllWait'
<1>1. ASSUME NEW r \in Runs PROVE Steady(r)
  <2>1. WaitsWell(r)
    BY DEF AllWait
  <2>2. CASE run'[r] = run[r]
    <3>1. \A u \in Workers : Owns(u, r)' => Owns(u, r)
      BY <2>2 DEF Owns
    <3>2. QED
      BY <2>1, <2>2, <3>1 DEF Steady, WaitsWell, OneWait, Waits
  <2>3. CASE /\ run[r].state = "WaitingProvider"
             /\ run'[r].state \in Closing /\ run'[r].owner = None
    <3>1. ~Consumed(r)
      BY <2>1, <2>3 DEF WaitsWell, OneWait, Closing
    <3>2. \A u \in Workers : ~Owns(u, r)'
      BY <2>3, RunNoneAssumption DEF Owns
    <3>3. run'[r].state # "WaitingSubscription"
      BY <2>3 DEF Closing
    <3>4. QED
      BY <2>3, <3>1, <3>2, <3>3 DEF Steady, Waits
  <2>4. QED
    BY <2>2, <2>3
<1>2. QED
  BY <1>1, AllWaitStep

LEMMA CloseRecoveryWaits ==
    ASSUME TypeOK, AllWait, NEW S \in SUBSET Runs, NEW receipts,
           CloseRecovery(S, receipts), UNCHANGED <<approval, waiter, adoption>>
    PROVE  AllWait'
<1>1. UNCHANGED <<held, call>>
  BY DEF CloseRecovery
<1>2. ASSUME NEW r \in Runs
      PROVE  \/ run'[r] = run[r]
             \/ /\ run[r].state = "WaitingProvider"
                /\ run'[r].state \in Closing /\ run'[r].owner = None
  <2>1. CASE r \in S
    <3> DEFINE c == Closed(run[r], "RecoveryRequired", "other")
    <3>1. run'[r] = c /\ run[r].state = "WaitingProvider"
      BY <2>1 DEF CloseRecovery, ClaimGraph
    <3>2. c.state \in Closing /\ c.owner = None
      BY ClosedRow DEF Closing, ErrorCodes, TypeOK, ParkingTypeOK
    <3> HIDE DEF c
    <3>3. QED
      BY <3>1, <3>2
  <2>2. CASE r \notin S
    BY <2>2 DEF CloseRecovery
  <2>3. QED
    BY <2>1, <2>2
<1>3. QED
  BY <1>1, <1>2, EndWaits

LEMMA CommitWaits ==
    ASSUME TypeOK, Links, AllWait, NEW p \in Reconcilers, CommitTerminal(p),
           UNCHANGED <<approval, waiter, adoption>>
    PROVE  AllWait'
<1>1. PICK r, status : r = reconciler[p].run /\ status = reconciler[p].status
  OBVIOUS
<1>2. /\ Reconciles(p, "observed") /\ status \in Terminal /\ ClaimGraph(r)
      /\ CloseRecovery({r}, Matched(r)) \/ Committed(r, status)
  BY <1>1, CommitCases
<1>3. r \in Runs
  BY <1>1, <1>2, ReconcilesFacts
<1>4. CASE CloseRecovery({r}, Matched(r))
  BY <1>3, <1>4, CloseRecoveryWaits
<1>5. CASE Committed(r, status)
  <2>1. PICK new :
          /\ run' = [run EXCEPT ![r] = new]
          /\ new = IF status = "completed"
                   THEN [Closed(run[r], "Completed", "none") EXCEPT
                           !.ckpt = [kind |-> "output",
                                     gen |-> run[r].gen, turns |-> 1]]
                   ELSE Closed(run[r], Ends[status], "other")
    BY <1>5 DEF Committed
  <2>2. run[r].state = "WaitingProvider" /\ run[r] \in RunRow
    BY <1>2, <1>3 DEF ClaimGraph, TypeOK, ParkingTypeOK
  <2>3. new.state = Ends[status] /\ new.owner = None
    BY <1>2, <2>1, <2>2, EndedRow
  <2>4. Ends[status] \in Closing
    BY <1>2 DEF Ends, Terminal, Closing
  <2>5. run'[r] = new /\ \A q \in Runs \ {r} : run'[q] = run[q]
    BY <1>3, <2>1 DEF TypeOK, ParkingTypeOK
  <2>6. UNCHANGED <<held, call>>
    BY <1>5 DEF Committed
  <2>7. QED
    BY <2>2, <2>3, <2>4, <2>5, <2>6, EndWaits
<1>6. QED
  BY <1>2, <1>4, <1>5

LEMMA BackgroundingWaits ==
    ASSUME TypeOK, Links, AllWait, Backgrounding
    PROVE  AllWait'
<1>1. UNCHANGED <<approval, waiter, adoption>>
  BY DEF Backgrounding, approvalVars, subscriptionVars
<1>2. Backgrounded(BackgroundPlaces)
  BY BackgroundingFrame
<1>3. ASSUME NEW w \in Workers, BackgroundWorker(w) PROVE AllWait'
  <2>1. CASE Prepare(w) \/ Accept(w) \/ CloseAmbiguity(w)
    BY <1>1, <1>2, <2>1, HandOverWaits
  <2>2. CASE ~(Prepare(w) \/ Accept(w) \/ CloseAmbiguity(w))
    <3>1. PICK p \in BackgroundPlaces :
            /\ held[w] # None /\ UNCHANGED <<run, call>>
            /\ held[w].phase \notin {"adopted", "continuing"}
            /\ held' = [held EXCEPT ![w].phase = p]
      BY <1>3, <2>2
         DEF BackgroundWorker, ReserveBackground, ReleaseUnstarted,
             MarkUncertain, MarkFailed, SubmitProvider, AcceptFailed, Fenced,
             BackgroundPlaces
    <3>2. p \in Phases /\ p # "turned"
      BY <3>1 DEF Phases, BackgroundPlaces
    <3>3. QED
      BY <1>1, <3>1, <3>2, PlaceActs
  <2>3. QED
    BY <2>1, <2>2
<1>4. ASSUME UNCHANGED parkingVars PROVE AllWait'
  BY <1>1, <1>4, GiveUpWaits DEF parkingVars
<1>5. ASSUME NEW p \in Reconcilers, Reconciliation(p) PROVE AllWait'
  <2>1. CASE \/ \E r \in Runs : ClaimReconciliation(p, r)
             \/ HeartbeatReconciliation(p) \/ BindRetrieval(p)
             \/ \E status \in Terminal \cup {"running", "retryable",
                                             "unrecoverable"} :
                  Observe(p, status)
             \/ ReconcilerCrash(p)
    BY <1>4, <2>1 DEF ClaimReconciliation, HeartbeatReconciliation,
                      BindRetrieval, Observe, ReconcilerCrash
  <2>2. CASE ReleaseReconciliation(p) \/ CloseUnrecoverable(p)
    <3>1. PICK r : r = reconciler[p].run
      OBVIOUS
    <3>2. r \in Runs
      BY <2>2, <3>1, ReconcilesFacts
         DEF ReleaseReconciliation, CloseUnrecoverable
    <3>3. CloseRecovery({r}, receipt) \/ UNCHANGED parkingVars
      BY <2>2, <3>1 DEF ReleaseReconciliation, CloseUnrecoverable
    <3>4. QED
      BY <1>1, <1>4, <3>2, <3>3, CloseRecoveryWaits
  <2>3. CASE CommitTerminal(p)
    BY <1>1, <2>3, CommitWaits
  <2>4. QED
    BY <1>5, <2>1, <2>2, <2>3 DEF Reconciliation
<1>6. CASE CloseExpired
  <2>1. CloseRecovery(Expired, receipt) /\ Expired \in SUBSET Runs
    BY <1>6 DEF CloseExpired, Expired
  <2>2. QED
    BY <1>1, <2>1, CloseRecoveryWaits
<1>7. CASE ProviderSide \/ \E r \in Runs : ReclaimBudget(r)
  BY <1>4, <1>7 DEF ProviderSide, ProviderFinishes, Webhook, ReclaimBudget
<1>8. QED
  BY <1>3, <1>5, <1>6, <1>7 DEF Backgrounding

LEMMA CancelWaits ==
    ASSUME TypeOK, Links, AllWait, NEW r \in Runs, RequestCancellation(r)
    PROVE  AllWait'
<1>1. /\ run'[r].state = "Cancelled" /\ run'[r].owner = None
      /\ run'[r].ckpt = run[r].ckpt
      /\ \A q \in Runs \ {r} :
           /\ run'[q] = run[q] /\ call'[q] = call[q]
           /\ approval'[q] = approval[q] /\ waiter'[q] = waiter[q]
           /\ adoption'[q] = adoption[q]
      /\ held' = held
  BY CancelFacts
<1>2. ASSUME NEW q \in Runs, q # r PROVE WaitsWell(q)'
  BY <1>1, <1>2, AloneWaits DEF AllWait
<1>3. ~Waits(r)' /\ (waiter'[r] = None <=> waiter[r] = None)
  <2>1. CASE /\ waiter'[r] = waiter[r]
             /\ waiter[r] # None => waiter[r].state \notin {"waiting", "claimed"}
    BY <2>1 DEF Waits
  <2>2. CASE /\ waiter[r] # None /\ waiter[r] \in Waiter
             /\ waiter'[r] # None
             /\ waiter'[r] = Released(waiter[r], "closed")
    <3>1. Released(waiter[r], "closed").state = "closed"
      BY <2>2, ReleasedType
    <3>2. QED
      BY <2>2, <3>1 DEF Waits
  <2>3. QED
    BY <2>1, <2>2, CancelWaiter
<1>4. /\ adoption'[r] = None <=> adoption[r] = None
      /\ Consumed(r)' => Consumed(r)
  BY CancelAdoption DEF Consumed
<1>5. approval'[r] = None <=> approval[r] = None
  BY CancelApproval DEF Is
<1>6. call'[r].state \in {call[r].state, "closed"}
      /\ (call[r].state = "completed" => call'[r].state = "completed")
      /\ (call'[r].state = "none" => call[r].state = "none")
      /\ call'[r].state \notin {"executing", "waiting_approval"}
  <2>1. call[r].state \in {"none", "executing", "waiting_approval",
                     "waiting_subscription", "completed", "closed"}
    BY DEF TypeOK, ParkingTypeOK, Call
  <2>2. QED
    BY <2>1, CancelCall
<1>7. \A u \in Workers : ~Owns(u, r)'
  BY <1>1, RunNoneAssumption DEF Owns
<1>8. WaitsWell(r)
  BY DEF AllWait
<1>9. OneWait(r)'
  BY <1>1, <1>3, <1>4, <1>5, <1>6, <1>7, <1>8
     DEF WaitsWell, OneWait, Closing
<1>10. WaitsWell(r)'
  BY <1>1, <1>3, <1>4, <1>6, <1>8, <1>9 DEF WaitsWell
<1>11. QED
  BY <1>2, <1>10 DEF AllWait

LEMMA TickWaits ==
    ASSUME TypeOK, Links, AllWait, Tick
    PROVE  AllWait'
<1>1. Aged
  BY TickStep
<1>2. ASSUME NEW q \in Runs PROVE Steady(q)
  <2>1. WaitsWell(q)
    BY DEF AllWait
  <2>2. /\ run'[q].state = run[q].state /\ run'[q].owner = run[q].owner
        /\ run'[q].ckpt = run[q].ckpt /\ held' = held /\ call' = call
        /\ (approval[q] = None) <=> (approval'[q] = None)
        /\ SameWait(waiter[q], waiter'[q]) /\ adoption' = adoption
    BY <1>1 DEF Aged
  <2>3. \A u \in Workers : Owns(u, q)' => Owns(u, q)
    BY <2>2 DEF Owns
  <2>4. Waits(q)' <=> Waits(q)
    BY <2>2 DEF Waits, SameWait
  <2>5. QED
    BY <2>1, <2>2, <2>3, <2>4 DEF Steady, WaitsWell, OneWait, SameWait
<1>3. QED
  BY <1>2, AllWaitStep

LEMMA WaitsStep ==
    ASSUME TypeOK, Links, AllWait, Adopting, [Next]_vars
    PROVE  AllWait'
<1>1. CASE UNCHANGED vars
  BY <1>1, GiveUpWaits
     DEF vars, parkingVars, approvalVars, subscriptionVars
<1>2. QED
  BY <1>1, RunnerWaits, ApprovingWaits, SubscribingWaits, BackgroundingWaits,
     CancelWaits, TickWaits DEF Next

LEMMA StartAdopting ==
    ASSUME TypeOK, Links, Adopting, NEW w \in Workers, Start(w)
    PROVE  Adopting'
<1>1. PICK r : r = held[w].lease.run
  OBVIOUS
<1> DEFINE row == [run[r] EXCEPT !.state = "Running", !.expiry = Ttl]
<1>2. /\ Fenced(w, {"claimed"})
      /\ \E p : Renew(w, row, p)
  BY <1>1 DEF Start
<1>3. r \in Runs /\ run[r] \in RunRow
  BY <1>1, <1>2, FencedFacts
<1>4. row.state = "Running"
  BY <1>3 DEF RunRow
<1> HIDE DEF row
<1>5. PICK p : Renew(w, row, p)
  BY <1>2
<1>6. /\ held'[w] = Holding(r, row, p)
      /\ \A u \in Workers \ {w} : held'[u] = held[u]
  BY <1>1, <1>5 DEF Renew, TypeOK, ParkingTypeOK
<1>7. held'[w].lease.state = "Running"
  BY <1>4, <1>6 DEF Holding, LeaseFromRecord
<1>8. QED
  BY <1>6, <1>7 DEF Adopting

LEMMA RunnerAdopting ==
    ASSUME TypeOK, Links, Adopting, Runner
    PROVE  Adopting'
<1>1. ASSUME NEW P, Frame(P), "adopting" \notin P PROVE Adopting'
  BY <1>1, AdoptingKept DEF Frame
<1>2. ASSUME Frame({}) PROVE Adopting'
  BY <1>1, <1>2
<1>3. ASSUME NEW w \in Workers, ParkingWorker(w) \/ ConfirmParkedWait(w)
      PROVE  Adopting'
  <2>1. CASE \/ \E r \in Runs : Claim(w, r)
             \/ \E s \in Closing : Finish(w, s)
             \/ Crash(w) \/ ConfirmParkedWait(w) \/ Heartbeat(w)
    BY <1>2, <2>1, ClaimFrame, FinishFrame, CrashFrame, HeartbeatFrame
  <2>2. CASE Start(w)
    BY <2>2, StartAdopting
  <2>3. CASE (\E retained \in BOOLEAN : PersistProviderTurn(w, retained))
             \/ StageCall(w) \/ ParkForWait(w)
    <3>1. Frame({"turned"}) \/ Frame({"staged"}) \/ Frame({"parking"})
      BY <2>3, PersistFrame, StageFrame, ParkFrame
    <3>2. QED
      BY <1>1, <3>1
  <2>4. CASE HandoffFailed(w) \/ CleanupHandoff(w) \/ ReclaimAfterWait(w)
    <3>1. Frame({"unsure"}) \/ Frame({"failed"}) \/ Frame({"continuing"})
      BY <2>4, HandoffFrame, CleanupFrame, ReclaimFrame
    <3>2. QED
      BY <1>1, <3>1
  <2>5. QED
    BY <1>3, <2>1, <2>2, <2>3, <2>4 DEF ParkingWorker
<1>4. CASE \/ RecoverExpiredLeases
           \/ \E r \in Runs : MaintainBinding(r)
           \/ \E r \in Runs, s \in {"active", "archived", "deleting"} :
                MoveSession(r, s)
  BY <1>2, <1>4, RecoverFrame, MaintainFrame, MoveFrame
<1>5. QED
  BY <1>3, <1>4 DEF Runner

(* How the workers' places change in any step.                             *)
LEMMA WorkersStep ==
    ASSUME TypeOK, Links, [Next]_vars
    PROVE  \E P : /\ HeldStep(P)
                  /\ "adopting" \in P => Runner
<1>1. CASE Runner
  BY <1>1, RunnerFrame DEF Frame
<1>2. CASE Approving
  <2>1. HeldStep(ApprovalPlaces)
    BY <1>2, ApprovingFrame
  <2>2. "adopting" \notin ApprovalPlaces
    BY DEF ApprovalPlaces
  <2>3. QED
    BY <2>1, <2>2
<1>3. CASE Subscribing
  <2>1. HeldStep(SubscriptionPlaces)
    BY <1>3, SubscribingFrame DEF Subscribed
  <2>2. "adopting" \notin SubscriptionPlaces
    BY DEF SubscriptionPlaces
  <2>3. QED
    BY <2>1, <2>2
<1>4. CASE Backgrounding
  <2>1. HeldStep(BackgroundPlaces)
    BY <1>4, BackgroundingFrame DEF Backgrounded, RowsStep
  <2>2. "adopting" \notin BackgroundPlaces
    BY DEF BackgroundPlaces
  <2>3. QED
    BY <2>1, <2>2
<1>5. CASE (\E r \in Runs : RequestCancellation(r)) \/ Tick
  <2>1. HeldStep({})
    BY <1>5, CancelStep, TickStep
  <2>2. QED
    BY <2>1
<1>6. CASE UNCHANGED vars
  <2>1. HeldStep({})
    BY <1>6, NoWorker DEF vars, parkingVars
  <2>2. QED
    BY <2>1
<1>7. QED
  BY <1>1, <1>2, <1>3, <1>4, <1>5, <1>6 DEF Next

LEMMA AdoptingStep ==
    ASSUME TypeOK, Links, Adopting, [Next]_vars
    PROVE  Adopting'
  BY WorkersStep, RunnerAdopting, AdoptingKept

-----------------------------------------------------------------------------
(* A wait that has read up to its cursor: what it passed over does not     *)
(* match, unless its outcome is the match at the cursor.                   *)
Reads(wt, kind, events) ==
    /\ wt.start <= wt.cursor /\ wt.cursor <= Len(events)
    /\ wt.examined = wt.cursor - wt.start
    /\ kind = "matched" =>
         /\ wt.start < wt.cursor /\ events[wt.cursor]
         /\ \A i \in (wt.start + 1)..(wt.cursor - 1) : ~events[i]
    /\ kind # "matched" => \A i \in (wt.start + 1)..wt.cursor : ~events[i]
    /\ kind = "event_limit" => wt.examined = MaxEvents
Outcomes(r) == IF adoption[r] = None THEN "none" ELSE adoption[r].kind
Delivers(r) == waiter[r] # None => Reads(waiter[r], Outcomes(r), log)
AllDeliver == \A r \in Runs : Delivers(r)

(* Positions lie in the log, and the poller that holds a claim examines    *)
(* the event behind the waiter's cursor.                                   *)
Positions == \A w \in Workers : held[w] # None => held[w].pos <= Len(log)
Examines(x, wt, p, events) ==
    /\ x.event # None =>
         x.opened /\ x.event = x.cursor + 1 /\ x.event <= Len(events)
    /\ (x.opened /\ wt.state = "claimed" /\ wt.owner = p) =>
         x.cursor = wt.cursor
Polling ==
    \A p \in Pollers : poller[p] # None =>
        Examines(poller[p], waiter[poller[p].run], p, log)

LEMMA AllDeliverIs ==
    ASSUME TypeOK, AllDeliver
    PROVE  FirstMatchDelivered
<1>1. ASSUME NEW r \in Runs, waiter[r] # None
      PROVE  LET wt == waiter[r]
                 Matches(n) == \E i \in (wt.start + 1)..n : log[i]
                 kind == IF adoption[r] = None THEN "none" ELSE adoption[r].kind
             IN  /\ wt.examined = wt.cursor - wt.start
                 /\ kind = "matched" => log[wt.cursor] /\ ~Matches(wt.cursor - 1)
                 /\ kind # "matched" => ~Matches(wt.cursor)
                 /\ kind = "event_limit" => wt.examined = MaxEvents
  <2>1. Reads(waiter[r], Outcomes(r), log)
    BY <1>1 DEF AllDeliver, Delivers
  <2>2. QED
    BY <2>1 DEF Reads, Outcomes
<1>2. QED
  BY <1>1 DEF FirstMatchDelivered

(* A wait that is not read further.                                        *)
LEMMA ReadsOn ==
    ASSUME NEW old, NEW new, NEW kind, NEW events, Reads(old, kind, events),
           new.start = old.start, new.cursor = old.cursor,
           new.examined = old.examined
    PROVE  Reads(new, kind, events)
  BY DEF Reads

LEMMA ReadsLonger ==
    ASSUME NEW wt \in Waiter, NEW kind, NEW events \in Seq(BOOLEAN),
           NEW m \in BOOLEAN, Reads(wt, kind, events)
    PROVE  Reads(wt, kind, Append(events, m))
<1>1. /\ Len(Append(events, m)) = Len(events) + 1 /\ Len(events) \in Nat
      /\ \A i \in 1..Len(events) : Append(events, m)[i] = events[i]
  OBVIOUS
<1>2. wt.start \in Nat /\ wt.cursor \in Nat
  BY DEF Waiter
<1> DEFINE longer == Append(events, m)
<1> HIDE DEF longer
<1>3. wt.start <= wt.cursor /\ wt.cursor <= Len(longer)
  BY <1>1, <1>2 DEF Reads, longer
<1>4. kind = "matched" =>
        /\ wt.start < wt.cursor /\ longer[wt.cursor]
        /\ \A i \in (wt.start + 1)..(wt.cursor - 1) : ~longer[i]
  BY <1>1, <1>2 DEF Reads, longer
<1>5. kind # "matched" => \A i \in (wt.start + 1)..wt.cursor : ~longer[i]
  BY <1>1, <1>2 DEF Reads, longer
<1>6. Reads(wt, kind, longer)
  BY <1>3, <1>4, <1>5 DEF Reads
<1>7. QED
  BY <1>6 DEF longer

(* A wait reads one more event, which matches or does not.                 *)
LEMMA ReadsNext ==
    ASSUME NEW old \in Waiter, NEW new, NEW kind, NEW events \in Seq(BOOLEAN),
           Reads(old, "none", events),
           new.start = old.start, new.cursor = old.cursor + 1,
           new.examined = old.examined + 1, new.cursor <= Len(events),
           kind = "matched" <=> events[new.cursor],
           kind = "event_limit" => new.examined = MaxEvents
    PROVE  Reads(new, kind, events)
<1>1. old.start \in Nat /\ old.cursor \in Nat /\ old.examined \in Nat
  BY DEF Waiter
<1>2. /\ new.start < new.cursor
      /\ new.examined = new.cursor - new.start
  BY <1>1 DEF Reads
<1>3. \A i \in (new.start + 1)..(new.cursor - 1) : ~events[i]
  BY <1>1 DEF Reads
<1>4. kind # "matched" => \A i \in (new.start + 1)..new.cursor : ~events[i]
  BY <1>1, <1>3
<1>5. QED
  BY <1>1, <1>2, <1>3, <1>4 DEF Reads

LEMMA PositionsStep ==
    ASSUME TypeOK, Links, Positions, [Next]_vars, Len(log) <= Len(log'),
           Len(log') \in Nat
    PROVE  Positions'
<1>1. PICK P : HeldStep(P)
  BY WorkersStep
<1>2. ASSUME NEW w \in Workers, held'[w] # None
      PROVE  held'[w].pos <= Len(log')
  <2>1. Remembers(w) /\ Len(log) \in Nat
    BY <1>1, <1>2 DEF HeldStep, TypeOK, SubscriptionTypeOK
  <2>2. held[w] # None => held[w].pos <= Len(log) /\ held[w].pos \in Nat
    BY DEF Positions, TypeOK, ParkingTypeOK, Held
  <2>3. QED
    BY <2>1, <2>2 DEF Remembers
<1>3. QED
  BY <1>2 DEF Positions

(* The source and the pollers stay, and no wait is read further.           *)
LEMMA NothingRead ==
    ASSUME TypeOK, Links, AllDeliver, Polling, log' = log, poller' = poller,
           \A r \in Runs : waiter'[r] # None =>
             /\ waiter[r] # None
             /\ waiter'[r].start = waiter[r].start
             /\ waiter'[r].cursor = waiter[r].cursor
             /\ waiter'[r].examined = waiter[r].examined
             /\ Outcomes(r)' = Outcomes(r)
             /\ waiter'[r].state = "claimed" =>
                  /\ waiter[r].state = "claimed"
                  /\ waiter'[r].owner = waiter[r].owner,
           WaitersGrow
    PROVE  (AllDeliver /\ Polling)'
<1>1. ASSUME NEW r \in Runs PROVE Delivers(r)'
  <2>1. Delivers(r)
    BY DEF AllDeliver
  <2>2. QED
    BY <2>1, ReadsOn DEF Delivers
<1>2. ASSUME NEW p \in Pollers, poller'[p] # None
      PROVE  Examines(poller'[p], waiter'[poller'[p].run], p, log')
  <2>1. /\ poller[p].run \in Runs /\ waiter[poller[p].run] # None
        /\ Examines(poller[p], waiter[poller[p].run], p, log)
    BY <1>2, ClaimFacts DEF Polling
  <2>2. QED
    BY <2>1 DEF Examines, WaitersGrow
<1>3. QED
  BY <1>1, <1>2 DEF AllDeliver, Polling

(* One wait is read further or ends, and its poller is free again.         *)
LEMMA OneRead ==
    ASSUME TypeOK, Links, AllDeliver, Polling, log' = log, NEW r \in Runs,
           \A q \in Runs \ {r} :
             waiter'[q] = waiter[q] /\ adoption'[q] = adoption[q],
           waiter'[r].state # "claimed", Delivers(r)',
           \A u \in Pollers : poller'[u] \in {poller[u], None}
    PROVE  (AllDeliver /\ Polling)'
<1>1. ASSUME NEW q \in Runs, q # r PROVE Delivers(q)'
  <2>1. /\ Delivers(q) /\ waiter'[q] = waiter[q]
        /\ adoption'[q] = adoption[q]
    BY <1>1 DEF AllDeliver
  <2>2. QED
    BY <2>1 DEF Delivers, Outcomes
<1>2. ASSUME NEW p \in Pollers, poller'[p] # None
      PROVE  Examines(poller'[p], waiter'[poller'[p].run], p, log')
  <2>1. /\ poller'[p] = poller[p] /\ poller[p].run \in Runs
        /\ Examines(poller[p], waiter[poller[p].run], p, log)
    BY <1>2, ClaimFacts DEF Polling
  <2>2. CASE poller[p].run = r
    BY <2>1, <2>2 DEF Examines
  <2>3. CASE poller[p].run # r
    BY <2>1, <2>3
  <2>4. QED
    BY <2>2, <2>3
<1>3. QED
  BY <1>1, <1>2 DEF AllDeliver, Polling

LEMMA RegisterReads ==
    ASSUME TypeOK, Links, AllWait, Positions, AllDeliver, Polling,
           NEW w \in Workers, NEW acked \in BOOLEAN,
           PersistRegistration(w, acked)
    PROVE  (AllDeliver /\ Polling)'
<1>1. PICK r : r = held[w].lease.run
  OBVIOUS
<1>2. PICK P : Fenced(w, P)
  BY DEF PersistRegistration, Register, Handing
<1>3. held[w] # None /\ held[w] \in Held /\ r \in Runs
  BY <1>1, <1>2, FencedFacts
<1> DEFINE new == NewWaiter(held[w].pos, held[w].pos)
<1>4. /\ call[r].state = "none" /\ waiter' = [waiter EXCEPT ![r] = new]
      /\ UNCHANGED <<log, adoption, poller>>
  BY <1>1 DEF PersistRegistration, Register
<1>5. /\ held[w].pos \in Nat /\ held[w].pos <= Len(log)
      /\ Len(log) \in Nat /\ MaxEvents # 0
  BY <1>3, SubscriptionAssumption
     DEF Held, Positions, TypeOK, SubscriptionTypeOK
<1>6. adoption[r] = None
  BY <1>3, <1>4 DEF AllWait, WaitsWell, OneWait
<1>7. /\ new.state = "waiting" /\ new.start = held[w].pos
      /\ new.cursor = held[w].pos /\ new.examined = 0
  BY DEF NewWaiter
<1> HIDE DEF new
<1>8. Reads(new, "none", log)
  BY <1>5, <1>7 DEF Reads
<1>9. waiter'[r] = new /\ \A q \in Runs \ {r} : waiter'[q] = waiter[q]
  BY <1>3, <1>4 DEF TypeOK, SubscriptionTypeOK
<1>10. Delivers(r)'
  BY <1>4, <1>6, <1>8, <1>9 DEF Delivers, Outcomes
<1>11. QED
  BY <1>3, <1>4, <1>7, <1>9, <1>10, OneRead

(* The outcome of a wait is claimed or consumed.                           *)
LEMMA AdoptReads ==
    ASSUME TypeOK, Links, AllDeliver, Polling, NEW w \in Workers,
           ClaimAdoption(w) \/ ConsumeWaitAdoption(w)
    PROVE  (AllDeliver /\ Polling)'
<1>1. PICK r : r = held[w].lease.run
  OBVIOUS
<1>2. Fenced(w, {"adopting"}) /\ UNCHANGED <<log, waiter, poller>>
      /\ run[r].ckpt # None /\ run[r].ckpt.kind = "adoption"
  BY <1>1 DEF ClaimAdoption, ConsumeWaitAdoption
<1>3. r \in Runs
  BY <1>1, <1>2, FencedFacts
<1>4. adoption[r] # None /\ adoption[r] \in Adoption
  BY <1>2, <1>3 DEF Links, RowLinks, TypeOK, SubscriptionTypeOK
<1>5. PICK a : /\ adoption' = [adoption EXCEPT ![r] = a]
               /\ a.kind = adoption[r].kind /\ a # None
  <2>1. CASE ClaimAdoption(w)
    <3> DEFINE a == [adoption[r] EXCEPT !.state = "claimed",
                                        !.gen = held[w].lease.gen]
    <3>1. adoption' = [adoption EXCEPT ![r] = a]
      BY <1>1, <2>1 DEF ClaimAdoption
    <3>2. held[w].lease.gen \in Nat
      BY <1>2, FencedFacts DEF Held, AiRunLease
    <3>3. a.kind = adoption[r].kind /\ a \in Adoption
      BY <1>4, <3>2 DEF Adoption
    <3> HIDE DEF a
    <3>4. QED
      BY <3>1, <3>3, WaiterNoneAssumption
  <2>2. CASE ConsumeWaitAdoption(w)
    <3> DEFINE a == [adoption[r] EXCEPT !.state = "consumed"]
    <3>1. adoption' = [adoption EXCEPT ![r] = a]
      BY <1>1, <2>2 DEF ConsumeWaitAdoption
    <3>2. a.kind = adoption[r].kind /\ a \in Adoption
      BY <1>4 DEF Adoption
    <3> HIDE DEF a
    <3>3. QED
      BY <3>1, <3>2, WaiterNoneAssumption
  <2>3. QED
    BY <2>1, <2>2
<1>6. adoption'[r] = a /\ \A q \in Runs \ {r} : adoption'[q] = adoption[q]
  BY <1>3, <1>5 DEF TypeOK, SubscriptionTypeOK
<1>7. \A q \in Runs : Outcomes(q)' = Outcomes(q)
  BY <1>4, <1>5, <1>6 DEF Outcomes
<1>8. WaitersGrow
  BY <1>2, <1>4, <1>5, <1>6 DEF WaitersGrow
<1>9. QED
  BY <1>2, <1>7, <1>8, NothingRead

(* A poller goes on with its claim.                                        *)
LEMMA PollerReads ==
    ASSUME TypeOK, Links, AllDeliver, Polling, NEW p \in Pollers,
           OpenClaim(p) \/ ReceiveEvent(p) \/ PollerCrash(p)
    PROVE  (AllDeliver /\ Polling)'
<1>1. poller[p] # None /\ UNCHANGED <<log, waiter, adoption>>
  BY DEF OpenClaim, ReceiveEvent, PollerCrash, ClaimHolds
<1>2. PICK x, wt : x = poller[p] /\ wt = waiter[x.run]
  OBVIOUS
<1>3. x \in Poller /\ wt \in Waiter /\ Examines(x, wt, p, log)
  BY <1>1, <1>2, ClaimFacts DEF Polling
<1>4. PICK y : /\ poller' = [poller EXCEPT ![p] = y]
               /\ y # None => y.run = x.run /\ Examines(y, wt, p, log)
  <2>1. CASE OpenClaim(p)
    <3> DEFINE y == [x EXCEPT !.opened = TRUE, !.cursor = wt.cursor,
                              !.examined = wt.examined]
    <3>1. ~x.opened /\ poller' = [poller EXCEPT ![p] = y]
      BY <1>2, <2>1 DEF OpenClaim
    <3>2. y.run = x.run /\ y.event = x.event /\ y.cursor = wt.cursor
      BY <1>3 DEF Poller
    <3> HIDE DEF y
    <3>3. Examines(y, wt, p, log)
      BY <1>3, <3>1, <3>2 DEF Examines
    <3>4. QED
      BY <3>1, <3>2, <3>3
  <2>2. CASE ReceiveEvent(p)
    <3> DEFINE y == [x EXCEPT !.event = x.cursor + 1]
    <3>1. /\ x.opened /\ x.cursor < Len(log)
          /\ poller' = [poller EXCEPT ![p] = y]
      BY <1>2, <2>2 DEF ReceiveEvent
    <3>2. /\ y.run = x.run /\ y.event = x.cursor + 1 /\ y.cursor = x.cursor
          /\ y.opened = x.opened /\ x.cursor \in Nat /\ Len(log) \in Nat
      BY <1>3 DEF Poller, TypeOK, SubscriptionTypeOK
    <3> HIDE DEF y
    <3>3. Examines(y, wt, p, log)
      BY <1>3, <3>1, <3>2 DEF Examines
    <3>4. QED
      BY <3>1, <3>2, <3>3
  <2>3. CASE PollerCrash(p)
    BY <2>3 DEF PollerCrash
  <2>4. QED
    BY <2>1, <2>2, <2>3
<1>5. poller'[p] = y /\ \A u \in Pollers \ {p} : poller'[u] = poller[u]
  BY <1>4 DEF TypeOK, SubscriptionTypeOK
<1>6. Polling'
  BY <1>1, <1>2, <1>4, <1>5 DEF Polling
<1>7. AllDeliver'
  BY <1>1 DEF AllDeliver, Delivers, Outcomes
<1>8. QED
  BY <1>6, <1>7

LEMMA PublishReads ==
    ASSUME TypeOK, Links, AllDeliver, Polling, NEW m \in BOOLEAN, Publish(m)
    PROVE  (AllDeliver /\ Polling)' /\ Len(log) <= Len(log')
           /\ Len(log') \in Nat
<1>1. /\ log' = Append(log, m) /\ UNCHANGED <<waiter, adoption, poller>>
  BY DEF Publish
<1>2. log \in Seq(BOOLEAN)
  BY DEF TypeOK, SubscriptionTypeOK
<1>3. Len(log') = Len(log) + 1 /\ Len(log) \in Nat
  BY <1>1, <1>2
<1>4. ASSUME NEW r \in Runs PROVE Delivers(r)'
  <2>1. Delivers(r) /\ waiter[r] \in Waiter \cup {None}
    BY DEF AllDeliver, TypeOK, SubscriptionTypeOK
  <2>2. waiter[r] # None => Reads(waiter[r], Outcomes(r), Append(log, m))
    BY <1>2, <2>1, ReadsLonger DEF Delivers
  <2>3. QED
    BY <1>1, <2>2 DEF Delivers, Outcomes
<1>5. ASSUME NEW p \in Pollers, poller'[p] # None
      PROVE  Examines(poller'[p], waiter'[poller'[p].run], p, log')
  <2>1. /\ Examines(poller[p], waiter[poller[p].run], p, log)
        /\ poller[p].event \in Nat \cup {None}
    BY <1>1, <1>5, ClaimFacts DEF Polling, Poller
  <2>2. QED
    BY <1>1, <1>3, <2>1 DEF Examines
<1>6. QED
  BY <1>3, <1>4, <1>5 DEF AllDeliver, Polling

(* What a poller whose claim holds knows of its wait.                      *)
LEMMA ClaimReads ==
    ASSUME TypeOK, Links, AllWait, AllDeliver, Polling, NEW p \in Pollers,
           ClaimHolds(p), NEW r, r = poller[p].run
    PROVE  /\ r \in Runs /\ waiter[r] # None /\ waiter[r] \in Waiter
           /\ adoption[r] = None /\ Reads(waiter[r], "none", log)
           /\ poller[p] \in Poller
           /\ poller[p].opened => poller[p].cursor = waiter[r].cursor
           /\ poller[p].event # None =>
                /\ poller[p].opened /\ poller[p].event \in Nat
                /\ poller[p].event = waiter[r].cursor + 1
                /\ poller[p].event <= Len(log)
<1>1. r \in Runs /\ Waits(r)
  BY ClaimWaitsFor
<1>2. waiter[r] # None /\ waiter[r] \in Waiter /\ adoption[r] = None
  BY <1>1, SleeperFacts
<1>3. Reads(waiter[r], "none", log)
  BY <1>1, <1>2 DEF AllDeliver, Delivers, Outcomes
<1>4. /\ poller[p] # None /\ waiter[r].state = "claimed"
      /\ waiter[r].owner = p
  BY DEF ClaimHolds
<1>5. poller[p] \in Poller /\ Examines(poller[p], waiter[r], p, log)
  BY <1>4, ClaimFacts DEF Polling
<1>6. poller[p].event # None => poller[p].event \in Nat
  BY <1>5 DEF Poller
<1>7. QED
  BY <1>1, <1>2, <1>3, <1>4, <1>5, <1>6 DEF Examines

LEMMA GiveBackReads ==
    ASSUME TypeOK, Links, AllWait, AllDeliver, Polling, NEW p \in Pollers,
           ReleaseClaim(p) \/ AdvanceCursorAndRelease(p)
    PROVE  (AllDeliver /\ Polling)'
<1>1. PICK r : r = poller[p].run
  OBVIOUS
<1>2. /\ ClaimHolds(p) /\ UNCHANGED <<log, adoption>>
      /\ poller' = [poller EXCEPT ![p] = None]
  BY DEF ReleaseClaim, AdvanceCursorAndRelease
<1>3. /\ r \in Runs /\ waiter[r] \in Waiter /\ adoption[r] = None
      /\ Reads(waiter[r], "none", log)
      /\ poller[p].event # None =>
           /\ poller[p].event = waiter[r].cursor + 1
           /\ poller[p].event \in Nat /\ poller[p].event <= Len(log)
  BY <1>1, <1>2, ClaimReads
<1> DEFINE back == Released(waiter[r], "waiting")
           further == [back EXCEPT !.cursor = poller[p].event,
                                   !.examined = @ + 1]
<1>4. /\ back \in Waiter /\ back.state = "waiting"
      /\ back.start = waiter[r].start /\ back.cursor = waiter[r].cursor
      /\ back.examined = waiter[r].examined
  BY <1>3, ReleasedType
<1> HIDE DEF back
<1>5. PICK new : /\ waiter' = [waiter EXCEPT ![r] = new]
                 /\ new.state = "waiting" /\ Reads(new, "none", log)
  <2>1. CASE ReleaseClaim(p)
    <3>1. waiter' = [waiter EXCEPT ![r] = back]
      BY <1>1, <2>1 DEF ReleaseClaim, back
    <3>2. Reads(back, "none", log)
      BY <1>3, <1>4, ReadsOn
    <3>3. QED
      BY <1>4, <3>1, <3>2
  <2>2. CASE AdvanceCursorAndRelease(p)
    <3>1. /\ poller[p].event # None /\ ~log[poller[p].event]
          /\ waiter' = [waiter EXCEPT ![r] = further]
      BY <1>1, <2>2 DEF AdvanceCursorAndRelease, back
    <3>2. /\ further.state = "waiting" /\ further.start = waiter[r].start
          /\ further.cursor = poller[p].event
          /\ further.examined = waiter[r].examined + 1
      BY <1>3, <1>4, <3>1 DEF Waiter
    <3> HIDE DEF further
    <3>3. log \in Seq(BOOLEAN)
      BY DEF TypeOK, SubscriptionTypeOK
    <3>4. /\ further.cursor = waiter[r].cursor + 1
          /\ further.cursor <= Len(log) /\ ~log[further.cursor]
      BY <1>3, <3>1, <3>2
    <3>5. Reads(further, "none", log)
      BY <1>3, <3>2, <3>3, <3>4, ReadsNext
    <3>6. QED
      BY <3>1, <3>2, <3>5
  <2>3. QED
    BY <2>1, <2>2
<1>6. waiter'[r] = new /\ \A q \in Runs \ {r} : waiter'[q] = waiter[q]
  BY <1>3, <1>5 DEF TypeOK, SubscriptionTypeOK
<1>7. Delivers(r)' /\ waiter'[r].state # "claimed"
  BY <1>2, <1>3, <1>5, <1>6 DEF Delivers, Outcomes
<1>8. \A u \in Pollers : poller'[u] \in {poller[u], None}
  BY <1>2 DEF TypeOK, SubscriptionTypeOK
<1>9. QED
  BY <1>2, <1>3, <1>6, <1>7, <1>8, OneRead

LEMMA CloseClaimReads ==
    ASSUME TypeOK, Links, AllWait, AllDeliver, Polling, NEW p \in Pollers,
           NEW s, CloseClaim(p, s)
    PROVE  (AllDeliver /\ Polling)'
<1>1. PICK r : r = poller[p].run
  OBVIOUS
<1> DEFINE wt == Released(waiter[r], "closed")
<1>2. /\ ClaimHolds(p) /\ UNCHANGED <<log, adoption>>
      /\ poller' = [poller EXCEPT ![p] = None]
      /\ waiter' = [waiter EXCEPT ![r] = wt]
  BY <1>1 DEF CloseClaim
<1>3. /\ r \in Runs /\ waiter[r] \in Waiter /\ adoption[r] = None
      /\ Reads(waiter[r], "none", log)
  BY <1>1, <1>2, ClaimReads
<1>4. /\ wt.state = "closed" /\ wt.start = waiter[r].start
      /\ wt.cursor = waiter[r].cursor /\ wt.examined = waiter[r].examined
  BY <1>3, ReleasedType
<1> HIDE DEF wt
<1>5. Reads(wt, "none", log)
  BY <1>3, <1>4, ReadsOn
<1>6. waiter'[r] = wt /\ \A q \in Runs \ {r} : waiter'[q] = waiter[q]
  BY <1>2, <1>3 DEF TypeOK, SubscriptionTypeOK
<1>7. Delivers(r)' /\ waiter'[r].state # "claimed"
  BY <1>2, <1>3, <1>4, <1>5, <1>6 DEF Delivers, Outcomes
<1>8. \A u \in Pollers : poller'[u] \in {poller[u], None}
  BY <1>2 DEF TypeOK, SubscriptionTypeOK
<1>9. QED
  BY <1>2, <1>3, <1>6, <1>7, <1>8, OneRead

LEMMA PersistAdoptionReads ==
    ASSUME TypeOK, Links, AllWait, AllDeliver, Polling, NEW p \in Pollers,
           NEW kind \in {"matched", "event_limit", "timeout"},
           PersistAdoption(p, kind)
    PROVE  (AllDeliver /\ Polling)'
<1>1. PICK r, x : r = poller[p].run /\ x = poller[p]
  OBVIOUS
<1> DEFINE more == IF kind = "timeout" THEN 0 ELSE 1
           back == Released(waiter[r], "adopted")
           wt == [back EXCEPT !.cursor = x.cursor + more,
                              !.examined = @ + more]
           a == [state |-> "queued", kind |-> kind, gen |-> 0]
<1>2. /\ ClaimHolds(p) /\ x.opened /\ Outcome(p, kind)
      /\ waiter[r].examined = x.examined /\ x.examined + more <= MaxEvents
      /\ adoption' = [adoption EXCEPT ![r] = a] /\ log' = log
      /\ poller' = [poller EXCEPT ![p] = None]
  BY <1>1 DEF PersistAdoption
<1>3. waiter' = [waiter EXCEPT ![r] = wt]
  BY <1>1 DEF PersistAdoption
<1>4. /\ r \in Runs /\ waiter[r] \in Waiter /\ Reads(waiter[r], "none", log)
      /\ x \in Poller /\ x.cursor = waiter[r].cursor
      /\ x.event # None =>
           /\ x.event = waiter[r].cursor + 1
           /\ x.event \in Nat /\ x.event <= Len(log)
  BY <1>1, <1>2, ClaimReads
<1>5. /\ back \in Waiter /\ back.state = "adopted"
      /\ back.start = waiter[r].start /\ back.cursor = waiter[r].cursor
      /\ back.examined = waiter[r].examined
  BY <1>4, ReleasedType
<1> HIDE DEF back
<1>6. /\ waiter[r].cursor \in Nat /\ waiter[r].examined \in Nat
      /\ MaxEvents \in Nat /\ log \in Seq(BOOLEAN)
  BY <1>4, SubscriptionAssumption DEF Waiter, TypeOK, SubscriptionTypeOK
<1>7. /\ wt.state = "adopted" /\ wt.start = waiter[r].start
      /\ wt.cursor = waiter[r].cursor + more
      /\ wt.examined = waiter[r].examined + more
  BY <1>4, <1>5, <1>6 DEF Waiter
<1> HIDE DEF wt
<1>8. Reads(wt, kind, log)
  <2>1. CASE kind = "timeout"
    <3>1. /\ wt.start = waiter[r].start /\ wt.cursor = waiter[r].cursor
          /\ wt.examined = waiter[r].examined
      BY <1>6, <1>7, <2>1
    <3>2. Reads(wt, "none", log)
      BY <1>4, <3>1, ReadsOn
    <3>3. QED
      BY <2>1, <3>2 DEF Reads
  <2>2. CASE kind # "timeout"
    <3>1. /\ x.event # None
          /\ kind = "matched" <=> log[x.event]
          /\ kind = "event_limit" => x.examined + 1 >= MaxEvents
      BY <1>1, <1>2, <2>2 DEF Outcome
    <3>2. /\ wt.cursor = waiter[r].cursor + 1
          /\ wt.examined = waiter[r].examined + 1
          /\ wt.cursor = x.event /\ wt.cursor <= Len(log)
      BY <1>4, <1>7, <2>2, <3>1
    <3>3. kind = "event_limit" => wt.examined = MaxEvents
      BY <1>2, <1>6, <2>2, <3>1, <3>2
    <3>4. kind = "matched" <=> log[wt.cursor]
      BY <3>1, <3>2
    <3>5. QED
      BY <1>4, <1>6, <1>7, <3>2, <3>3, <3>4, ReadsNext
  <2>3. QED
    BY <2>1, <2>2
<1>9. a.kind = kind /\ a \in Adoption
  BY DEF Adoption
<1> HIDE DEF a
<1>10. /\ waiter'[r] = wt /\ adoption'[r] = a /\ a # None
       /\ \A q \in Runs \ {r} :
            waiter'[q] = waiter[q] /\ adoption'[q] = adoption[q]
  BY <1>2, <1>3, <1>4, <1>9, WaiterNoneAssumption
     DEF TypeOK, SubscriptionTypeOK
<1>11. Delivers(r)' /\ waiter'[r].state # "claimed"
  BY <1>2, <1>7, <1>8, <1>9, <1>10 DEF Delivers, Outcomes
<1>12. \A u \in Pollers : poller'[u] \in {poller[u], None}
  BY <1>2 DEF TypeOK, SubscriptionTypeOK
<1>13. QED
  BY <1>2, <1>4, <1>10, <1>11, <1>12, OneRead

(* The waits before the first one that may be polled are closed, and the   *)
(* poller of that one has examined nothing yet.                            *)
LEMMA ClaimWaiterReads ==
    ASSUME TypeOK, Links, AllDeliver, Polling, NEW p \in Pollers,
           NEW next \in Runs \cup {None}, ClaimWaiter(p, next)
    PROVE  (AllDeliver /\ Polling)' /\ log' = log
<1> DEFINE due == {r \in Runs : Pollable(r)}
           passed == {r \in due : next = None \/ r < next}
           fresh == [run |-> next, opened |-> FALSE, cursor |-> 0,
                     examined |-> 0, event |-> None]
<1>1. /\ next # None => next \in due
      /\ waiter' = [r \in Runs |->
              CASE r \in passed -> Released(waiter[r], "closed")
                [] r = next -> [waiter[r] EXCEPT !.state = "claimed",
                                       !.owner = p, !.claim = PollTtl]
                [] OTHER -> waiter[r]]
      /\ poller' = IF next = None THEN poller
                   ELSE [poller EXCEPT ![p] = fresh]
      /\ poller[p] = None
      /\ UNCHANGED <<log, adoption>>
  BY DEF ClaimWaiter
<1>2. \A r \in due : r \in Runs /\ waiter[r] # None /\ waiter[r] \in Waiter
  BY DEF Pollable, TypeOK, SubscriptionTypeOK
<1>3. next \notin passed /\ None \notin Runs /\ passed \subseteq due
  BY RunNoneAssumption DEF Runs
<1> HIDE DEF passed, due
<1>4. ASSUME NEW r \in passed
      PROVE  /\ waiter'[r].state = "closed"
             /\ waiter'[r].start = waiter[r].start
             /\ waiter'[r].cursor = waiter[r].cursor
             /\ waiter'[r].examined = waiter[r].examined
  <2> DEFINE wt == Released(waiter[r], "closed")
  <2>1. r \in Runs /\ waiter[r] \in Waiter
    BY <1>2, <1>3
  <2>2. waiter'[r] = wt
    BY <1>1, <1>3, <2>1
  <2>3. /\ wt.state = "closed" /\ wt.start = waiter[r].start
        /\ wt.cursor = waiter[r].cursor /\ wt.examined = waiter[r].examined
    BY <2>1, ReleasedType
  <2> HIDE DEF wt
  <2>4. QED
    BY <2>2, <2>3
<1>5. ASSUME next # None
      PROVE  /\ waiter'[next].owner = p
             /\ waiter'[next].start = waiter[next].start
             /\ waiter'[next].cursor = waiter[next].cursor
             /\ waiter'[next].examined = waiter[next].examined
  <2> DEFINE wt == [waiter[next] EXCEPT !.state = "claimed", !.owner = p,
                                        !.claim = PollTtl]
  <2>1. next \in Runs /\ waiter[next] \in Waiter
    BY <1>1, <1>2, <1>5
  <2>2. waiter'[next] = wt
    BY <1>1, <1>3, <2>1
  <2>3. /\ wt.owner = p /\ wt.start = waiter[next].start
        /\ wt.cursor = waiter[next].cursor
        /\ wt.examined = waiter[next].examined
    BY <2>1 DEF Waiter
  <2> HIDE DEF wt
  <2>4. QED
    BY <2>2, <2>3
<1>6. ASSUME NEW r \in Runs, r \notin passed, r # next
      PROVE  waiter'[r] = waiter[r]
  BY <1>1, <1>6
<1>7. ASSUME NEW r \in Runs PROVE Delivers(r)'
  <2>1. Delivers(r) /\ log' = log /\ Outcomes(r)' = Outcomes(r)
    BY <1>1 DEF AllDeliver, Outcomes
  <2>2. CASE r \in passed
    <3>1. /\ waiter[r] # None /\ waiter'[r].start = waiter[r].start
          /\ waiter'[r].cursor = waiter[r].cursor
          /\ waiter'[r].examined = waiter[r].examined
      BY <1>2, <1>3, <1>4, <2>2
    <3>2. QED
      BY <2>1, <3>1, ReadsOn DEF Delivers
  <2>3. CASE r = next
    <3>1. next # None /\ waiter[r] # None
      BY <1>1, <1>2, <1>3, <2>3
    <3>2. QED
      BY <1>5, <2>1, <2>3, <3>1, ReadsOn DEF Delivers
  <2>4. CASE r \notin passed /\ r # next
    BY <1>6, <2>1, <2>4 DEF Delivers
  <2>5. QED
    BY <2>2, <2>3, <2>4
<1>8. /\ poller'[p] # None => poller'[p] = fresh
      /\ \A u \in Pollers \ {p} : poller'[u] = poller[u]
  BY <1>1 DEF TypeOK, SubscriptionTypeOK
<1>9. fresh.event = None /\ ~fresh.opened
  OBVIOUS
<1> HIDE DEF fresh
<1>10. ASSUME NEW u \in Pollers, poller'[u] # None
       PROVE  Examines(poller'[u], waiter'[poller'[u].run], u, log')
  <2>1. CASE u = p
    BY <1>8, <1>9, <1>10, <2>1 DEF Examines
  <2>2. CASE u # p
    <3>1. poller'[u] = poller[u] /\ poller[u] # None
      BY <1>8, <1>10, <2>2
    <3>2. PICK x, r : x = poller[u] /\ r = poller[u].run
      OBVIOUS
    <3>3. r \in Runs /\ Examines(x, waiter[r], u, log)
      BY <3>1, <3>2, ClaimFacts DEF Polling
    <3>4. Examines(x, waiter'[r], u, log')
      <4>1. CASE r \in passed
        BY <1>1, <1>4, <3>3, <4>1 DEF Examines
      <4>2. CASE r = next
        <5>1. waiter'[r].owner # u
          BY <1>3, <1>5, <2>2, <3>3, <4>2
        <5>2. QED
          BY <1>1, <3>3, <5>1 DEF Examines
      <4>3. CASE r \notin passed /\ r # next
        BY <1>1, <1>6, <3>3, <4>3
      <4>4. QED
        BY <4>1, <4>2, <4>3
    <3>5. QED
      BY <3>1, <3>2, <3>4
  <2>3. QED
    BY <2>1, <2>2
<1>11. QED
  BY <1>1, <1>7, <1>10 DEF AllDeliver, Polling

(* A step that leaves the subscription waits alone.                        *)
LEMMA ReadsElsewhere ==
    ASSUME TypeOK, Links, AllDeliver, Polling, UNCHANGED subscriptionVars
    PROVE  (AllDeliver /\ Polling)'
<1>1. UNCHANGED <<log, waiter, adoption, poller>>
  BY DEF subscriptionVars
<1>2. (\A r \in Runs : Delivers(r))'
  BY <1>1 DEF AllDeliver, Delivers, Outcomes
<1>3. Polling'
  BY <1>1 DEF Polling
<1>4. QED
  BY <1>2, <1>3 DEF AllDeliver

LEMMA SubscribingReads ==
    ASSUME TypeOK, Links, AllWait, Positions, AllDeliver, Polling, Subscribing
    PROVE  (AllDeliver /\ Polling)' /\ Len(log) <= Len(log') /\ Len(log') \in Nat
<1>1. ASSUME NEW w \in Workers, SubscriptionWorker(w)
      PROVE  (AllDeliver /\ Polling)' /\ log' = log
  <2>1. CASE CaptureSource(w)
    BY <2>1, ReadsElsewhere DEF CaptureSource, subscriptionVars
  <2>2. CASE \E acked \in BOOLEAN : PersistRegistration(w, acked)
    BY <2>2, RegisterReads DEF PersistRegistration, Register
  <2>3. CASE ClaimAdoption(w) \/ ConsumeWaitAdoption(w)
    BY <2>3, AdoptReads DEF ClaimAdoption, ConsumeWaitAdoption
  <2>4. QED
    BY <1>1, <2>1, <2>2, <2>3 DEF SubscriptionWorker
<1>2. ASSUME NEW p \in Pollers, Poll(p)
      PROVE  (AllDeliver /\ Polling)' /\ log' = log
  <2>1. CASE \E next \in Runs \cup {None} : ClaimWaiter(p, next)
    BY <2>1, ClaimWaiterReads
  <2>2. CASE OpenClaim(p) \/ ReceiveEvent(p) \/ PollerCrash(p)
    BY <2>2, PollerReads DEF OpenClaim, ReceiveEvent, PollerCrash
  <2>3. CASE ReleaseClaim(p) \/ AdvanceCursorAndRelease(p)
    BY <2>3, GiveBackReads DEF ReleaseClaim, AdvanceCursorAndRelease
  <2>4. CASE \E kind \in {"matched", "event_limit", "timeout"} :
               PersistAdoption(p, kind)
    BY <2>4, PersistAdoptionReads DEF PersistAdoption
  <2>5. CASE \E s \in Closing : CloseClaim(p, s)
    BY <2>5, CloseClaimReads DEF CloseClaim
  <2>6. QED
    BY <1>2, <2>1, <2>2, <2>3, <2>4, <2>5 DEF Poll
<1>3. Len(log) \in Nat
  BY DEF TypeOK, SubscriptionTypeOK
<1>4. CASE \E matches \in BOOLEAN : Publish(matches)
  BY <1>4, PublishReads
<1>5. CASE (AllDeliver /\ Polling)' /\ log' = log
  BY <1>3, <1>5
<1>6. QED
  BY <1>1, <1>2, <1>4, <1>5 DEF Subscribing

LEMMA CancelReads ==
    ASSUME TypeOK, Links, AllDeliver, Polling, NEW r \in Runs,
           RequestCancellation(r)
    PROVE  (AllDeliver /\ Polling)' /\ log' = log
<1>1. /\ UNCHANGED <<log, poller>>
      /\ \A q \in Runs \ {r} :
           waiter'[q] = waiter[q] /\ adoption'[q] = adoption[q]
  BY CancelFacts
<1>2. Outcomes(r)' = Outcomes(r) /\ (adoption[r] # None => adoption'[r] # None)
  BY CancelAdoption DEF Outcomes
<1>3. /\ waiter[r] # None => waiter'[r] # None
      /\ waiter'[r] # None =>
           /\ waiter[r] # None /\ waiter'[r].start = waiter[r].start
           /\ waiter'[r].cursor = waiter[r].cursor
           /\ waiter'[r].examined = waiter[r].examined
           /\ waiter'[r].state # "claimed"
  <2>1. CASE /\ waiter'[r] = waiter[r]
             /\ waiter[r] # None => waiter[r].state \notin {"waiting", "claimed"}
    BY <2>1
  <2>2. CASE /\ waiter[r] # None /\ waiter[r] \in Waiter /\ waiter'[r] # None
             /\ waiter'[r] = Released(waiter[r], "closed")
    <3> DEFINE wt == Released(waiter[r], "closed")
    <3>1. /\ wt.state = "closed" /\ wt.start = waiter[r].start
          /\ wt.cursor = waiter[r].cursor
          /\ wt.examined = waiter[r].examined
      BY <2>2, ReleasedType
    <3>2. waiter'[r] = wt
      BY <2>2
    <3> HIDE DEF wt
    <3>3. QED
      BY <2>2, <3>1, <3>2
  <2>3. QED
    BY <2>1, <2>2, CancelWaiter
<1>4. WaitersGrow
  BY <1>1, <1>2, <1>3 DEF WaitersGrow
<1>5. ASSUME NEW q \in Runs, waiter'[q] # None
      PROVE  /\ waiter[q] # None
             /\ waiter'[q].start = waiter[q].start
             /\ waiter'[q].cursor = waiter[q].cursor
             /\ waiter'[q].examined = waiter[q].examined
             /\ Outcomes(q)' = Outcomes(q)
             /\ waiter'[q].state = "claimed" =>
                  /\ waiter[q].state = "claimed"
                  /\ waiter'[q].owner = waiter[q].owner
  <2>1. CASE q = r
    BY <1>2, <1>3, <1>5, <2>1
  <2>2. CASE q # r
    BY <1>1, <1>5, <2>2 DEF Outcomes
  <2>3. QED
    BY <2>1, <2>2
<1>6. QED
  BY <1>1, <1>4, <1>5, NothingRead

LEMMA TickReads ==
    ASSUME TypeOK, Links, AllDeliver, Polling, Tick
    PROVE  (AllDeliver /\ Polling)' /\ log' = log
<1>1. Aged
  BY TickStep
<1>2. /\ UNCHANGED <<log, adoption, poller>>
      /\ \A q \in Runs : SameWait(waiter[q], waiter'[q])
  BY <1>1 DEF Aged
<1>3. \A q \in Runs : Outcomes(q)' = Outcomes(q)
  BY <1>2 DEF Outcomes
<1>4. WaitersGrow
  BY <1>2 DEF WaitersGrow, SameWait
<1>5. \A q \in Runs : waiter'[q] # None =>
        /\ waiter[q] # None
        /\ waiter'[q].start = waiter[q].start
        /\ waiter'[q].cursor = waiter[q].cursor
        /\ waiter'[q].examined = waiter[q].examined
        /\ waiter'[q].state = waiter[q].state
        /\ waiter'[q].owner = waiter[q].owner
  BY <1>2 DEF SameWait
<1>6. QED
  BY <1>2, <1>3, <1>4, <1>5, NothingRead

LEMMA ReadsStep ==
    ASSUME TypeOK, Links, AllWait, Positions, AllDeliver, Polling, [Next]_vars
    PROVE  (Positions /\ AllDeliver /\ Polling)'
<1>1. Len(log) \in Nat
  BY DEF TypeOK, SubscriptionTypeOK
<1>2. ASSUME UNCHANGED subscriptionVars
      PROVE  (AllDeliver /\ Polling)' /\ log' = log
  BY <1>2, ReadsElsewhere DEF subscriptionVars
<1>3. CASE Runner \/ Approving \/ Backgrounding \/ UNCHANGED vars
  <2>1. UNCHANGED subscriptionVars
    BY <1>3 DEF Runner, Approving, Backgrounding, vars
  <2>2. QED
    BY <1>1, <1>2, <2>1, PositionsStep
<1>4. CASE Subscribing
  BY <1>4, SubscribingReads, PositionsStep
<1>5. CASE \E r \in Runs : RequestCancellation(r)
  BY <1>1, <1>5, CancelReads, PositionsStep
<1>6. CASE Tick
  BY <1>1, <1>6, TickReads, PositionsStep
<1>7. QED
  BY <1>3, <1>4, <1>5, <1>6 DEF Next

-----------------------------------------------------------------------------
(* The inductive invariant: what each of the properties needs of the       *)
(* others.                                                                 *)
WaitsInv ==
    /\ TypeOK /\ Links
    /\ Authority /\ EffectApprovedOnce
    /\ Spending /\ SentOnceAndHeld
    /\ Observed /\ AllSettle
    /\ AllWait /\ Adopting
    /\ Positions /\ AllDeliver /\ Polling

LEMMA InitWaits ==
    ASSUME Init
    PROVE  WaitsInv
<1>1. TypeOK /\ Links
  BY CoreInit
<1>2. /\ run = [r \in Runs |-> QueuedRun(r)]
      /\ held = [w \in Workers |-> None]
      /\ call = [r \in Runs |-> [state |-> "none", gen |-> 0]]
  BY DEF Init, ParkingInit
<1>3. /\ \A r \in Runs : run[r].state = "Queued" /\ call[r].state = "none"
      /\ \A w \in Workers : held[w] = None
  BY <1>2, QueuedRow DEF Runs
<1>4. /\ \A r \in Runs : approval[r] = None /\ effects[r] = 0
      /\ \A r \in Runs : waiter[r] = None /\ adoption[r] = None
      /\ \A p \in Pollers : poller[p] = None
  BY DEF Init, ApprovalInit, SubscriptionInit
<1>5. /\ \A r \in Runs : /\ submission[r] = None /\ job[r] = "none"
                          /\ sent[r] = 0 /\ charged[r] = 0
      /\ \A p \in Reconcilers : reconciler[p] = None
  BY DEF Init, BackgroundInit
<1>6. Authority /\ EffectApprovedOnce
  BY <1>3, <1>4 DEF Authority, At, EffectApprovedOnce, Is
<1>7. Spending /\ SentOnceAndHeld
  BY <1>3, <1>5 DEF Spending, At, SentOnceAndHeld
<1>8. Observed /\ AllSettle
  BY <1>3, <1>5 DEF Observed, AllSettle, Settles, Sub
<1>9. AllWait /\ Adopting
  BY <1>3, <1>4
     DEF AllWait, WaitsWell, OneWait, Waits, Consumed, Owns, Adopting
<1>10. Positions /\ AllDeliver /\ Polling
  BY <1>3, <1>4 DEF Positions, AllDeliver, Delivers, Polling
<1>11. QED
  BY <1>1, <1>6, <1>7, <1>8, <1>9, <1>10 DEF WaitsInv

LEMMA StepWaits ==
    ASSUME WaitsInv, [Next]_vars
    PROVE  WaitsInv'
<1>1. /\ TypeOK /\ Links /\ Authority /\ EffectApprovedOnce /\ Spending
      /\ SentOnceAndHeld /\ Observed /\ AllSettle /\ AllWait /\ Adopting
      /\ Positions /\ AllDeliver /\ Polling
  BY DEF WaitsInv
<1>2. (TypeOK /\ Links)'
  BY <1>1, CoreStep
<1>3. (Authority /\ EffectApprovedOnce)'
  BY <1>1, AuthorityStep
<1>4. (Spending /\ SentOnceAndHeld)'
  BY <1>1, SpendingStep
<1>5. (Observed /\ AllSettle)'
  BY <1>1, SettlesStep
<1>6. AllWait'
  BY <1>1, WaitsStep
<1>7. Adopting'
  BY <1>1, AdoptingStep
<1>8. (Positions /\ AllDeliver /\ Polling)'
  BY <1>1, ReadsStep
<1>9. QED
  BY <1>2, <1>3, <1>4, <1>5, <1>6, <1>7, <1>8 DEF WaitsInv

LEMMA AlwaysWaits == Spec => []WaitsInv
<1>1. Init => WaitsInv
  BY InitWaits
<1>2. WaitsInv /\ [Next]_vars => WaitsInv'
  BY StepWaits
<1>3. QED
  BY <1>1, <1>2, PTL DEF Spec

(* Every row, claim and deadline of the three waits keeps its type.        *)
THEOREM TypeCorrect == Spec => []TypeOK
<1>1. WaitsInv => TypeOK
  BY DEF WaitsInv
<1>2. QED
  BY <1>1, AlwaysWaits, PTL

(* A tool that needs an approval runs at most once, and only after the     *)
(* approval was consumed: no duplicate resume, no crash between consuming  *)
(* and executing, no recovery of the run and no reconciliation pass on     *)
(* rows it read earlier runs it again (orm_approvals.rs).                  *)
THEOREM EffectApprovedOnceHolds == Spec => []EffectApprovedOnce
<1>1. WaitsInv => EffectApprovedOnce
  BY DEF WaitsInv
<1>2. QED
  BY <1>1, AlwaysWaits, PTL

(* An approval that was denied, cancelled, expired or consumed stays so:   *)
(* no later decision, pass or cancellation writes over it                  *)
(* (decide_approval, reconcile_waits).                                     *)
THEOREM AuthorityFinalHolds == Spec => AuthorityFinal
<1>1. ASSUME WaitsInv, [Next]_vars
      PROVE  [\A r \in Runs : Is(r, Withdrawn \cup {"consumed"}) =>
                 approval'[r].state = approval[r].state]_approvalVars
  <2>1. CASE Next
    <3>1. Final
      BY <1>1, <2>1, StepFinal DEF WaitsInv
    <3>2. QED
      BY <3>1 DEF Final, Ended
  <2>2. CASE UNCHANGED vars
    BY <2>2 DEF vars
  <2>3. QED
    BY <1>1, <2>1, <2>2
<1>2. QED
  BY <1>1, AlwaysWaits, PTL DEF Spec, AuthorityFinal

(* A background request is sent at most once, and only while its budget is *)
(* held: neither a restart between the marking and the call, nor a failed  *)
(* acceptance, nor a second worker repeats it (orm_background.rs).         *)
THEOREM SentOnceAndHeldHolds == Spec => []SentOnceAndHeld
<1>1. WaitsInv => SentOnceAndHeld
  BY DEF WaitsInv
<1>2. QED
  BY <1>1, AlwaysWaits, PTL

(* What a background response is charged, and the state its run ends in,   *)
(* agree with the end the provider reached, once, whichever of webhook,    *)
(* poll, expiry and cancellation comes first (commit_once).                *)
THEOREM ChargedWithItsEndHolds == Spec => []ChargedWithItsEnd
<1>1. WaitsInv => ChargedWithItsEnd
  BY SettlesIs DEF WaitsInv
<1>2. QED
  BY <1>1, AlwaysWaits, PTL

(* A run waits exactly as long as its waiter or its submission does, and   *)
(* is resumed by one outcome: no poll, webhook, quarantine, cancellation   *)
(* or recovery ends one and leaves the other.                              *)
THEOREM RunWaitsWithItsWaitHolds == Spec => []RunWaitsWithItsWait
<1>1. WaitsInv => RunWaitsWithItsWait
  BY SettlesIs, AllWaitIs DEF WaitsInv, RunWaitsWithItsWait
<1>2. QED
  BY <1>1, AlwaysWaits, PTL

(* A wait is given the first event that matches since its position was     *)
(* captured, or the event limit reached by that many events without one:   *)
(* events published during the registration count, none is passed over,    *)
(* and a poller whose claim is over moves no cursor (process_claim).       *)
THEOREM FirstMatchDeliveredHolds == Spec => []FirstMatchDelivered
<1>1. WaitsInv => FirstMatchDelivered
  BY AllDeliverIs DEF WaitsInv
<1>2. QED
  BY <1>1, AlwaysWaits, PTL
=============================================================================
