-------------------------- MODULE CacheSyncProofs --------------------------
(***************************************************************************)
(* What cache_sync.rs promises its callers, for every number of workers,   *)
(* partitions, watchers and channel slots, every refresh policy and every  *)
(* clock skew.  The lease's own promises are proved again, because a claim *)
(* of a refresh loads and claims the row in one transaction, which is no   *)
(* single step of FencedLease.                                             *)
(***************************************************************************)
EXTENDS CacheSync, FencedLeaseProofs

(* A worker at work on a partition holds a proof of it, which is not ahead *)
(* of its row.                                                             *)
AtWork(w) == refresh[w] # None \/ outbox[w] # None
Work ==
    \A w \in Workers : AtWork(w) =>
        /\ proof[w] \in LeaseProof
        /\ proof[w].resource \in cached
        /\ proof[w].token <= lease[proof[w].resource].token

(* The next attempt is a cooldown after the last, the lease ends when the  *)
(* last attempt says.                                                      *)
Attempted ==
    \A r \in Resources :
        /\ cache[r].last # 0 => cache[r].next >= cache[r].last + Cooldown
        /\ cache[r].last <= clock + ClockSkew
        /\ r \in cached /\ lease[r].expires # None =>
              lease[r].expires <= cache[r].last + LeaseFor

(* The rows a partition shows are the provider's, and as old as it says.   *)
Shown ==
    \A r \in Resources :
        /\ projection[r] # None => projection[r].version <= source[r]
        /\ cache[r].generation > 0 =>
              /\ projection[r] # None
              /\ cache[r].fresh <=
                    projection[r].at + FreshFor + LeaseFor - 1 + ClockSkew

(* What a claim's candidate is worth: while its token is the row's it was  *)
(* collected after the attempt began, and while its base is the row's      *)
(* generation it is no older than what is shown.                           *)
CandidateWorth(w, r) ==
    /\ refresh[w].base <= cache[r].generation
    /\ refresh[w].candidate # None =>
          /\ refresh[w].candidate.version <= source[r]
          /\ lease[r].token = proof[w].token =>
                cache[r].last <= refresh[w].candidate.at + ClockSkew
          /\ (refresh[w].base = cache[r].generation /\ projection[r] # None)
                => projection[r].version <= refresh[w].candidate.version
Candidates ==
    \A w \in Workers :
        refresh[w] # None => CandidateWorth(w, proof[w].resource)

(* No generation is announced before it is committed.                      *)
Announcements ==
    /\ \A r \in Resources : announced[r] <= cache[r].generation
    /\ \A w \in Workers : outbox[w] # None =>
          outbox[w] <= cache[proof[w].resource].generation

(* A stream is up to date, about to be told, or has something to receive   *)
(* that will tell it.                                                      *)
Holds(q, r) == \E i \in 1..Len(q) : q[i] = r
UpToDate(x) ==
    /\ x.lagged => x.queue # <<>>
    /\ \/ x.state \in {"off", "ended", "notice", "told"}
       \/ x.lagged
       \/ Holds(x.queue, x.of)
       \/ x.fetched >= announced[x.of]
Streams == \A s \in Watchers : UpToDate(watcher[s])

Refreshes == Work /\ Attempted /\ Shown /\ Candidates
CacheInv == CacheTypeOK /\ History /\ Refreshes /\ Announcements /\ Streams

-----------------------------------------------------------------------------
(* A claim of a refresh, which passes the version it has just loaded, keeps *)
(* the lease well typed and its history fenced.                            *)
LEMMA ClaimKeepsLease ==
    ASSUME TypeOK, History,
           NEW w \in Workers, NEW r \in Resources, NEW o \in Owners,
           NEW a \in Attempts, NEW now \in 0..MaxTime,
           ClaimAt(w, r, o, a, LeaseFor, now, lease[r].version)
    PROVE  TypeOK' /\ History'
<1> USE BoundsAssumption, NoneAssumption, PolicyAssumption
<1> DEFINE p == [resource |-> r, owner |-> o, attempt |-> a,
                 token |-> lease[r].token + 1]
           l == [owner |-> o, attempt |-> a, token |-> lease[r].token + 1,
                 expires |-> now + LeaseFor, version |-> lease[r].version + 1]
           e == Entry("claim", p, lease[r].version)
<1>1. lease[r] \in LeaseState
  BY DEF TypeOK
<1>2. l \in LeaseState /\ p \in LeaseProof
  BY <1>1, SMTT(30) DEF ClaimAt, LeaseState, LeaseProof, HasNext
<1>3. e \in LogEntry
  BY <1>1, <1>2 DEF Entry, LogEntry, LeaseProof, LeaseState
<1>4. /\ lease' = [lease EXCEPT ![r] = l]
      /\ known' = [known EXCEPT ![w][r] = l.version]
      /\ proof' = [proof EXCEPT ![w] = p]
      /\ log' = [log EXCEPT ![r] = Append(@, e)]
      /\ clock' = clock
  BY DEF ClaimAt
<1>5. Succeeds(lease[r], l, e)
  BY <1>1 DEF Succeeds, Entry, LeaseState
<1> HIDE DEF p, l, e
<1>6. TypeOK'
  <2>1. Append(log[r], e) \in Seq(LogEntry)
    BY <1>3 DEF TypeOK
  <2>2. l.version \in 0..MaxVersion
    BY <1>2 DEF LeaseState
  <2>3. QED
    BY <1>2, <1>4, <2>1, <2>2 DEF TypeOK
<1>7. QED
  BY <1>2, <1>3, <1>4, <1>5, <1>6, AcceptPreservesHistory

(* So does the release of a claim that was just checked.                   *)
LEMMA ReleaseKeepsLease ==
    ASSUME TypeOK, History, NEW w \in Workers, NEW now \in 0..MaxTime,
           proof[w] \in LeaseProof,
           CheckClaim(w, now), ReleaseClaim(w, now)
    PROVE  TypeOK' /\ History'
<1> USE BoundsAssumption, NoneAssumption
<1> DEFINE r == proof[w].resource
           l == [lease[r] EXCEPT !.owner = None, !.attempt = None,
                                 !.expires = None, !.version = @ + 1]
           e == Entry("release", proof[w], known[w][r])
<1>1. proof[w] \in LeaseProof /\ r \in Resources
  BY DEF TypeOK, LeaseProof
<1>2. lease[r] \in LeaseState
  BY <1>1 DEF TypeOK
<1>3. /\ l.version = lease[r].version + 1
      /\ l.version <= MaxVersion
      /\ l.token = lease[r].token /\ l.owner = None
  BY <1>2 DEF ReleaseClaim, LeaseState
<1>4. l \in LeaseState
  BY <1>2, <1>3, RowTypes
<1>5. e \in LogEntry
  BY <1>1 DEF TypeOK, LogEntry, Entry, LeaseProof
<1>6. /\ lease' = [lease EXCEPT ![r] = l]
      /\ known' = [known EXCEPT ![w][r] = l.version]
      /\ log' = [log EXCEPT ![r] = Append(@, e)]
      /\ clock' = clock /\ proof' = proof
  BY DEF ReleaseClaim, Accept
<1>7. Succeeds(lease[r], l, e)
  BY <1>1, <1>3 DEF Succeeds, Entry, LeaseProof, CheckClaim, Validate,
                    EnsureVersion
<1> HIDE DEF r, l, e
<1>8. TypeOK'
  <2>1. Append(log[r], e) \in Seq(LogEntry)
    BY <1>1, <1>5 DEF TypeOK
  <2>2. l.version \in 0..MaxVersion
    BY <1>4 DEF LeaseState
  <2>3. QED
    BY <1>1, <1>4, <1>6, <2>1, <2>2 DEF TypeOK
<1>9. QED
  BY <1>1, <1>4, <1>5, <1>6, <1>7, <1>8, AcceptPreservesHistory

(* A refresh step is a claim, a release, or leaves the lease alone.        *)
LEMMA LeaseStep ==
    ASSUME CacheTypeOK, History, Work, [CacheNext]_allVars
    PROVE  TypeOK' /\ History'
<1>1. CASE DirectUse
  <2>1. [Next]_vars
    BY <1>1 DEF DirectUse, Next
  <2>2. QED
    BY <2>1, TypeStep, HistoryStep DEF CacheTypeOK
<1>2. ASSUME NEW w \in Workers, Refreshing(w) PROVE TypeOK' /\ History'
  <2>1. ASSUME NEW r \in cached, NEW o \in Owners, NEW a \in Attempts,
               NEW force \in BOOLEAN, NEW now \in 0..MaxTime,
               ClaimRefresh(w, r, o, a, force, now)
        PROVE  TypeOK' /\ History'
    BY <2>1, ClaimKeepsLease DEF ClaimRefresh, CacheTypeOK
  <2>2. ASSUME NEW now \in 0..MaxTime, refresh[w] # None,
               CheckClaim(w, now), ReleaseClaim(w, now)
        PROVE  TypeOK' /\ History'
    BY <2>2, ReleaseKeepsLease DEF CacheTypeOK, Work, AtWork
  <2>3. CASE UNCHANGED vars
    <3>1. [Next]_vars
      BY <2>3
    <3>2. QED
      BY <3>1, TypeStep, HistoryStep DEF CacheTypeOK
  <2>4. QED
    BY <1>2, <2>1, <2>2, <2>3
       DEF Refreshing, Collect, Promote, FailRefresh, Abandon, EmitChange
<1>3. CASE UNCHANGED vars \/ CacheTick
  <2>1. [Next]_vars
    BY <1>3 DEF CacheTick, Next
  <2>2. QED
    BY <2>1, TypeStep, HistoryStep DEF CacheTypeOK
<1>4. QED
  BY <1>1, <1>2, <1>3
     DEF CacheNext, SourceChanges, Watching, Subscribe, Receive, Authorize,
         Refetch, Watch, allVars

-----------------------------------------------------------------------------
(* The backoff of CacheSync::fail never brings the next attempt forward.   *)
LEMMA NextAttemptLater ==
    ASSUME NEW r, NEW now \in Nat, NEW failures \in Nat \ {0},
           cache[r].next \in Nat
    PROVE  /\ NextAttempt(r, now, failures) \in Nat
           /\ NextAttempt(r, now, failures) >= cache[r].next
<1>1. Backoff(failures) \in Int
  <2> DEFINE doubled == 2 ^ (failures - 1)
             step == RetryBackoff * doubled
  <2>1. failures - 1 \in Nat
    OBVIOUS
  <2>2. doubled \in Int
    BY <2>1, SMT
  <2>3. RetryBackoff \in Int /\ MaxBackoff \in Int
    <3>1. RetryBackoff \in Nat \ {0} /\ MaxBackoff \in Nat
      BY ONLY PolicyAssumption, Zenon DEF PolicyAssumption
    <3>2. QED
      BY ONLY <3>1
  <2> HIDE DEF doubled
  <2>4. step \in Int
    BY <2>2, <2>3
  <2>5. Backoff(failures) = Least(step, MaxBackoff)
    BY DEF Backoff, doubled
  <2> HIDE DEF step
  <2>6. QED
    BY <2>3, <2>4, <2>5 DEF Least
<1>2. QED
  BY <1>1 DEF NextAttempt, Greatest

(* A receiver's queue never grows past its channel, and what it holds it   *)
(* keeps, or it is lagged.                                                 *)
LEMMA ReceivedKeeps ==
    ASSUME NEW s \in Watchers, watcher[s] \in Watcher, NEW r \in Resources,
           Len(watcher[s].queue) <= Capacity
    PROVE  LET x == watcher[s]
               y == Received(s, r)
           IN  /\ y \in Watcher /\ Len(y.queue) <= Capacity
               /\ y.state = x.state /\ y.of = x.of /\ y.fetched = x.fetched
               /\ x.lagged => y.lagged
               /\ x.state \in {"off", "ended"} => y = x
               /\ x.state \notin {"off", "ended"} =>
                     /\ y.queue # <<>> /\ Holds(y.queue, r)
                     /\ y.lagged \/ \A t : Holds(x.queue, t) => Holds(y.queue, t)
<1> USE PolicyAssumption
<1> DEFINE x == watcher[s]
           full == Len(x.queue) = Capacity
           kept == IF full THEN Tail(x.queue) ELSE x.queue
           q == Append(kept, r)
           y == [x EXCEPT !.queue = q, !.lagged = @ \/ full]
<1>1. CASE x.state \in {"off", "ended"}
  BY <1>1 DEF Received
<1>2. CASE x.state \notin {"off", "ended"}
  <2>1. Received(s, r) = y
    BY <1>2 DEF Received
  <2>2. /\ x.queue \in Seq(Resources) /\ x.lagged \in BOOLEAN
        /\ Len(x.queue) \in Nat
    BY DEF Watcher
  <2>3. kept \in Seq(Resources) /\ Len(kept) < Capacity
    <3>1. CASE full
      BY <3>1, <2>2
    <3>2. CASE ~full
      BY <3>2, <2>2
    <3>3. QED
      BY <3>1, <3>2
  <2>4. /\ q \in Seq(Resources) /\ Len(q) = Len(kept) + 1
        /\ q[Len(kept) + 1] = r
        /\ \A i \in 1..Len(kept) : q[i] = kept[i]
        /\ Len(kept) \in Nat
    <3> HIDE DEF kept
    <3>1. QED
      BY <2>3
  <2>5. Len(q) <= Capacity /\ q # <<>> /\ Holds(q, r)
    <3> HIDE DEF kept, q
    <3>1. Len(q) \in Nat /\ Len(q) >= 1 /\ Len(q) <= Capacity
      BY <2>3, <2>4
    <3>2. QED
      BY <2>4, <3>1 DEF Holds
  <2>6. full \/ \A t : Holds(x.queue, t) => Holds(q, t)
    <3>1. CASE ~full
      <4>1. kept = x.queue
        BY <3>1
      <4> HIDE DEF kept, q
      <4>2. ASSUME NEW t, Holds(kept, t) PROVE Holds(q, t)
        <5>1. PICK i \in 1..Len(kept) : kept[i] = t
          BY <4>2 DEF Holds
        <5>2. i \in 1..Len(q) /\ q[i] = t
          BY <2>4, <5>1
        <5>3. QED
          BY <5>2 DEF Holds
      <4>3. QED
        BY <4>1, <4>2
    <3>2. QED
      BY <3>1
  <2> HIDE DEF q, full
  <2>7. /\ y \in Watcher /\ y.state = x.state /\ y.of = x.of
        /\ y.fetched = x.fetched /\ y.queue = q
        /\ y.lagged = (x.lagged \/ full)
    BY <2>2, <2>4 DEF Watcher
  <2>8. QED
    BY <1>2, <2>1, <2>5, <2>6, <2>7
<1>3. QED
  BY <1>1, <1>2

(* Rows, claims and streams keep their types.                              *)
LEMMA CacheTypeStep ==
    ASSUME CacheTypeOK, History, Work, [CacheNext]_allVars
    PROVE  CacheTypeOK'
<1> USE BoundsAssumption, NoneAssumption, PolicyAssumption
<1>1. TypeOK'
  BY LeaseStep
<1> DEFINE Rest == /\ cached \subseteq Resources
                   /\ cache \in [Resources -> CacheState]
                   /\ projection \in [Resources -> Candidate \cup {None}]
                   /\ source \in [Resources -> 0..MaxSource]
                   /\ refresh \in [Workers -> RefreshClaim \cup {None}]
                   /\ outbox \in [Workers -> Nat \cup {None}]
                   /\ watcher \in [Watchers -> Watcher]
                   /\ \A s \in Watchers : Len(watcher[s].queue) <= Capacity
                   /\ announced \in [Resources -> Nat]
<1> SUFFICES Rest'
  BY <1>1 DEF CacheTypeOK
<1>2. Rest /\ TypeOK
  BY DEF CacheTypeOK
<1>3. ASSUME UNCHANGED cacheVars PROVE Rest'
  BY <1>2, <1>3 DEF cacheVars
<1>4. ASSUME NEW w \in Workers, Refreshing(w) PROVE Rest'
  <2>1. ASSUME NEW r \in cached, NEW o \in Owners, NEW a \in Attempts,
               NEW force \in BOOLEAN, NEW now \in 0..MaxTime,
               ClaimRefresh(w, r, o, a, force, now)
        PROVE  Rest'
    <3>1. cache[r] \in CacheState /\ r \in Resources
      BY <1>2
    <3>2. now \in Nat /\ now + Cooldown \in Nat
      OBVIOUS
    <3>3. [cache[r] EXCEPT !.last = now, !.next = now + Cooldown] \in CacheState
      BY <3>1, <3>2 DEF CacheState
    <3>4. [base |-> cache[r].generation, candidate |-> None] \in RefreshClaim
      BY <3>1 DEF CacheState, RefreshClaim
    <3>5. cache' = [cache EXCEPT ![r] =
                      [cache[r] EXCEPT !.last = now, !.next = now + Cooldown]]
      BY <1>2, <2>1 DEF ClaimRefresh
    <3>6. QED
      BY <1>2, <2>1, <3>1, <3>3, <3>4, <3>5 DEF ClaimRefresh
  <2>2. CASE Collect(w)
    <3>1. proof[w] \in LeaseProof /\ proof[w].resource \in Resources
      BY <1>2, <2>2 DEF Work, AtWork, Collect, TypeOK, LeaseProof
    <3>2. clock \in Nat /\ source[proof[w].resource] \in Nat
      BY <1>2, <3>1 DEF TypeOK
    <3>3. [version |-> source[proof[w].resource], at |-> clock] \in Candidate
      BY <3>2 DEF Candidate
    <3>4. refresh[w] \in RefreshClaim
      BY <1>2, <2>2 DEF Collect
    <3>5. [refresh[w] EXCEPT !.candidate =
             [version |-> source[proof[w].resource], at |-> clock]]
            \in RefreshClaim
      BY <3>3, <3>4 DEF RefreshClaim
    <3>6. QED
      BY <1>2, <2>2, <3>5 DEF Collect
  <2>3. ASSUME NEW now \in 0..MaxTime, NEW answered \in BOOLEAN,
               Promote(w, now, answered)
        PROVE  Rest'
    <3> DEFINE r == proof[w].resource
    <3>1. proof[w] \in LeaseProof /\ r \in Resources
      BY <1>2, <2>3 DEF Work, AtWork, Promote, TypeOK, LeaseProof
    <3>2. cache[r] \in CacheState /\ cache[r].generation + 1 \in Nat
      BY <1>2, <3>1, SMTT(20) DEF CacheState
    <3>3. now + FreshFor \in Nat
      OBVIOUS
    <3>4. [cache[r] EXCEPT !.generation = cache[r].generation + 1,
                           !.fresh = now + FreshFor, !.failures = 0]
            \in CacheState
      BY <3>2, <3>3 DEF CacheState
    <3>5. refresh[w].candidate \in Candidate
      BY <1>2, <2>3 DEF Promote, RefreshClaim
    <3> HIDE DEF r
    <3>6. /\ projection' = [projection EXCEPT ![r] = refresh[w].candidate]
          /\ cache' = [cache EXCEPT ![r] =
               [cache[r] EXCEPT !.generation = cache[r].generation + 1,
                                !.fresh = now + FreshFor, !.failures = 0]]
          /\ outbox' = [outbox EXCEPT ![w] =
               IF answered THEN cache[r].generation + 1 ELSE None]
          /\ refresh' = [refresh EXCEPT ![w] = None]
          /\ UNCHANGED <<cached, source, watcher, announced>>
      BY <1>2, <2>3, <3>1 DEF Promote, r
    <3>7. QED
      BY <1>2, <3>1, <3>2, <3>4, <3>5, <3>6
  <2>4. ASSUME NEW now \in 0..MaxTime, FailRefresh(w, now) PROVE Rest'
    <3> DEFINE r == proof[w].resource
               f == cache[r].failures + 1
    <3>1. proof[w] \in LeaseProof /\ r \in Resources
      BY <1>2, <2>4 DEF Work, AtWork, FailRefresh, TypeOK, LeaseProof
    <3>2. /\ cache[r] \in CacheState /\ f \in Nat \ {0}
          /\ cache[r].next \in Nat
      <4>1. cache[r] \in CacheState
        BY <1>2, <3>1
      <4>2. cache[r].failures \in Nat /\ cache[r].next \in Nat
        BY <4>1 DEF CacheState
      <4>3. QED
        BY <4>1, <4>2
    <3> HIDE DEF r, f
    <3>3. NextAttempt(r, now, f) \in Nat
      <4>1. now \in Nat
        OBVIOUS
      <4>2. QED
        BY ONLY <3>2, <4>1, NextAttemptLater
    <3>4. [cache[r] EXCEPT !.failures = f, !.next = NextAttempt(r, now, f)]
            \in CacheState
      BY <3>2, <3>3 DEF CacheState
    <3>5. /\ cache' = [cache EXCEPT ![r] =
               [cache[r] EXCEPT !.failures = f, !.next = NextAttempt(r, now, f)]]
          /\ refresh' = [refresh EXCEPT ![w] = None]
          /\ UNCHANGED <<cached, projection, source, outbox, watcher, announced>>
      BY <1>2, <2>4, <3>1 DEF FailRefresh, r, f
    <3>6. QED
      BY <1>2, <3>1, <3>4, <3>5
  <2>5. CASE Abandon(w)
    BY <1>2, <2>5 DEF Abandon
  <2>6. CASE EmitChange(w)
    <3>1. outbox[w] # None /\ proof[w] \in LeaseProof
      BY <2>6 DEF EmitChange, Work, AtWork
    <3>2. outbox[w] \in Nat /\ proof[w].resource \in Resources
      BY <1>2, <3>1 DEF TypeOK, LeaseProof
    <3>3. announced' \in [Resources -> Nat]
      BY <1>2, <2>6, <3>2 DEF EmitChange, Greatest
    <3>4. \A s \in Watchers : /\ watcher'[s] \in Watcher
                              /\ Len(watcher'[s].queue) <= Capacity
      BY <1>2, <2>6, <3>2, ReceivedKeeps DEF EmitChange
    <3>5. watcher' \in [Watchers -> Watcher]
      BY <2>6, <3>4 DEF EmitChange
    <3>6. QED
      BY <1>2, <2>6, <3>2, <3>3, <3>4, <3>5 DEF EmitChange
  <2>7. QED
    BY <1>4, <2>1, <2>2, <2>3, <2>4, <2>5, <2>6 DEF Refreshing
<1>5. ASSUME NEW r \in cached, SourceChanges(r) PROVE Rest'
  <2>1. r \in Resources /\ source[r] \in 0..MaxSource
    BY <1>2
  <2>2. source[r] + 1 \in 0..MaxSource
    BY <1>5, <2>1 DEF SourceChanges
  <2>3. QED
    BY <1>2, <1>5, <2>2 DEF SourceChanges
<1>6. ASSUME NEW s \in Watchers, Watching(s) PROVE Rest'
  <2>1. /\ watcher[s] \in Watcher
        /\ watcher[s].queue \in Seq(Resources)
        /\ Len(watcher[s].queue) <= Capacity
        /\ Len(watcher[s].queue) \in Nat
        /\ watcher[s].of \in Resources
    BY <1>2 DEF Watcher
  <2>2. ASSUME NEW x \in Watcher, Len(x.queue) <= Capacity, Watch(s, x)
        PROVE  Rest'
    BY <1>2, <2>2 DEF Watch
  <2>3. CASE Subscribe(s)
    BY <2>1, <2>2, <2>3 DEF Subscribe, Watcher
  <2>4. CASE Receive(s)
    <3>1. Tail(watcher[s].queue) \in Seq(Resources)
      BY <2>1, <2>4 DEF Receive
    <3>2. Len(Tail(watcher[s].queue)) <= Capacity
      BY <2>1, <2>4 DEF Receive
    <3>3. QED
      BY <2>1, <2>2, <2>4, <3>1, <3>2 DEF Receive, Watcher
  <2>5. ASSUME NEW allowed \in BOOLEAN, Authorize(s, allowed) PROVE Rest'
    BY <2>1, <2>2, <2>5 DEF Authorize, Watcher
  <2>6. CASE Refetch(s)
    <3>1. cache[watcher[s].of].generation \in Nat
      BY <1>2, <2>1 DEF CacheState
    <3>2. QED
      BY <2>1, <2>2, <2>6, <3>1 DEF Refetch, Watcher
  <2>7. QED
    BY <1>6, <2>3, <2>4, <2>5, <2>6 DEF Watching
<1>7. QED
  BY <1>3, <1>4, <1>5, <1>6 DEF CacheNext, DirectUse, CacheTick, allVars

-----------------------------------------------------------------------------
(* Using a lease directly disturbs no other worker's proof and no other    *)
(* row.                                                                    *)
LEMMA OperateElsewhere ==
    ASSUME TypeOK, NEW w \in Workers, NEW r \in Resources, Operate(w, r)
    PROVE  /\ \A u \in Workers \ {w} : proof'[u] = proof[u]
           /\ \A q \in Resources \ {r} : lease'[q] = lease[q]
           /\ clock' = clock
<1>1. CASE Observe(w, r)
  BY <1>1 DEF Observe
<1>2. ASSUME NEW o \in Owners, NEW a \in Attempts, NEW ttl \in Ttls,
             NEW now \in 0..MaxTime, Claim(w, r, o, a, ttl, now)
      PROVE  /\ \A u \in Workers \ {w} : proof'[u] = proof[u]
             /\ \A q \in Resources \ {r} : lease'[q] = lease[q]
             /\ clock' = clock
  BY <1>2 DEF Claim, ClaimAt, TypeOK
<1>3. ASSUME NEW l, NEW op, Accept(op, w, r, l)
      PROVE  /\ proof' = proof /\ clock' = clock
             /\ \A q \in Resources \ {r} : lease'[q] = lease[q]
  BY <1>3 DEF Accept, TypeOK
<1>4. QED
  BY <1>1, <1>2, <1>3 DEF Operate, Heartbeat, CommitFencedWrite, Release

(* What ClaimRefresh and the release of a checked claim do to the lease.   *)
LEMMA ClaimedRow ==
    ASSUME TypeOK, NEW w \in Workers, NEW r \in Resources, NEW o \in Owners,
           NEW a \in Attempts, NEW now \in 0..MaxTime,
           ClaimAt(w, r, o, a, LeaseFor, now, lease[r].version)
    PROVE  /\ \A u \in Workers \ {w} : proof'[u] = proof[u]
           /\ \A q \in Resources \ {r} : lease'[q] = lease[q]
           /\ proof'[w] \in LeaseProof
           /\ proof'[w].resource = r
           /\ proof'[w].token = lease[r].token + 1
           /\ lease'[r].token = lease[r].token + 1
           /\ lease'[r].expires = now + LeaseFor
           /\ clock' = clock
           /\ now <= clock + ClockSkew
<1> USE BoundsAssumption
<1>1. lease[r] \in LeaseState /\ proof \in [Workers -> LeaseProof \cup {None}]
      /\ lease \in [Resources -> LeaseState]
  BY DEF TypeOK
<1>2. [resource |-> r, owner |-> o, attempt |-> a,
       token |-> lease[r].token + 1] \in LeaseProof
  BY <1>1 DEF ClaimAt, HasNext, LeaseProof, LeaseState
<1>3. QED
  BY <1>1, <1>2 DEF ClaimAt, MayRead
LEMMA ReleasedRow ==
    ASSUME TypeOK, NEW w \in Workers, NEW now \in 0..MaxTime,
           proof[w] \in LeaseProof,
           CheckClaim(w, now), ReleaseClaim(w, now)
    PROVE  LET r == proof[w].resource IN
           /\ \A q \in Resources \ {r} : lease'[q] = lease[q]
           /\ lease'[r].token = lease[r].token
           /\ lease'[r].expires = None
           /\ proof' = proof /\ clock' = clock
           /\ lease[r].token = proof[w].token
           /\ lease[r].expires # None /\ lease[r].expires > now
           /\ now <= clock + ClockSkew
           /\ cache[r].generation = refresh[w].base
<1> DEFINE r == proof[w].resource
<1>1. r \in Resources /\ lease[r] \in LeaseState
      /\ lease \in [Resources -> LeaseState]
  BY DEF TypeOK, LeaseProof
<1>2. QED
  BY <1>1 DEF ReleaseClaim, Accept, CheckClaim, Validate, IsActive, MayRead,
              LeaseState

-----------------------------------------------------------------------------
(* The steps of a cache, those that only watchers see told apart.          *)
WatchersOnly ==
    UNCHANGED <<vars, cached, cache, projection, source, refresh, outbox>>
LEMMA StepCases ==
    ASSUME [CacheNext]_allVars
    PROVE  \/ DirectUse
           \/ \E w \in Workers : Refreshing(w)
           \/ \E r \in cached : SourceChanges(r)
           \/ CacheTick
           \/ WatchersOnly
<1>1. ASSUME NEW s \in Watchers, Watching(s) PROVE WatchersOnly
  BY <1>1 DEF Watching, Subscribe, Receive, Authorize, Refetch, Watch,
              WatchersOnly
<1>2. CASE UNCHANGED allVars
  BY <1>2 DEF allVars, cacheVars, WatchersOnly
<1>3. QED
  BY <1>1, <1>2 DEF CacheNext

(* A worker at work keeps the proof its claim gave it.                     *)
LEMMA WorkStep ==
    ASSUME CacheTypeOK, Work, [CacheNext]_allVars
    PROVE  Work'
<1> USE BoundsAssumption DEF CacheTypeOK
<1>0. \A u \in Workers : AtWork(u) =>
        /\ proof[u] \in LeaseProof /\ proof[u].resource \in cached
        /\ proof[u].resource \in Resources
        /\ proof[u].token <= lease[proof[u].resource].token
        /\ proof[u].token \in Int
  BY DEF Work, LeaseProof
<1>1. CASE DirectUse
  <2>1. ASSUME NEW w \in Workers, NEW r \in Resources \ cached,
               refresh[w] = None, outbox[w] = None, Operate(w, r)
        PROVE  Work'
    <3>1. UNCHANGED cacheVars
      BY <1>1 DEF DirectUse
    <3>2. SUFFICES ASSUME NEW u \in Workers, AtWork(u)'
                   PROVE  /\ proof'[u] = proof[u] /\ AtWork(u)
                          /\ lease'[proof[u].resource] = lease[proof[u].resource]
      BY <1>0, <3>1 DEF Work, cacheVars
    <3>3. AtWork(u) /\ u # w
      BY <2>1, <3>1, <3>2 DEF AtWork, cacheVars
    <3>4. proof'[u] = proof[u] /\ \A q \in Resources \ {r} : lease'[q] = lease[q]
      BY <2>1, <3>3, OperateElsewhere
    <3>5. proof[u].resource \in Resources \ {r}
      BY <1>0, <3>3
    <3>6. QED
      BY <3>3, <3>4, <3>5
  <2>2. CASE cached = {} /\ UNCHANGED cacheVars
    BY <1>0, <2>2 DEF Work, AtWork, cacheVars
  <2>3. QED
    BY <1>1, <2>1, <2>2 DEF DirectUse
<1>2. ASSUME NEW w \in Workers, NEW r \in cached, NEW o \in Owners,
             NEW a \in Attempts, NEW force \in BOOLEAN,
             NEW now \in 0..MaxTime, ClaimRefresh(w, r, o, a, force, now)
      PROVE  Work'
  <2>1. /\ \A u \in Workers \ {w} : proof'[u] = proof[u]
        /\ \A q \in Resources \ {r} : lease'[q] = lease[q]
        /\ proof'[w] \in LeaseProof
        /\ proof'[w].resource = r
        /\ proof'[w].token = lease[r].token + 1
        /\ lease'[r].token = lease[r].token + 1
    BY <1>2, ClaimedRow DEF ClaimRefresh
  <2>2. lease[r].token \in Int
    BY DEF TypeOK, LeaseState
  <2>7. \A q \in Resources : /\ lease[q].token \in Int
                             /\ lease'[q].token \in Int
                             /\ lease'[q].token >= lease[q].token
    <3>1. \A q \in Resources : lease[q].token \in Int
      BY DEF TypeOK, LeaseState
    <3>2. \A q \in Resources : q = r \/ lease'[q] = lease[q]
      BY <2>1
    <3>3. lease[r].token \in Int /\ lease'[r].token = lease[r].token + 1
      BY <2>1, <2>2
    <3>4. QED
      BY ONLY <3>1, <3>2, <3>3
  <2>3. cached' = cached /\ \A u \in Workers \ {w} : AtWork(u)' = AtWork(u)
    BY <1>2 DEF ClaimRefresh, AtWork
  <2> SUFFICES ASSUME NEW u \in Workers, AtWork(u)'
               PROVE  /\ proof'[u] \in LeaseProof
                      /\ proof'[u].resource \in cached
                      /\ proof'[u].token <= lease'[proof'[u].resource].token
    BY <2>3 DEF Work
  <2>4. CASE u = w
    BY <2>1, <2>2, <2>4
  <2>5. CASE u # w
    <3>1. AtWork(u) /\ proof'[u] = proof[u]
      BY <2>1, <2>3, <2>5
    <3>2. /\ proof[u] \in LeaseProof /\ proof[u].resource \in cached
          /\ proof[u].resource \in Resources
          /\ proof[u].token <= lease[proof[u].resource].token
          /\ proof[u].token \in Int
      BY <1>0, <3>1
    <3>3. QED
      BY ONLY <2>7, <3>1, <3>2
  <2>6. QED
    BY <2>4, <2>5
<1>3. ASSUME NEW w \in Workers, AtWork(w), cached' = cached, proof' = proof,
             \A q \in Resources : lease'[q].token = lease[q].token,
             \A u \in Workers \ {w} : AtWork(u)' = AtWork(u)
      PROVE  Work'
  BY <1>0, <1>3 DEF Work
<1>4. ASSUME NEW w \in Workers, NEW now \in 0..MaxTime,
             (\E answered \in BOOLEAN : Promote(w, now, answered))
                \/ FailRefresh(w, now)
      PROVE  Work'
  <2>1. AtWork(w) /\ CheckClaim(w, now) /\ ReleaseClaim(w, now)
        /\ cached' = cached
        /\ \A u \in Workers \ {w} : AtWork(u)' = AtWork(u)
    BY <1>4 DEF Promote, FailRefresh, AtWork
  <2>2. /\ proof' = proof
        /\ \A q \in Resources : lease'[q].token = lease[q].token
    BY <1>0, <2>1, ReleasedRow
  <2>3. QED
    BY <1>3, <2>1, <2>2
<1>5. ASSUME NEW w \in Workers, Collect(w) \/ Abandon(w) \/ EmitChange(w)
      PROVE  Work'
  BY <1>3, <1>5 DEF Collect, Abandon, EmitChange, AtWork, vars
<1>6. ASSUME UNCHANGED <<cached, refresh, outbox, lease, proof>>
      PROVE  Work'
  BY <1>6 DEF Work, AtWork
<1>7. CASE \/ \E r \in cached : SourceChanges(r)
           \/ CacheTick
           \/ WatchersOnly
  BY <1>6, <1>7 DEF SourceChanges, CacheTick, Tick, cacheVars, WatchersOnly, vars
<1>8. QED
  BY <1>1, <1>2, <1>4, <1>5, <1>7, StepCases DEF Refreshing

(* Every attempt waits for its turn, and its lease ends with its time.     *)
LEMMA AttemptedStep ==
    ASSUME CacheTypeOK, Work, Attempted, [CacheNext]_allVars
    PROVE  Attempted'
<1> USE BoundsAssumption, PolicyAssumption, NoneAssumption
<1>0. \A q \in Resources :
        /\ cache[q] \in CacheState
        /\ cache[q].last \in Nat /\ cache[q].next \in Nat /\ clock \in Nat
        /\ cache[q].failures \in Nat
        /\ lease[q].expires # None => lease[q].expires \in Nat
  BY DEF CacheState, TypeOK, LeaseState, CacheTypeOK
<1>1. cached \subseteq Resources /\ TypeOK
      /\ cache \in [Resources -> CacheState]
  BY DEF CacheTypeOK
<1>2. ASSUME UNCHANGED cacheVars, clock' = clock,
             \A q \in cached : lease'[q] = lease[q]
      PROVE  Attempted'
  BY <1>2 DEF Attempted, cacheVars
<1>3. ASSUME NEW r \in Resources, cached' = cached, clock' = clock,
             \A q \in Resources \ {r} : lease'[q] = lease[q],
             \A q \in Resources \ {r} : cache'[q] = cache[q],
             cache'[r].last # 0 => cache'[r].next >= cache'[r].last + Cooldown,
             cache'[r].last <= clock + ClockSkew,
             lease'[r].expires # None =>
                lease'[r].expires <= cache'[r].last + LeaseFor
      PROVE  Attempted'
  BY <1>3 DEF Attempted
<1>4. CASE DirectUse
  <2>1. ASSUME NEW w \in Workers, NEW r \in Resources \ cached,
               Operate(w, r)
        PROVE  Attempted'
    BY <1>1, <1>2, <1>4, <2>1, OperateElsewhere DEF DirectUse
  <2>2. ASSUME NEW w \in Workers, Crash(w) PROVE Attempted'
    BY <1>2, <1>4, <2>2 DEF DirectUse, Crash
  <2>3. QED
    BY <1>4, <2>1, <2>2 DEF DirectUse
<1>5. ASSUME NEW w \in Workers, NEW r \in cached, NEW o \in Owners,
             NEW a \in Attempts, NEW force \in BOOLEAN,
             NEW now \in 0..MaxTime, ClaimRefresh(w, r, o, a, force, now)
      PROVE  Attempted'
  <2>1. /\ \A q \in Resources \ {r} : lease'[q] = lease[q]
        /\ lease'[r].expires = now + LeaseFor
        /\ clock' = clock
        /\ now <= clock + ClockSkew
    BY <1>1, <1>5, ClaimedRow DEF ClaimRefresh
  <2>2. /\ cached' = cached
        /\ \A q \in Resources \ {r} : cache'[q] = cache[q]
        /\ cache'[r].last = now /\ cache'[r].next = now + Cooldown
    BY <1>0, <1>1, <1>5 DEF ClaimRefresh, CacheState
  <2>3. QED
    BY <1>1, <1>3, <2>1, <2>2
<1>6. ASSUME NEW w \in Workers, NEW now \in 0..MaxTime,
             (\E answered \in BOOLEAN : Promote(w, now, answered))
                \/ FailRefresh(w, now)
      PROVE  Attempted'
  <2> DEFINE r == proof[w].resource
             f == cache[r].failures + 1
  <2>1. AtWork(w) /\ CheckClaim(w, now) /\ ReleaseClaim(w, now)
        /\ cached' = cached
    BY <1>6 DEF Promote, FailRefresh, AtWork
  <2>2. proof[w] \in LeaseProof /\ r \in Resources
    BY <1>1, <2>1 DEF Work
  <2>3. /\ \A q \in Resources \ {r} : lease'[q] = lease[q]
        /\ lease'[r].expires = None /\ clock' = clock
    BY <1>1, <2>1, <2>2, ReleasedRow
  <2>4. /\ \A q \in Resources \ {r} : cache'[q] = cache[q]
        /\ cache'[r].last = cache[r].last
        /\ \/ cache'[r].next = cache[r].next
           \/ cache'[r].next = NextAttempt(r, now, f)
    <3>1. ASSUME NEW answered \in BOOLEAN, Promote(w, now, answered)
          PROVE  /\ \A q \in Resources \ {r} : cache'[q] = cache[q]
                 /\ cache'[r].last = cache[r].last
                 /\ cache'[r].next = cache[r].next
      BY <1>0, <1>1, <2>2, <3>1 DEF Promote, CacheState
    <3>2. ASSUME FailRefresh(w, now)
          PROVE  /\ \A q \in Resources \ {r} : cache'[q] = cache[q]
                 /\ cache'[r].last = cache[r].last
                 /\ cache'[r].next = NextAttempt(r, now, f)
      BY <1>0, <1>1, <2>2, <3>2 DEF FailRefresh, CacheState
    <3>3. QED
      BY <1>6, <3>1, <3>2
  <2>5. now \in Nat /\ f \in Nat \ {0} /\ cache[r].next \in Nat
        /\ cache[r].last \in Nat
    BY <1>0, <2>2
  <2> HIDE DEF r, f
  <2>6. cache'[r].next \in Nat /\ cache'[r].next >= cache[r].next
    <3>1. /\ NextAttempt(r, now, f) \in Nat
          /\ NextAttempt(r, now, f) >= cache[r].next
      BY <2>5, NextAttemptLater
    <3>2. QED
      BY <2>4, <2>5, <3>1
  <2>7. /\ cache[r].last # 0 => cache[r].next >= cache[r].last + Cooldown
        /\ cache[r].last <= clock + ClockSkew
    BY <2>2 DEF Attempted
  <2>8. cache'[r].last # 0 => cache'[r].next >= cache'[r].last + Cooldown
    BY <2>4, <2>5, <2>6, <2>7
  <2>9. QED
    BY <1>3, <2>1, <2>2, <2>3, <2>4, <2>7, <2>8
<1>7. CASE CacheTick
  BY <1>0, <1>7 DEF CacheTick, Tick, cacheVars, Attempted
<1>8. ASSUME UNCHANGED <<cached, cache, lease, clock>>
      PROVE  Attempted'
  BY <1>8 DEF Attempted
<1>9. CASE \/ \E w \in Workers : Collect(w) \/ Abandon(w) \/ EmitChange(w)
           \/ \E r \in cached : SourceChanges(r)
           \/ WatchersOnly
  BY <1>8, <1>9 DEF Collect, Abandon, EmitChange, SourceChanges, WatchersOnly,
                    vars
<1>10. QED
  BY <1>4, <1>5, <1>6, <1>7, <1>9, StepCases DEF Refreshing

(* What every step of a refresh is about: a worker at work, its partition, *)
(* and what the row and the claim hold.                                    *)
LEMMA AtWorkTypes ==
    ASSUME CacheTypeOK, Work, NEW w \in Workers, AtWork(w)
    PROVE  /\ proof[w] \in LeaseProof
           /\ proof[w].resource \in Resources
           /\ proof[w].resource \in cached
           /\ proof[w].token \in Nat
           /\ proof[w].token <= lease[proof[w].resource].token
           /\ refresh[w] # None =>
                 /\ refresh[w] \in RefreshClaim
                 /\ refresh[w].base \in Nat
                 /\ refresh[w].candidate # None =>
                       /\ refresh[w].candidate \in Candidate
                       /\ refresh[w].candidate.version \in Nat
                       /\ refresh[w].candidate.at \in Nat
<1>1. proof[w] \in LeaseProof /\ proof[w].resource \in cached
      /\ proof[w].token <= lease[proof[w].resource].token
  BY DEF Work
<1>2. proof[w].resource \in Resources /\ proof[w].token \in Nat
  BY <1>1, BoundsAssumption DEF LeaseProof
<1>3. ASSUME refresh[w] # None
      PROVE  /\ refresh[w] \in RefreshClaim /\ refresh[w].base \in Nat
             /\ refresh[w].candidate # None => refresh[w].candidate \in Candidate
  BY <1>3 DEF CacheTypeOK, RefreshClaim
<1>4. \A c \in Candidate : c.version \in Nat /\ c.at \in Nat
  BY DEF Candidate
<1>5. QED
  BY <1>1, <1>2, <1>3, <1>4
LEMMA RowTypesOf ==
    ASSUME CacheTypeOK, NEW r \in Resources
    PROVE  /\ cache[r] \in CacheState
           /\ cache[r].generation \in Nat /\ cache[r].last \in Nat
           /\ cache[r].fresh \in Nat /\ cache[r].next \in Nat
           /\ cache[r].failures \in Nat
           /\ source[r] \in Nat /\ announced[r] \in Nat /\ clock \in Nat
           /\ lease[r].token \in Nat
           /\ lease[r].expires # None => lease[r].expires \in Nat
           /\ projection[r] # None =>
                 /\ projection[r] \in Candidate
                 /\ projection[r].version \in Nat /\ projection[r].at \in Nat
<1> USE BoundsAssumption, PolicyAssumption
<1>1. cache[r] \in CacheState
  BY DEF CacheTypeOK
<1>2. /\ cache[r].generation \in Nat /\ cache[r].last \in Nat
      /\ cache[r].fresh \in Nat /\ cache[r].next \in Nat
      /\ cache[r].failures \in Nat
  BY <1>1 DEF CacheState
<1>3. source[r] \in Nat /\ announced[r] \in Nat
  BY DEF CacheTypeOK
<1>4. clock \in Nat
  BY DEF CacheTypeOK, TypeOK
<1>5. lease[r] \in LeaseState
  BY DEF CacheTypeOK, TypeOK
<1>6. /\ lease[r].token \in Nat
      /\ lease[r].expires # None => lease[r].expires \in Nat
  BY <1>5 DEF LeaseState
<1>7. projection[r] # None => projection[r] \in Candidate
  BY DEF CacheTypeOK
<1>8. \A c \in Candidate : c.version \in Nat /\ c.at \in Nat
  BY DEF Candidate
<1>9. QED
  BY <1>1, <1>2, <1>3, <1>4, <1>6, <1>7, <1>8

(* What promotion and failure do to the row of the partition.              *)
LEMMA PromotedRow ==
    ASSUME CacheTypeOK, Work, NEW w \in Workers, NEW now \in 0..MaxTime,
           NEW answered \in BOOLEAN, Promote(w, now, answered)
    PROVE  LET r == proof[w].resource IN
           /\ AtWork(w) /\ refresh[w] # None /\ refresh[w].candidate # None
           /\ CheckClaim(w, now) /\ ReleaseClaim(w, now)
           /\ \A q \in Resources \ {r} : cache'[q] = cache[q]
           /\ \A q \in Resources \ {r} : projection'[q] = projection[q]
           /\ projection'[r] = refresh[w].candidate
           /\ cache'[r].generation = cache[r].generation + 1
           /\ cache'[r].fresh = now + FreshFor
           /\ cache'[r].last = cache[r].last
           /\ cache'[r].next = cache[r].next
           /\ \A u \in Workers \ {w} : refresh'[u] = refresh[u]
           /\ \A u \in Workers \ {w} : outbox'[u] = outbox[u]
           /\ refresh'[w] = None
           /\ outbox'[w] = None \/ outbox'[w] = cache[r].generation + 1
           /\ UNCHANGED <<cached, source, watcher, announced>>
<1> DEFINE r == proof[w].resource
<1>1. AtWork(w)
  BY DEF Promote, AtWork
<1>2. /\ r \in Resources /\ cache[r] \in CacheState
      /\ cache \in [Resources -> CacheState]
      /\ projection \in [Resources -> Candidate \cup {None}]
      /\ refresh \in [Workers -> RefreshClaim \cup {None}]
      /\ outbox \in [Workers -> Nat \cup {None}]
  BY <1>1, AtWorkTypes, RowTypesOf DEF CacheTypeOK
<1>3. /\ \A q \in Resources \ {r} : cache'[q] = cache[q]
      /\ cache'[r].generation = cache[r].generation + 1
      /\ cache'[r].fresh = now + FreshFor
      /\ cache'[r].last = cache[r].last
      /\ cache'[r].next = cache[r].next
  BY <1>2 DEF Promote, CacheState
<1>4. QED
  BY <1>1, <1>2, <1>3 DEF Promote
LEMMA FailedRow ==
    ASSUME CacheTypeOK, Work, NEW w \in Workers, NEW now \in 0..MaxTime,
           FailRefresh(w, now)
    PROVE  LET r == proof[w].resource IN
           /\ AtWork(w) /\ CheckClaim(w, now) /\ ReleaseClaim(w, now)
           /\ \A q \in Resources \ {r} : cache'[q] = cache[q]
           /\ cache'[r].generation = cache[r].generation
           /\ cache'[r].fresh = cache[r].fresh
           /\ cache'[r].last = cache[r].last
           /\ \A u \in Workers \ {w} : refresh'[u] = refresh[u]
           /\ refresh'[w] = None
           /\ UNCHANGED <<cached, projection, source, outbox, watcher, announced>>
<1> DEFINE r == proof[w].resource
<1>1. AtWork(w)
  BY DEF FailRefresh, AtWork
<1>2. /\ r \in Resources /\ cache[r] \in CacheState
      /\ cache \in [Resources -> CacheState]
      /\ refresh \in [Workers -> RefreshClaim \cup {None}]
  BY <1>1, AtWorkTypes, RowTypesOf DEF CacheTypeOK
<1>3. /\ \A q \in Resources \ {r} : cache'[q] = cache[q]
      /\ cache'[r].generation = cache[r].generation
      /\ cache'[r].fresh = cache[r].fresh
      /\ cache'[r].last = cache[r].last
  BY <1>2 DEF FailRefresh, CacheState
<1>4. QED
  BY <1>1, <1>2, <1>3 DEF FailRefresh

(* Only a promotion changes what is shown, and a promotion needs the lease *)
(* it was claimed with.                                                    *)
LEMMA ShownStep ==
    ASSUME CacheTypeOK, Refreshes, [CacheNext]_allVars
    PROVE  Shown'
<1> USE PolicyAssumption, BoundsAssumption, NoneAssumption
<1>0. Work /\ Attempted /\ Shown /\ Candidates
  BY DEF Refreshes
<1>1. ASSUME UNCHANGED <<cache, projection, source>> PROVE Shown'
  BY <1>0, <1>1 DEF Shown
<1>2. ASSUME NEW w \in Workers, NEW r \in cached, NEW o \in Owners,
             NEW a \in Attempts, NEW force \in BOOLEAN,
             NEW now \in 0..MaxTime, ClaimRefresh(w, r, o, a, force, now)
      PROVE  Shown'
  <2>1. /\ cache \in [Resources -> CacheState] /\ r \in Resources
        /\ \A q \in Resources : cache[q] \in CacheState
    BY DEF CacheTypeOK
  <2>2. /\ UNCHANGED <<projection, source>>
        /\ cache' = [cache EXCEPT ![r].last = now, ![r].next = now + Cooldown]
    BY <1>2 DEF ClaimRefresh
  <2>3. \A q \in Resources : /\ cache'[q].generation = cache[q].generation
                             /\ cache'[q].fresh = cache[q].fresh
    BY <2>1, <2>2 DEF CacheState
  <2>4. QED
    BY <1>0, <2>2, <2>3 DEF Shown
<1>3. ASSUME NEW w \in Workers, NEW now \in 0..MaxTime,
             NEW answered \in BOOLEAN, Promote(w, now, answered)
      PROVE  Shown'
  <2> DEFINE r == proof[w].resource
             c == refresh[w].candidate
  <2>1. /\ AtWork(w) /\ refresh[w] # None /\ c # None
        /\ CheckClaim(w, now) /\ ReleaseClaim(w, now)
        /\ \A q \in Resources \ {r} : cache'[q] = cache[q]
        /\ \A q \in Resources \ {r} : projection'[q] = projection[q]
        /\ projection'[r] = c
        /\ cache'[r].fresh = now + FreshFor
        /\ source' = source
    BY <1>0, <1>3, PromotedRow
  <2>2. /\ proof[w] \in LeaseProof /\ r \in Resources /\ r \in cached
        /\ c.version \in Nat /\ c.at \in Nat
    BY <1>0, <2>1, AtWorkTypes
  <2>3. /\ lease[r].token = proof[w].token
        /\ lease[r].expires # None /\ lease[r].expires > now
    BY <2>1, <2>2, ReleasedRow DEF CacheTypeOK
  <2>4. c.version <= source[r] /\ cache[r].last <= c.at + ClockSkew
    BY <1>0, <2>1, <2>3 DEF Candidates, CandidateWorth
  <2>5. lease[r].expires <= cache[r].last + LeaseFor
    BY <1>0, <2>2, <2>3 DEF Attempted
  <2>6. cache[r].last \in Nat /\ lease[r].expires \in Nat
    BY <2>2, <2>3, RowTypesOf
  <2> HIDE DEF r, c
  <2>7. cache'[r].fresh <= c.at + FreshFor + LeaseFor - 1 + ClockSkew
    BY <2>1, <2>2, <2>3, <2>4, <2>5, <2>6
  <2>8. QED
    BY <1>0, <2>1, <2>2, <2>4, <2>7 DEF Shown
<1>4. ASSUME NEW w \in Workers, NEW now \in 0..MaxTime, FailRefresh(w, now)
      PROVE  Shown'
  <2>1. /\ UNCHANGED <<projection, source>>
        /\ \A q \in Resources : /\ cache'[q].generation = cache[q].generation
                                /\ cache'[q].fresh = cache[q].fresh
    BY <1>0, <1>4, FailedRow
  <2>2. QED
    BY <1>0, <2>1 DEF Shown
<1>5. ASSUME NEW r \in cached, SourceChanges(r) PROVE Shown'
  <2>1. UNCHANGED <<cache, projection>>
        /\ \A q \in Resources : source'[q] = source[q] \/ source'[q] = source[q] + 1
    BY <1>5 DEF SourceChanges, CacheTypeOK
  <2>2. \A q \in Resources : source[q] \in Nat
          /\ (projection[q] # None => projection[q].version \in Nat)
    BY RowTypesOf
  <2>3. QED
    BY <1>0, <2>1, <2>2 DEF Shown
<1>6. QED
  BY <1>1, <1>2, <1>3, <1>4, <1>5, StepCases
     DEF Refreshing, Collect, Abandon, EmitChange, CacheTick, DirectUse,
         cacheVars, WatchersOnly

(* A claim's candidate keeps its worth until the claim is superseded.      *)
LEMMA CandidatesStep ==
    ASSUME CacheTypeOK, Refreshes, [CacheNext]_allVars
    PROVE  Candidates'
<1> USE PolicyAssumption, BoundsAssumption, NoneAssumption
<1>0. Work /\ Attempted /\ Shown /\ Candidates
  BY DEF Refreshes
<1>1. ASSUME NEW u \in Workers, refresh[u] # None
      PROVE  LET q == proof[u].resource IN
             /\ q \in Resources /\ q \in cached /\ proof[u].token \in Nat
             /\ proof[u].token <= lease[q].token
             /\ refresh[u].base \in Nat /\ refresh[u].base <= cache[q].generation
             /\ CandidateWorth(u, q)
  BY <1>0, <1>1, AtWorkTypes DEF AtWork, Candidates, CandidateWorth
<1>2. ASSUME NEW u \in Workers, refresh[u] # None, refresh'[u] = refresh[u],
             proof'[u] = proof[u],
             LET q == proof[u].resource IN
               /\ lease'[q].token = lease[q].token
               /\ cache'[q].last = cache[q].last
               /\ cache'[q].generation = cache[q].generation
               /\ projection'[q] = projection[q]
               /\ source'[q] = source[q]
      PROVE  CandidateWorth(u, proof[u].resource)'
  <2>1. CandidateWorth(u, proof[u].resource)
    BY <1>1, <1>2
  <2>2. QED
    BY <1>2, <2>1 DEF CandidateWorth
<1>3. CASE DirectUse
  <2>1. UNCHANGED cacheVars
    BY <1>3 DEF DirectUse
  <2>2. ASSUME NEW w \in Workers, NEW r \in Resources \ cached,
               refresh[w] = None, Operate(w, r)
        PROVE  Candidates'
    <3> SUFFICES ASSUME NEW u \in Workers, refresh'[u] # None
                 PROVE  CandidateWorth(u, proof[u].resource)'
                        /\ proof'[u] = proof[u]
      BY DEF Candidates
    <3>1. u # w /\ refresh[u] # None
      BY <2>1, <2>2 DEF cacheVars
    <3>2. proof'[u] = proof[u] /\ proof[u].resource # r
          /\ lease'[proof[u].resource] = lease[proof[u].resource]
      <4>1. /\ \A v \in Workers \ {w} : proof'[v] = proof[v]
            /\ \A q \in Resources \ {r} : lease'[q] = lease[q]
        BY <2>2, OperateElsewhere DEF CacheTypeOK
      <4>2. proof[u].resource \in Resources /\ proof[u].resource \in cached
        BY <1>1, <3>1
      <4>3. QED
        BY <2>2, <3>1, <4>1, <4>2
    <3>3. QED
      BY <1>2, <2>1, <3>1, <3>2 DEF cacheVars
  <2>3. CASE cached = {}
    BY <1>1, <2>1, <2>3 DEF Candidates, cacheVars
  <2>4. QED
    BY <1>3, <2>2, <2>3 DEF DirectUse
<1>4. ASSUME NEW w \in Workers, NEW r \in cached, NEW o \in Owners,
             NEW a \in Attempts, NEW force \in BOOLEAN,
             NEW now \in 0..MaxTime, ClaimRefresh(w, r, o, a, force, now)
      PROVE  Candidates'
  <2>1. /\ cache \in [Resources -> CacheState] /\ r \in Resources
        /\ \A q \in Resources : cache[q] \in CacheState
        /\ refresh \in [Workers -> RefreshClaim \cup {None}]
        /\ TypeOK
    BY DEF CacheTypeOK
  <2>2. /\ UNCHANGED <<projection, source>>
        /\ cache' = [cache EXCEPT ![r].last = now, ![r].next = now + Cooldown]
        /\ refresh' = [refresh EXCEPT ![w] = [base |-> cache[r].generation,
                                              candidate |-> None]]
        /\ ClaimAt(w, r, o, a, LeaseFor, now, lease[r].version)
    BY <1>4 DEF ClaimRefresh
  <2>3. /\ \A q \in Resources : cache'[q].generation = cache[q].generation
        /\ \A q \in Resources \ {r} : cache'[q].last = cache[q].last
        /\ \A u \in Workers \ {w} : refresh'[u] = refresh[u]
        /\ refresh'[w].base = cache[r].generation
        /\ refresh'[w].candidate = None
    BY <2>1, <2>2 DEF CacheState
  <2>4. /\ \A u \in Workers \ {w} : proof'[u] = proof[u]
        /\ \A q \in Resources \ {r} : lease'[q] = lease[q]
        /\ proof'[w].resource = r
        /\ lease'[r].token = lease[r].token + 1
    BY <2>1, <2>2, ClaimedRow
  <2>5. cache[r].generation \in Nat /\ lease[r].token \in Nat
    BY <2>1, RowTypesOf
  <2> SUFFICES ASSUME NEW u \in Workers, refresh'[u] # None
               PROVE  CandidateWorth(u, proof[u].resource)'
    BY DEF Candidates
  <2>6. CASE u = w
    BY <2>1, <2>3, <2>4, <2>5, <2>6 DEF CandidateWorth
  <2>7. CASE u # w /\ proof[u].resource # r
    <3>1. refresh'[u] = refresh[u] /\ proof'[u] = proof[u]
      BY <2>3, <2>4, <2>7
    <3>2. QED
      BY <1>1, <1>2, <2>2, <2>3, <2>4, <2>7, <3>1
  <2>8. CASE u # w /\ proof[u].resource = r
    <3>1. refresh'[u] = refresh[u] /\ proof'[u] = proof[u]
      BY <2>3, <2>4, <2>8
    <3>2. CandidateWorth(u, r) /\ proof[u].token <= lease[r].token
          /\ proof[u].token \in Nat
      BY <1>1, <2>8, <3>1
    <3>3. lease'[r].token # proof'[u].token
      BY <2>4, <2>5, <3>1, <3>2
    <3>4. proof'[u].resource = r
      BY <2>8, <3>1
    <3>5. QED
      BY <2>1, <2>2, <2>3, <3>1, <3>2, <3>3, <3>4 DEF CandidateWorth
  <2>9. QED
    BY <2>6, <2>7, <2>8
<1>5. ASSUME NEW w \in Workers, Collect(w) PROVE Candidates'
  <2> DEFINE r == proof[w].resource
             c == [version |-> source[r], at |-> clock]
  <2>1. /\ refresh[w] # None /\ refresh[w] \in RefreshClaim /\ AtWork(w)
        /\ UNCHANGED <<vars, cache, projection, source>>
        /\ refresh' = [refresh EXCEPT ![w].candidate = c]
        /\ refresh \in [Workers -> RefreshClaim \cup {None}]
    BY <1>5 DEF Collect, CacheTypeOK, AtWork
  <2>2. /\ \A u \in Workers \ {w} : refresh'[u] = refresh[u]
        /\ refresh'[w].base = refresh[w].base
        /\ refresh'[w].candidate = c
    BY <2>1 DEF RefreshClaim
  <2>3. r \in Resources /\ CandidateWorth(w, r)
    BY <1>1, <2>1
  <2>4. /\ cache[r].last <= clock + ClockSkew
        /\ projection[r] # None => projection[r].version <= source[r]
        /\ source[r] \in Nat /\ clock \in Nat
    BY <1>0, <2>3, RowTypesOf DEF Attempted, Shown
  <2>5. c.version = source[r] /\ c.at = clock
    OBVIOUS
  <2> HIDE DEF r, c
  <2>6. CandidateWorth(w, r)'
    <3>1. r' = r
      BY <2>1 DEF r, vars
    <3>2. QED
      BY <2>1, <2>2, <2>3, <2>4, <2>5, <3>1 DEF CandidateWorth, vars
  <2>7. ASSUME NEW u \in Workers, u # w, refresh'[u] # None
        PROVE  CandidateWorth(u, proof[u].resource)'
    BY <1>2, <2>1, <2>2, <2>7 DEF vars
  <2>8. QED
    BY <2>6, <2>7 DEF Candidates, r
<1>6. ASSUME NEW w \in Workers, NEW now \in 0..MaxTime,
             NEW answered \in BOOLEAN, Promote(w, now, answered)
      PROVE  Candidates'
  <2> DEFINE r == proof[w].resource
  <2>1. /\ AtWork(w) /\ CheckClaim(w, now) /\ ReleaseClaim(w, now)
        /\ \A q \in Resources \ {r} : cache'[q] = cache[q]
        /\ \A q \in Resources \ {r} : projection'[q] = projection[q]
        /\ cache'[r].generation = cache[r].generation + 1
        /\ cache'[r].last = cache[r].last
        /\ \A u \in Workers \ {w} : refresh'[u] = refresh[u]
        /\ refresh'[w] = None
        /\ source' = source
    BY <1>0, <1>6, PromotedRow
  <2>2. proof[w] \in LeaseProof /\ r \in Resources
    BY <1>0, <2>1, AtWorkTypes
  <2>3. /\ \A q \in Resources : lease'[q].token = lease[q].token
        /\ proof' = proof
    BY <2>1, <2>2, ReleasedRow DEF CacheTypeOK
  <2>4. cache[r].generation \in Nat
    BY <2>2, RowTypesOf
  <2> SUFFICES ASSUME NEW u \in Workers, refresh'[u] # None
               PROVE  CandidateWorth(u, proof[u].resource)'
    BY DEF Candidates
  <2>5. u # w /\ refresh'[u] = refresh[u] /\ refresh[u] # None
    BY <2>1
  <2>6. CASE proof[u].resource # r
    BY <1>1, <1>2, <2>1, <2>3, <2>5, <2>6
  <2>7. CASE proof[u].resource = r
    <3>1. CandidateWorth(u, r) /\ refresh[u].base \in Nat
          /\ refresh[u].base <= cache[r].generation
      BY <1>1, <2>5, <2>7
    <3>2. proof'[u].resource = r
      BY <2>3, <2>7
    <3> HIDE DEF r
    <3>3. QED
      BY <2>1, <2>2, <2>3, <2>4, <2>5, <3>1, <3>2 DEF CandidateWorth
  <2>8. QED
    BY <2>6, <2>7
<1>7. ASSUME NEW w \in Workers, NEW now \in 0..MaxTime, FailRefresh(w, now)
      PROVE  Candidates'
  <2> DEFINE r == proof[w].resource
  <2>1. /\ AtWork(w) /\ CheckClaim(w, now) /\ ReleaseClaim(w, now)
        /\ \A q \in Resources : /\ cache'[q].generation = cache[q].generation
                                /\ cache'[q].last = cache[q].last
        /\ \A u \in Workers \ {w} : refresh'[u] = refresh[u]
        /\ refresh'[w] = None
        /\ UNCHANGED <<projection, source>>
    BY <1>0, <1>7, FailedRow
  <2>2. proof[w] \in LeaseProof /\ r \in Resources
    BY <1>0, <2>1, AtWorkTypes
  <2>3. /\ \A q \in Resources : lease'[q].token = lease[q].token
        /\ proof' = proof
    BY <2>1, <2>2, ReleasedRow DEF CacheTypeOK
  <2> SUFFICES ASSUME NEW u \in Workers, refresh'[u] # None
               PROVE  CandidateWorth(u, proof[u].resource)'
    BY DEF Candidates
  <2>4. refresh'[u] = refresh[u] /\ refresh[u] # None
    BY <2>1
  <2>5. QED
    BY <1>1, <1>2, <2>1, <2>3, <2>4
<1>8. ASSUME NEW r \in cached, SourceChanges(r) PROVE Candidates'
  <2>1. /\ UNCHANGED <<vars, cache, projection, refresh>>
        /\ \A q \in Resources : /\ source[q] \in Nat
                                /\ source'[q] \in Nat
                                /\ source'[q] >= source[q]
    <3>1. \A q \in Resources : source'[q] = source[q] \/ source'[q] = source[q] + 1
      BY <1>8 DEF SourceChanges, CacheTypeOK
    <3>2. \A q \in Resources : source[q] \in Nat
      BY RowTypesOf
    <3>3. QED
      BY <1>8, <3>1, <3>2 DEF SourceChanges
  <2> SUFFICES ASSUME NEW u \in Workers, refresh[u] # None
               PROVE  CandidateWorth(u, proof[u].resource)'
    BY <2>1 DEF Candidates
  <2> DEFINE q == proof[u].resource
  <2>2. CandidateWorth(u, q) /\ q \in Resources
    BY <1>1
  <2>3. refresh[u].candidate # None => refresh[u].candidate.version \in Nat
    BY <1>0, AtWorkTypes DEF AtWork
  <2>4. QED
    BY <2>1, <2>2, <2>3 DEF CandidateWorth, vars
<1>9. ASSUME UNCHANGED <<lease, proof, cache, projection, source>>,
             \A u \in Workers : refresh'[u] = refresh[u] \/ refresh'[u] = None
      PROVE  Candidates'
  BY <1>0, <1>9 DEF Candidates, CandidateWorth
<1>10. CASE \/ \E w \in Workers : Abandon(w) \/ EmitChange(w)
            \/ CacheTick \/ WatchersOnly
  BY <1>9, <1>10 DEF Abandon, EmitChange, CacheTick, Tick, WatchersOnly,
                     cacheVars, vars, CacheTypeOK
<1>11. QED
  BY <1>3, <1>4, <1>5, <1>6, <1>7, <1>8, <1>10, StepCases DEF Refreshing

-----------------------------------------------------------------------------
(* A change is announced after the commit that made it.                    *)
LEMMA AnnouncementsStep ==
    ASSUME CacheTypeOK, Refreshes, Announcements, [CacheNext]_allVars
    PROVE  Announcements'
<1> USE NoneAssumption
<1>0. Work
  BY DEF Refreshes
<1>1. \A u \in Workers : outbox[u] # None =>
        /\ outbox[u] \in Nat
        /\ proof[u].resource \in Resources /\ proof[u].resource \in cached
        /\ outbox[u] <= cache[proof[u].resource].generation
  BY <1>0, AtWorkTypes DEF AtWork, Announcements, CacheTypeOK
<1>2. \A q \in Resources : /\ announced[q] \in Nat
                           /\ announced[q] <= cache[q].generation
                           /\ cache[q].generation \in Nat
  BY RowTypesOf DEF Announcements
<1>3. ASSUME \A u \in Workers : outbox'[u] = None
                \/ (outbox'[u] = outbox[u] /\ proof'[u] = proof[u]),
             announced' = announced,
             \A q \in Resources : cache'[q].generation = cache[q].generation
      PROVE  Announcements'
  BY <1>1, <1>2, <1>3 DEF Announcements
<1>4. CASE DirectUse
  <2>1. UNCHANGED cacheVars
    BY <1>4 DEF DirectUse
  <2>5. /\ announced' = announced
        /\ \A q \in Resources : cache'[q].generation = cache[q].generation
    BY <2>1 DEF cacheVars
  <2>2. ASSUME NEW w \in Workers, NEW r \in Resources \ cached,
               outbox[w] = None, Operate(w, r)
        PROVE  Announcements'
    <3>1. \A u \in Workers \ {w} : proof'[u] = proof[u]
      BY <2>2, OperateElsewhere DEF CacheTypeOK
    <3>2. \A u \in Workers : outbox'[u] = None
             \/ (outbox'[u] = outbox[u] /\ proof'[u] = proof[u])
      BY <2>1, <2>2, <3>1 DEF cacheVars
    <3>3. QED
      BY <1>3, <2>5, <3>2
  <2>3. CASE cached = {}
    <3>1. \A u \in Workers : outbox'[u] = None
      BY <1>1, <2>1, <2>3 DEF cacheVars
    <3>2. QED
      BY <1>3, <2>5, <3>1
  <2>4. QED
    BY <1>4, <2>2, <2>3 DEF DirectUse
<1>5. ASSUME NEW w \in Workers, NEW r \in cached, NEW o \in Owners,
             NEW a \in Attempts, NEW force \in BOOLEAN,
             NEW now \in 0..MaxTime, ClaimRefresh(w, r, o, a, force, now)
      PROVE  Announcements'
  <2>1. /\ cache \in [Resources -> CacheState] /\ r \in Resources
        /\ \A q \in Resources : cache[q] \in CacheState
        /\ TypeOK
    BY DEF CacheTypeOK
  <2>2. /\ outbox[w] = None /\ UNCHANGED <<outbox, announced>>
        /\ cache' = [cache EXCEPT ![r].last = now, ![r].next = now + Cooldown]
        /\ ClaimAt(w, r, o, a, LeaseFor, now, lease[r].version)
    BY <1>5 DEF ClaimRefresh
  <2>3. \A q \in Resources : cache'[q].generation = cache[q].generation
    BY <2>1, <2>2 DEF CacheState
  <2>4. \A u \in Workers \ {w} : proof'[u] = proof[u]
    BY <2>1, <2>2, ClaimedRow
  <2>5. \A u \in Workers : outbox'[u] = None
           \/ (outbox'[u] = outbox[u] /\ proof'[u] = proof[u])
    BY <2>2, <2>4
  <2>6. QED
    BY <1>3, <2>2, <2>3, <2>5
<1>6. ASSUME NEW w \in Workers, NEW now \in 0..MaxTime,
             NEW answered \in BOOLEAN, Promote(w, now, answered)
      PROVE  Announcements'
  <2> DEFINE r == proof[w].resource
  <2>1. /\ AtWork(w) /\ CheckClaim(w, now) /\ ReleaseClaim(w, now)
        /\ \A q \in Resources \ {r} : cache'[q] = cache[q]
        /\ cache'[r].generation = cache[r].generation + 1
        /\ \A u \in Workers \ {w} : outbox'[u] = outbox[u]
        /\ outbox'[w] = None \/ outbox'[w] = cache[r].generation + 1
        /\ announced' = announced
    BY <1>0, <1>6, PromotedRow
  <2>2. proof[w] \in LeaseProof /\ r \in Resources
    BY <1>0, <2>1, AtWorkTypes
  <2>3. proof' = proof
    BY <2>1, <2>2, ReleasedRow DEF CacheTypeOK
  <2> HIDE DEF r
  <2>4. \A q \in Resources : /\ cache'[q].generation \in Nat
                             /\ cache'[q].generation >= cache[q].generation
    BY <1>2, <2>1, <2>2
  <2>5. \A q \in Resources : announced'[q] <= cache'[q].generation
    BY <1>2, <2>1, <2>4
  <2>6. ASSUME NEW u \in Workers, outbox'[u] # None
        PROVE  outbox'[u] <= cache'[proof'[u].resource].generation
    <3>1. CASE u = w
      BY <1>2, <2>1, <2>2, <2>3, <2>6, <3>1 DEF r
    <3>2. CASE u # w
      BY <1>1, <1>2, <2>1, <2>3, <2>4, <2>6, <3>2
    <3>3. QED
      BY <3>1, <3>2
  <2>7. QED
    BY <2>5, <2>6 DEF Announcements
<1>7. ASSUME NEW w \in Workers, NEW now \in 0..MaxTime, FailRefresh(w, now)
      PROVE  Announcements'
  <2>1. /\ AtWork(w) /\ CheckClaim(w, now) /\ ReleaseClaim(w, now)
        /\ \A q \in Resources : cache'[q].generation = cache[q].generation
        /\ UNCHANGED <<outbox, announced>>
    BY <1>0, <1>7, FailedRow
  <2>2. proof[w] \in LeaseProof
    BY <1>0, <2>1, AtWorkTypes
  <2>3. proof' = proof
    BY <2>1, <2>2, ReleasedRow DEF CacheTypeOK
  <2>4. QED
    BY <1>3, <2>1, <2>3
<1>8. ASSUME NEW w \in Workers, EmitChange(w) PROVE Announcements'
  <2> DEFINE r == proof[w].resource
  <2>1. /\ outbox[w] # None /\ UNCHANGED <<vars, cache>>
        /\ announced' = [announced EXCEPT ![r] = Greatest(@, outbox[w])]
        /\ \A u \in Workers : outbox'[u] = None \/ outbox'[u] = outbox[u]
    BY <1>8 DEF EmitChange, CacheTypeOK
  <2>2. /\ r \in Resources /\ outbox[w] \in Nat
        /\ outbox[w] <= cache[r].generation
    BY <1>1, <2>1
  <2> HIDE DEF r
  <2>3. Greatest(announced[r], outbox[w]) <= cache[r].generation
    BY <1>2, <2>2 DEF Greatest
  <2>4. \A q \in Resources : announced'[q] <= cache'[q].generation
    <3>1. announced \in [Resources -> Nat]
      BY DEF CacheTypeOK
    <3>2. QED
      BY <1>2, <2>1, <2>3, <3>1
  <2>5. QED
    BY <1>1, <2>1, <2>4 DEF Announcements, vars
<1>9. CASE \/ \E w \in Workers : Collect(w) \/ Abandon(w)
           \/ \E r \in cached : SourceChanges(r)
           \/ CacheTick
  BY <1>3, <1>9 DEF Collect, Abandon, SourceChanges, CacheTick, Tick,
                    cacheVars, vars
<1>10. ASSUME NEW s \in Watchers, Watching(s) PROVE Announcements'
  BY <1>3, <1>10 DEF Watching, Subscribe, Receive, Authorize, Refetch, Watch,
                     vars
<1>11. CASE UNCHANGED allVars
  BY <1>3, <1>11 DEF allVars, cacheVars, vars
<1>12. QED
  BY <1>4, <1>5, <1>6, <1>7, <1>8, <1>9, <1>10, <1>11 DEF CacheNext, Refreshing

(* Dropping the head of a queue loses only the head.                       *)
LEMMA HoldsTail ==
    ASSUME NEW S, NEW q \in Seq(S), q # <<>>, NEW r, Holds(q, r), Head(q) # r
    PROVE  Holds(Tail(q), r)
<1>1. PICK i \in 1..Len(q) : q[i] = r
  BY DEF Holds
<1>2. Len(q) \in Nat /\ Head(q) = q[1] /\ i # 1
  BY <1>1
<1>3. /\ Len(Tail(q)) = Len(q) - 1
      /\ \A j \in 1..Len(Tail(q)) : Tail(q)[j] = q[j + 1]
  OBVIOUS
<1>4. i - 1 \in 1..Len(Tail(q)) /\ Tail(q)[i - 1] = r
  BY <1>1, <1>2, <1>3
<1>5. QED
  BY <1>4 DEF Holds

(* No stream is left without a reason to be told: the notice a change      *)
(* causes is pending, queued, or stood for by the gap it is part of.       *)
LEMMA StreamsStep ==
    ASSUME CacheTypeOK, Refreshes, Announcements, Streams,
           [CacheNext]_allVars
    PROVE  Streams'
<1> USE NoneAssumption
<1>1. \A s \in Watchers :
        /\ watcher[s] \in Watcher /\ watcher[s].of \in Resources
        /\ watcher[s].queue \in Seq(Resources)
        /\ watcher[s].fetched \in Nat
        /\ watcher[s].lagged \in BOOLEAN
        /\ Len(watcher[s].queue) <= Capacity
        /\ UpToDate(watcher[s])
  BY DEF CacheTypeOK, Watcher, Streams
<1>2. CASE UNCHANGED <<watcher, announced>>
  BY <1>2 DEF Streams, UpToDate
<1>3. ASSUME NEW w \in Workers, EmitChange(w) PROVE Streams'
  <2> DEFINE r == proof[w].resource
  <2>1. /\ outbox[w] # None
        /\ announced' = [announced EXCEPT ![r] = Greatest(@, outbox[w])]
        /\ \A s \in Watchers : watcher'[s] = Received(s, r)
    BY <1>3 DEF EmitChange
  <2>2. r \in Resources
    BY <2>1, AtWorkTypes DEF AtWork, Refreshes
  <2>3. \A q \in Resources \ {r} : announced'[q] = announced[q]
    BY <2>1 DEF CacheTypeOK
  <2> HIDE DEF r
  <2> SUFFICES ASSUME NEW s \in Watchers PROVE UpToDate(watcher[s])'
    BY DEF Streams
  <2> DEFINE x == watcher[s]
             y == Received(s, r)
  <2>4. /\ y.state = x.state /\ y.of = x.of /\ y.fetched = x.fetched
        /\ x.lagged => y.lagged
        /\ x.state \in {"off", "ended"} => y = x
        /\ x.state \notin {"off", "ended"} =>
              /\ y.queue # <<>> /\ Holds(y.queue, r)
              /\ y.lagged \/ \A t : Holds(x.queue, t) => Holds(y.queue, t)
    BY <1>1, <2>2, ReceivedKeeps
  <2>5. x.of \in Resources /\ UpToDate(x)
    BY <1>1
  <2>6. watcher'[s] = y
    BY <2>1
  <2> HIDE DEF y
  <2>7. QED
    BY <2>3, <2>4, <2>5, <2>6 DEF UpToDate
<1>4. ASSUME NEW s \in Watchers, NEW x, Watch(s, x),
             announced' = announced => UpToDate(x)
      PROVE  Streams'
  <2>1. /\ announced' = announced
        /\ watcher' = [watcher EXCEPT ![s] = x]
    BY <1>4 DEF Watch
  <2>2. \A t \in Watchers : watcher'[t] = watcher[t] \/ watcher'[t] = x
    BY <2>1 DEF CacheTypeOK
  <2>3. QED
    BY <1>1, <1>4, <2>1, <2>2 DEF Streams, UpToDate
<1>5. ASSUME NEW s \in Watchers, Watching(s) PROVE Streams'
  <2> DEFINE x == watcher[s]
  <2>0. /\ x \in Watcher /\ x.queue \in Seq(Resources) /\ UpToDate(x)
        /\ x.of \in Resources /\ x.lagged \in BOOLEAN
    BY <1>1
  <2>1. CASE Subscribe(s)
    <3> DEFINE y == [x EXCEPT !.state = "notice"]
    <3>1. Watch(s, y)
      BY <2>1 DEF Subscribe
    <3>2. y.state = "notice" /\ y.lagged = x.lagged /\ y.queue = x.queue
      BY <2>0 DEF Watcher
    <3> HIDE DEF y
    <3>3. UpToDate(y)
      BY <2>0, <3>2 DEF UpToDate
    <3>4. QED
      BY <1>4, <3>1, <3>3
  <2>2. CASE Receive(s)
    <3> DEFINE told == x.lagged \/ Head(x.queue) = x.of
               y == [x EXCEPT !.state = IF told THEN "notice" ELSE "idle",
                              !.lagged = FALSE,
                              !.queue = IF x.lagged THEN @ ELSE Tail(@)]
    <3>1. /\ Watch(s, y) /\ x.state = "idle" /\ x.queue # <<>>
      BY <2>2 DEF Receive
    <3>2. /\ y.state = (IF told THEN "notice" ELSE "idle")
          /\ y.lagged = FALSE /\ y.of = x.of /\ y.fetched = x.fetched
          /\ y.queue = IF x.lagged THEN x.queue ELSE Tail(x.queue)
      BY <2>0 DEF Watcher
    <3> HIDE DEF y
    <3>3. UpToDate(y)
      <4>1. CASE told
        BY <3>2, <4>1 DEF UpToDate
      <4>2. CASE ~told
        <5>1. Holds(x.queue, x.of) => Holds(y.queue, x.of)
          BY <2>0, <3>1, <3>2, <4>2, HoldsTail
        <5>2. Holds(x.queue, x.of) \/ x.fetched >= announced[x.of]
          BY <2>0, <3>1, <4>2 DEF UpToDate
        <5>3. QED
          BY <3>2, <5>1, <5>2 DEF UpToDate
      <4>3. QED
        BY <4>1, <4>2
    <3>4. QED
      BY <1>4, <3>1, <3>3
  <2>3. ASSUME NEW allowed \in BOOLEAN, Authorize(s, allowed) PROVE Streams'
    <3> DEFINE y == [x EXCEPT !.state = IF allowed THEN "told" ELSE "ended"]
    <3>1. Watch(s, y)
      BY <2>3 DEF Authorize
    <3>2. /\ y.state \in {"told", "ended"}
          /\ y.lagged = x.lagged /\ y.queue = x.queue
      BY <2>0 DEF Watcher
    <3> HIDE DEF y
    <3>3. UpToDate(y)
      BY <2>0, <3>2 DEF UpToDate
    <3>4. QED
      BY <1>4, <3>1, <3>3
  <2>4. CASE Refetch(s)
    <3> DEFINE y == [x EXCEPT !.state = "idle",
                              !.fetched = cache[x.of].generation]
    <3>1. Watch(s, y)
      BY <2>4 DEF Refetch
    <3>2. /\ y.fetched = cache[x.of].generation /\ y.of = x.of
          /\ y.lagged = x.lagged /\ y.queue = x.queue
      BY <2>0 DEF Watcher
    <3>3. /\ announced[x.of] <= cache[x.of].generation
          /\ announced[x.of] \in Nat /\ cache[x.of].generation \in Nat
      BY <2>0, RowTypesOf DEF Announcements
    <3> HIDE DEF y
    <3>4. UpToDate(y)
      BY <2>0, <3>2, <3>3 DEF UpToDate
    <3>5. QED
      BY <1>4, <3>1, <3>4
  <2>5. QED
    BY <1>5, <2>1, <2>2, <2>3, <2>4 DEF Watching
<1>6. CASE DirectUse \/ CacheTick \/ UNCHANGED allVars
           \/ \E r \in cached : SourceChanges(r)
  BY <1>2, <1>6 DEF DirectUse, SourceChanges, CacheTick, allVars, cacheVars
<1>7. ASSUME NEW w \in Workers, Refreshing(w), ~EmitChange(w) PROVE Streams'
  BY <1>2, <1>7 DEF Refreshing, Collect, ClaimRefresh, Promote, FailRefresh,
                    Abandon
<1>8. QED
  BY <1>3, <1>5, <1>6, <1>7 DEF CacheNext

-----------------------------------------------------------------------------
LEMMA CacheInvInit == CacheInit => CacheInv
<1> SUFFICES ASSUME CacheInit PROVE CacheInv
  OBVIOUS
<1> USE BoundsAssumption, NoneAssumption, PolicyAssumption DEF CacheInit
<1>1. TypeOK
  BY DEF Init, TypeOK, LeaseState, NewLease
<1>2. History
  BY DEF Init, History, LogAgreesWithRow, Fencing, NoLostUpdate,
         ReleaseIsFinal
<1>3. \A s \in Watchers :
        /\ watcher[s] \in Watcher
        /\ watcher[s].state = "off" /\ watcher[s].lagged = FALSE
        /\ watcher[s].queue = <<>>
  <2> SUFFICES ASSUME NEW s \in Watchers
               PROVE  /\ watcher[s] \in Watcher
                      /\ watcher[s].state = "off" /\ watcher[s].lagged = FALSE
                      /\ watcher[s].queue = <<>>
    OBVIOUS
  <2>1. watcher[s] \in [state : {"off"}, of : Resources, queue : {<<>>},
                        lagged : {FALSE}, fetched : {0}]
    OBVIOUS
  <2>2. <<>> \in Seq(Resources)
    OBVIOUS
  <2>3. /\ watcher[s].state = "off" /\ watcher[s].lagged = FALSE
        /\ watcher[s].queue = <<>>
    BY ONLY <2>1
  <2>4. watcher[s] \in Watcher
    <3>1. /\ watcher[s].of \in Resources /\ watcher[s].fetched = 0
          /\ watcher[s] = [state |-> watcher[s].state, of |-> watcher[s].of,
                           queue |-> watcher[s].queue,
                           lagged |-> watcher[s].lagged,
                           fetched |-> watcher[s].fetched]
      BY ONLY <2>1
    <3>2. watcher[s].lagged \in BOOLEAN /\ watcher[s].queue \in Seq(Resources)
          /\ watcher[s].fetched \in Nat
      <4>1. watcher[s].lagged \in BOOLEAN
        BY ONLY <2>3
      <4>2. watcher[s].queue \in Seq(Resources)
        BY ONLY <2>2, <2>3, Zenon
      <4>3. QED
        BY ONLY <3>1, <4>1, <4>2
    <3>3. QED
      BY ONLY <2>3, <3>1, <3>2 DEF Watcher
  <2>5. QED
    BY <2>3, <2>4
<1>4. watcher \in [Watchers -> Watcher]
      /\ \A s \in Watchers : Len(watcher[s].queue) <= Capacity
  BY <1>3
<1>5. CacheTypeOK
  BY <1>1, <1>4 DEF CacheTypeOK, CacheState
<1>6. Work /\ Shown /\ Candidates /\ Announcements
  BY DEF Work, AtWork, Shown, Candidates, Announcements
<1>7. Attempted
  <2>1. \A r \in Resources : /\ cache[r].last = 0 /\ clock = 0
                             /\ lease[r].expires = None
    BY DEF Init, NewLease
  <2>2. 0 <= 0 + ClockSkew
    OBVIOUS
  <2>3. QED
    BY ONLY <2>1, <2>2 DEF Attempted
<1>8. Streams
  BY <1>3 DEF Streams, UpToDate
<1>9. QED
  BY <1>2, <1>5, <1>6, <1>7, <1>8 DEF CacheInv, Refreshes

LEMMA CacheInvStep == CacheInv /\ [CacheNext]_allVars => CacheInv'
  BY LeaseStep, CacheTypeStep, WorkStep, AttemptedStep, ShownStep,
     CandidatesStep, AnnouncementsStep, StreamsStep DEF CacheInv, Refreshes

LEMMA CacheInvariant == CacheSpec => []CacheInv
  BY CacheInvInit, CacheInvStep, PTL DEF CacheSpec

(* Rows, claims, leases and streams are well typed, and a stream's queue   *)
(* never outgrows its channel (cache_sync.rs, lease.rs).                   *)
THEOREM CacheTypeCorrect == CacheSpec => []CacheTypeOK
  BY CacheInvariant, PTL DEF CacheInv

(* The leases of refreshes are fenced as lease.rs promises, although a     *)
(* claim loads and claims in one transaction.                              *)
THEOREM CacheFencing == CacheSpec => [](Fencing /\ NoLostUpdate)
  BY CacheInvariant, PTL DEF CacheInv, History

(* What a reader may take for fresh was collected no longer ago than a     *)
(* lease, a freshness period and two skews (CacheState::is_fresh, promote, *)
(* check_claim).                                                           *)
THEOREM FreshMeansRecentHolds == CacheSpec => []FreshMeansRecent
<1>1. CacheInv => FreshMeansRecent
  <2> SUFFICES ASSUME CacheInv, NEW r \in cached, NEW now \in 0..MaxTime,
                      MayRead(now), IsFresh(r, now)
               PROVE  clock - projection[r].at <=
                         FreshFor + LeaseFor - 2 + 2 * ClockSkew
    BY DEF FreshMeansRecent
  <2> USE BoundsAssumption, PolicyAssumption
  <2>1. r \in Resources /\ CacheTypeOK /\ Shown
    BY DEF CacheInv, Refreshes, CacheTypeOK
  <2>2. /\ cache[r].generation \in Nat /\ cache[r].fresh \in Nat
        /\ clock \in Nat
        /\ projection[r] # None => projection[r].at \in Nat
    BY <2>1, RowTypesOf
  <2>3. cache[r].generation > 0 /\ now < cache[r].fresh
    BY DEF IsFresh
  <2>4. /\ projection[r] # None
        /\ cache[r].fresh <=
              projection[r].at + FreshFor + LeaseFor - 1 + ClockSkew
    BY <2>1, <2>3 DEF Shown
  <2>5. clock - ClockSkew <= now
    BY DEF MayRead
  <2>6. QED
    BY <2>2, <2>3, <2>4, <2>5
<1>2. QED
  BY <1>1, CacheInvariant, PTL

(* A watcher with nothing to receive has fetched every announced           *)
(* generation, however it lagged (CacheSync::changes, commit_and_emit).    *)
THEOREM NoMissedGenerationHolds == CacheSpec => []NoMissedGeneration
<1>1. CacheInv => NoMissedGeneration
  <2> SUFFICES ASSUME CacheInv, NEW s \in Watchers,
                      watcher[s].state = "idle", watcher[s].queue = <<>>
               PROVE  watcher[s].fetched >= announced[watcher[s].of]
    BY DEF NoMissedGeneration
  <2>1. UpToDate(watcher[s])
    BY DEF CacheInv, Streams
  <2>2. ~Holds(watcher[s].queue, watcher[s].of)
    BY DEF Holds
  <2>3. QED
    BY <2>1, <2>2 DEF UpToDate
<1>2. QED
  BY <1>1, CacheInvariant, PTL

(* A superseded refresh never puts older data over newer (promote and      *)
(* check_claim).                                                           *)
THEOREM NewerNeverReplacedHolds == CacheSpec => NewerNeverReplaced
<1>1. ASSUME CacheInv, [CacheNext]_allVars
      PROVE  [\A r \in Resources : projection[r] # None =>
                 projection'[r].version >= projection[r].version]_allVars
  <2> SUFFICES ASSUME NEW r \in Resources, projection[r] # None
               PROVE  projection'[r].version >= projection[r].version
    OBVIOUS
  <2>0. Work /\ Candidates /\ CacheTypeOK
    BY <1>1 DEF CacheInv, Refreshes
  <2>1. projection[r].version \in Nat
    BY <2>0, RowTypesOf
  <2>2. CASE projection' = projection
    BY <2>1, <2>2
  <2>3. ASSUME NEW w \in Workers, NEW now \in 0..MaxTime,
               NEW answered \in BOOLEAN, Promote(w, now, answered)
        PROVE  projection'[r].version >= projection[r].version
    <3>1. /\ AtWork(w) /\ refresh[w] # None /\ refresh[w].candidate # None
          /\ CheckClaim(w, now) /\ ReleaseClaim(w, now)
          /\ r # proof[w].resource => projection'[r] = projection[r]
          /\ projection'[proof[w].resource] = refresh[w].candidate
      BY <2>0, <2>3, PromotedRow
    <3>2. proof[w] \in LeaseProof /\ refresh[w].candidate.version \in Nat
      BY <2>0, <3>1, AtWorkTypes
    <3>3. cache[proof[w].resource].generation = refresh[w].base
      BY <3>1 DEF CheckClaim
    <3>4. CASE r = proof[w].resource
      <4>1. projection[r].version <= refresh[w].candidate.version
        BY <2>0, <3>1, <3>3, <3>4 DEF Candidates, CandidateWorth
      <4>2. QED
        BY <2>1, <3>1, <3>2, <3>4, <4>1
    <3>5. QED
      BY <2>1, <3>1, <3>4
  <2>4. ASSUME NEW w \in Workers, Refreshing(w)
        PROVE  \/ projection' = projection
               \/ \E now \in 0..MaxTime, answered \in BOOLEAN :
                    Promote(w, now, answered)
    BY <2>4 DEF Refreshing, ClaimRefresh, Collect, FailRefresh, Abandon,
                EmitChange
  <2>5. CASE DirectUse \/ CacheTick \/ WatchersOnly
             \/ \E q \in cached : SourceChanges(q)
    <3>1. projection' = projection
      BY <2>5 DEF SourceChanges, CacheTick, DirectUse, WatchersOnly, cacheVars
    <3>2. QED
      BY <2>2, <3>1
  <2>6. QED
    BY <1>1, <2>2, <2>3, <2>4, <2>5, StepCases
<1>2. QED
  BY <1>1, CacheInvariant, PTL DEF CacheSpec, NewerNeverReplaced

(* Two admitted attempts on a partition are a cooldown apart, whatever     *)
(* became of the first (CacheSync::claim, CacheSync::fail).                *)
THEOREM AttemptsSpacedHolds == CacheSpec => AttemptsSpaced
<1>1. ASSUME CacheInv, [CacheNext]_allVars
      PROVE  [\A r \in Resources : cache'[r].last = cache[r].last
                \/ cache[r].last = 0
                \/ cache'[r].last >= cache[r].last + Cooldown]_allVars
  <2> SUFFICES ASSUME NEW r \in Resources, cache[r].last # 0
               PROVE  cache'[r].last = cache[r].last
                        \/ cache'[r].last >= cache[r].last + Cooldown
    OBVIOUS
  <2>0. Work /\ Attempted /\ CacheTypeOK
    BY <1>1 DEF CacheInv, Refreshes
  <2>1. CASE cache' = cache
    BY <2>1
  <2>2. ASSUME NEW w \in Workers, NEW q \in cached, NEW o \in Owners,
               NEW a \in Attempts, NEW force \in BOOLEAN,
               NEW now \in 0..MaxTime, ClaimRefresh(w, q, o, a, force, now)
        PROVE  cache'[r].last = cache[r].last
                 \/ cache'[r].last >= cache[r].last + Cooldown
    <3>1. /\ cache \in [Resources -> CacheState]
          /\ \A x \in Resources : cache[x] \in CacheState
      BY <2>0 DEF CacheTypeOK
    <3>2. r # q => cache'[r].last = cache[r].last
      BY <2>2, <3>1 DEF ClaimRefresh
    <3>3. r = q => cache'[r].last = now /\ now >= cache[r].next
      BY <2>2, <3>1 DEF ClaimRefresh, CacheState
    <3>4. cache[r].next >= cache[r].last + Cooldown
          /\ cache[r].next \in Nat /\ cache[r].last \in Nat
      BY <2>0, RowTypesOf DEF Attempted
    <3>5. QED
      BY <3>2, <3>3, <3>4, PolicyAssumption, BoundsAssumption
  <2>3. ASSUME NEW w \in Workers, NEW now \in 0..MaxTime,
               (\E answered \in BOOLEAN : Promote(w, now, answered))
                  \/ FailRefresh(w, now)
        PROVE  cache'[r].last = cache[r].last
    BY <2>0, <2>3, PromotedRow, FailedRow
  <2>4. QED
    BY <1>1, <2>1, <2>2, <2>3, StepCases
       DEF Refreshing, Collect, Abandon, EmitChange,
           SourceChanges, CacheTick, DirectUse, WatchersOnly, cacheVars
<1>2. QED
  BY <1>1, CacheInvariant, PTL DEF CacheSpec, AttemptsSpaced
=============================================================================
