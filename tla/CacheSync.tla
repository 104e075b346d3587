----------------------------- MODULE CacheSync -----------------------------
(***************************************************************************)
(* Cache refresh coordination (crates/graphql-orm/src/cache_sync.rs), the  *)
(* client of the fenced lease in the ORM itself.  A worker claims the      *)
(* partition in one transaction, collects from the provider outside of     *)
(* any, and promotes the candidate or records its failure in another;      *)
(* watchers are told of a promotion after its commit.                      *)
(*                                                                         *)
(* The lease of a partition is the FencedLease of that resource.  The      *)
(* resources that are not partitions are leases used directly.             *)
(*                                                                         *)
(* The operations read the clock several times on their way to the commit, *)
(* each read no earlier than the one before and checked against the lease; *)
(* now is the last of them, and ClockSkew also stands for the time that    *)
(* passes between that read and the commit.                                *)
(***************************************************************************)
EXTENDS FencedLease

CONSTANTS
    FreshFor, Cooldown, LeaseFor, RetryBackoff, MaxBackoff,  \* RefreshPolicy
    Watchers,    \* streams of CacheSync::changes in this process
    Capacity,    \* event_channel_capacity
    MaxSource    \* bound: changes of the provider's data

ASSUME PolicyAssumption ==
    /\ \A d \in {FreshFor, Cooldown, LeaseFor, RetryBackoff} : d \in Nat \ {0}
    /\ MaxBackoff \in Nat /\ MaxBackoff >= RetryBackoff
    /\ Capacity \in Nat \ {0} /\ MaxSource \in Nat

VARIABLES
    cached,      \* the resources that are cache partitions
    cache,       \* cache[r]: its CacheState, the lease apart
    projection,  \* projection[r]: what its rows were collected as, or None
    source,      \* source[r]: the version of the provider's data
    refresh,     \* refresh[w]: the RefreshClaim w works on, or None
    outbox,      \* outbox[w]: the change w has committed and not sent, or None
    watcher,     \* watcher[s]: the CacheChangeStream and its client
    announced    \* announced[r]: the latest generation sent to watchers

cacheVars ==
    <<cached, cache, projection, source, refresh, outbox, watcher, announced>>
allVars == <<vars, cacheVars>>

\* CacheState; fresh and last are 0 before the first success and attempt.
CacheState ==
    [generation : Nat, last : Nat, fresh : Nat, next : Nat, failures : Nat]

\* What a worker collected: the version of the data, and when.
Candidate == [version : Nat, at : Nat]

RefreshClaim == [base : Nat, candidate : Candidate \cup {None}]

\* The stream's receiver, in whose queue a change is known by its partition,
\* and the generation its client last fetched.
Watcher ==
    [state : {"off", "notice", "told", "idle", "ended"}, of : Resources,
     queue : Seq(Resources), lagged : BOOLEAN, fetched : Nat]

CacheInit ==
    /\ Init
    /\ cached \in SUBSET Resources
    /\ cache = [r \in Resources |-> [generation |-> 0, last |-> 0, fresh |-> 0,
                                     next |-> 0, failures |-> 0]]
    /\ projection = [r \in Resources |-> None]
    /\ source = [r \in Resources |-> 0]
    /\ refresh = [w \in Workers |-> None]
    /\ outbox = [w \in Workers |-> None]
    /\ watcher \in [Watchers -> [state : {"off"}, of : Resources,
                                 queue : {<<>>}, lagged : {FALSE},
                                 fetched : {0}]]
    /\ announced = [r \in Resources |-> 0]

-----------------------------------------------------------------------------
\* RefreshPolicy::validate
PolicyValid(now) ==
    \A d \in {FreshFor, Cooldown, LeaseFor, MaxBackoff} : now + d <= MaxTime

\* CacheState::is_fresh
IsFresh(r, now) == cache[r].generation > 0 /\ now < cache[r].fresh

\* CacheSync::claim, of the row it loads.
ClaimRefresh(w, r, o, a, force, now) ==
    /\ refresh[w] = None /\ outbox[w] = None
    /\ PolicyValid(now)
    /\ now >= cache[r].next
    /\ force \/ ~IsFresh(r, now)
    /\ ClaimAt(w, r, o, a, LeaseFor, now, lease[r].version)
    /\ cache' = [cache EXCEPT ![r].last = now, ![r].next = now + Cooldown]
    /\ refresh' = [refresh EXCEPT ![w] = [base |-> cache[r].generation,
                                          candidate |-> None]]
    /\ UNCHANGED <<cached, projection, source, outbox, watcher, announced>>

\* The provider's data changes; the worker collects it.
SourceChanges(r) ==
    /\ source[r] < MaxSource
    /\ source' = [source EXCEPT ![r] = @ + 1]
    /\ UNCHANGED <<vars, cached, cache, projection, refresh, outbox, watcher,
                   announced>>
Collect(w) ==
    /\ refresh[w] # None
    /\ refresh[w].candidate = None
    /\ refresh' = [refresh EXCEPT ![w].candidate =
          [version |-> source[proof[w].resource], at |-> clock]]
    /\ UNCHANGED <<vars, cached, cache, projection, source, outbox, watcher,
                   announced>>

\* CacheState::check_claim
CheckClaimIfFree(w, now) ==
    LET r == proof[w].resource IN
    /\ now >= cache[r].last
    /\ ~IsActive(lease[r], now) \/ lease[r].token = proof[w].token
CheckClaimEverLasting(w, now) ==
    LET r == proof[w].resource IN
    /\ now >= cache[r].last
    /\ cache[r].generation = refresh[w].base
    /\ lease[r].token = proof[w].token
CheckClaim(w, now) ==
    LET r == proof[w].resource IN
    /\ now >= cache[r].last
    /\ cache[r].generation = refresh[w].base
    /\ Validate(r, proof[w], now, known[w][r])

\* CacheState::release_claim, of the claim that was just checked
ReleaseClaim(w, now) ==
    LET r == proof[w].resource
        l == [lease[r] EXCEPT !.owner = None, !.attempt = None,
                              !.expires = None, !.version = @ + 1]
    IN  MayRead(now) /\ l.version <= MaxVersion /\ Accept("release", w, r, l)

\* CacheSync::promote: the projection and its status in one transaction.
\* answered: the caller learns of its commit, and the change will be sent.
Promote(w, now, answered) ==
    LET r == proof[w].resource
        next == cache[r].generation + 1
    IN  /\ refresh[w] # None
        /\ refresh[w].candidate # None
        /\ PolicyValid(now)
        /\ CheckClaim(w, now)
        /\ ReleaseClaim(w, now)
        /\ projection' = [projection EXCEPT ![r] = refresh[w].candidate]
        /\ cache' = [cache EXCEPT ![r] =
              [@ EXCEPT !.generation = next, !.fresh = now + FreshFor,
                        !.failures = 0]]
        /\ outbox' = [outbox EXCEPT ![w] = IF answered THEN next ELSE None]
        /\ refresh' = [refresh EXCEPT ![w] = None]
        /\ UNCHANGED <<cached, source, watcher, announced>>

\* CacheSync::fail
Least(a, b) == IF a <= b THEN a ELSE b
Greatest(a, b) == IF a <= b THEN b ELSE a
Backoff(failures) == Least(RetryBackoff * 2 ^ (failures - 1), MaxBackoff)
NextAttemptByBackoff(r, now, failures) == now + Backoff(failures)
NextAttempt(r, now, failures) ==
    Greatest(cache[r].next, now + Backoff(failures))
FailRefresh(w, now) ==
    LET r == proof[w].resource
        failures == cache[r].failures + 1
    IN  /\ refresh[w] # None
        /\ PolicyValid(now)
        /\ CheckClaim(w, now)
        /\ ReleaseClaim(w, now)
        /\ cache' = [cache EXCEPT ![r] =
              [@ EXCEPT !.failures = failures,
                        !.next = NextAttempt(r, now, failures)]]
        /\ refresh' = [refresh EXCEPT ![w] = None]
        /\ UNCHANGED <<cached, projection, source, outbox, watcher, announced>>

\* The worker is gone, or its claim is refused as no longer current.
Abandon(w) ==
    /\ refresh[w] # None
    /\ refresh' = [refresh EXCEPT ![w] = None]
    /\ UNCHANGED <<vars, cached, cache, projection, source, outbox, watcher,
                   announced>>

-----------------------------------------------------------------------------
\* What a broadcast channel makes of one more event for a receiver.
Received(s, r) ==
    IF watcher[s].state \in {"off", "ended"} THEN watcher[s]
    ELSE LET full == Len(watcher[s].queue) = Capacity
             kept == IF full THEN Tail(watcher[s].queue) ELSE watcher[s].queue
         IN  [watcher[s] EXCEPT !.queue = Append(kept, r),
                                !.lagged = @ \/ full]

\* commit_and_emit: the event is sent after the commit.
EmitChange(w) ==
    LET r == proof[w].resource IN
    /\ outbox[w] # None
    /\ outbox' = [outbox EXCEPT ![w] = None]
    /\ announced' = [announced EXCEPT ![r] = Greatest(@, outbox[w])]
    /\ watcher' = [s \in Watchers |-> Received(s, r)]
    /\ UNCHANGED <<vars, cached, cache, projection, source, refresh>>

Watch(s, next) ==
    /\ watcher' = [watcher EXCEPT ![s] = next]
    /\ UNCHANGED <<vars, cached, cache, projection, source, refresh, outbox,
                   announced>>

\* CacheSync::changes: the receiver is registered, the first notice is due.
Subscribe(s) ==
    /\ watcher[s].state = "off"
    /\ watcher[s].of \in cached
    /\ Watch(s, [watcher[s] EXCEPT !.state = "notice"])

\* The next event, or the gap that the receiver has to report first; changes
\* of other partitions are passed over.
ReceiveUnlagged(s) ==
    /\ watcher[s].state = "idle"
    /\ watcher[s].queue # <<>>
    /\ Watch(s, [watcher[s] EXCEPT
          !.state = IF ~watcher[s].lagged /\ Head(watcher[s].queue) = watcher[s].of
                    THEN "notice" ELSE "idle",
          !.queue = Tail(@), !.lagged = FALSE])
Receive(s) ==
    LET lagged == watcher[s].lagged IN
    /\ watcher[s].state = "idle"
    /\ watcher[s].queue # <<>>
    /\ Watch(s, [watcher[s] EXCEPT
          !.state = IF lagged \/ Head(watcher[s].queue) = watcher[s].of
                    THEN "notice" ELSE "idle",
          !.lagged = FALSE,
          !.queue = IF lagged THEN @ ELSE Tail(@)])

\* Each notice is authorised before it is released; a denial ends the stream.
Authorize(s, allowed) ==
    /\ watcher[s].state = "notice"
    /\ Watch(s, [watcher[s] EXCEPT !.state = IF allowed THEN "told"
                                             ELSE "ended"])

\* The client fetches what the notice told it to.
Refetch(s) ==
    /\ watcher[s].state = "told"
    /\ Watch(s, [watcher[s] EXCEPT !.state = "idle",
                           !.fetched = cache[watcher[s].of].generation])

-----------------------------------------------------------------------------
\* The leases that are no cache's are used as FencedLease says, by workers
\* that are not in the middle of a refresh: a RefreshClaim keeps its own proof.
DirectUse ==
    /\ \/ \E w \in Workers, r \in Resources \ cached :
            refresh[w] = None /\ outbox[w] = None /\ Operate(w, r)
       \/ cached = {} /\ \E w \in Workers : Crash(w)
    /\ UNCHANGED cacheVars

CacheTick == Tick /\ UNCHANGED cacheVars

Refreshing(w) ==
    \/ \E r \in cached, o \in Owners, a \in Attempts, force \in BOOLEAN,
          now \in 0..MaxTime : ClaimRefresh(w, r, o, a, force, now)
    \/ Collect(w)
    \/ \E now \in 0..MaxTime, answered \in BOOLEAN : Promote(w, now, answered)
    \/ \E now \in 0..MaxTime : FailRefresh(w, now)
    \/ Abandon(w)
    \/ EmitChange(w)

Watching(s) ==
    \/ Subscribe(s)
    \/ Receive(s)
    \/ \E allowed \in BOOLEAN : Authorize(s, allowed)
    \/ Refetch(s)

CacheNext ==
    \/ DirectUse
    \/ \E w \in Workers : Refreshing(w)
    \/ \E r \in cached : SourceChanges(r)
    \/ \E s \in Watchers : Watching(s)
    \/ CacheTick

CacheSpec == CacheInit /\ [][CacheNext]_allVars

-----------------------------------------------------------------------------
(* Leases, rows, claims and streams have the types of lease.rs and         *)
(* cache_sync.rs, and no stream holds more events than its channel does.   *)
CacheTypeOK ==
    /\ TypeOK
    /\ cached \subseteq Resources
    /\ cache \in [Resources -> CacheState]
    /\ projection \in [Resources -> Candidate \cup {None}]
    /\ source \in [Resources -> 0..MaxSource]
    /\ refresh \in [Workers -> RefreshClaim \cup {None}]
    /\ outbox \in [Workers -> Nat \cup {None}]
    /\ watcher \in [Watchers -> Watcher]
    /\ \A s \in Watchers : Len(watcher[s].queue) <= Capacity
    /\ announced \in [Resources -> Nat]

(* A slow refresh never replaces what a later one promoted: however long a *)
(* superseded worker held its candidate, the projection's version of the   *)
(* provider's data only grows ("the old token can never promote").         *)
NewerNeverReplaced ==
    [][\A r \in Resources : projection[r] # None =>
          projection'[r].version >= projection[r].version]_allVars

(* What a reader is told is fresh was collected recently: no longer ago    *)
(* than a lease and a freshness period, under any skew of the clocks that  *)
(* claimed, promoted and read ("Expired workers cannot promote, even if no *)
(* replacement has started").                                              *)
FreshMeansRecent ==
    \A r \in cached, now \in 0..MaxTime :
        MayRead(now) /\ IsFresh(r, now) =>
            clock - projection[r].at <=
                FreshFor + LeaseFor - 2 + 2 * ClockSkew

(* The provider is left alone between two attempts, whatever became of the *)
(* first: a crash, an expiry, a failure whose backoff is shorter, or a     *)
(* forced refresh ("Minimum delay between admitted attempts, including     *)
(* forced refreshes").                                                     *)
AttemptsSpaced ==
    [][\A r \in Resources : cache'[r].last = cache[r].last
          \/ cache[r].last = 0
          \/ cache'[r].last >= cache[r].last + Cooldown]_allVars

(* No watcher is left behind silently: a client with nothing to receive    *)
(* has fetched every generation that was announced, whether its stream     *)
(* began before, during or after the promotion, and however far it lagged. *)
NoMissedGeneration ==
    \A s \in Watchers :
        watcher[s].state = "idle" /\ watcher[s].queue = <<>> =>
            watcher[s].fetched >= announced[watcher[s].of]
=============================================================================
