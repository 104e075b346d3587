---------------------------- MODULE FencedLease ----------------------------
(***************************************************************************)
(* The fenced lease of crates/graphql-orm/src/graphql/orm/lease.rs: the    *)
(* row fields that decide who may write to a durable resource, and the     *)
(* operations on them.  A worker process reads the row, keeps the version  *)
(* it saw and the proof a claim gave it, and may present either much       *)
(* later: an operation is guarded by what the process REMEMBERS, evaluated *)
(* against what the row holds NOW.  Owner and attempt ids are the caller's *)
(* choice, so two processes may use the same ones.                         *)
(*                                                                         *)
(* The caller supplies now_ms, so each call may read a clock that is up to *)
(* ClockSkew away from the others: deadlines may be judged wrongly, and    *)
(* what must survive that is the fence.  An operation that returns an      *)
(* error leaves the row unchanged: it is a stuttering step.                *)
(***************************************************************************)
EXTENDS Integers, Sequences

CONSTANTS
    Resources,   \* resource_id values
    Workers,     \* worker processes
    Owners,      \* owner_id values
    Attempts,    \* attempt_id values
    Ttls,        \* lease_ttl_ms values callers pass, the invalid ones too
    MaxTime,     \* i64::MAX of the millisecond clock
    MaxToken,    \* u64::MAX of the fencing token
    MaxVersion,  \* i64::MAX of the CAS row version
    ClockSkew,   \* how far a caller's now_ms may be from the clock
    None         \* Option::None

ASSUME BoundsAssumption ==
    /\ MaxTime \in Nat /\ MaxToken \in Nat /\ MaxVersion \in Nat
    /\ ClockSkew \in Nat
    /\ Ttls \subseteq Int

ASSUME NoneAssumption ==
    None \notin Owners /\ None \notin Attempts /\ None \notin Int

VARIABLES
    lease,    \* lease[r]: the persisted FencedLeaseState
    clock,    \* wall clock, milliseconds
    known,    \* known[w][r]: the row version worker w will pass as expected
    proof,    \* proof[w]: the LeaseProof w holds, or None
    log       \* log[r]: the fenced operations the row accepted, in order

vars == <<lease, clock, known, proof, log>>

-----------------------------------------------------------------------------
\* FencedLeaseState.
LeaseState ==
    [owner   : Owners \cup {None},
     attempt : Attempts \cup {None},
     token   : 0..MaxToken,
     expires : (0..MaxTime) \cup {None},
     version : 0..MaxVersion]

\* LeaseProof.
LeaseProof ==
    [resource : Resources, owner : Owners, attempt : Attempts,
     token : 0..MaxToken]

\* FencedLeaseState::new
NewLease == [owner |-> None, attempt |-> None, token |-> 0,
             expires |-> None, version |-> 0]

\* FencedLeaseState::is_active
IsActive(l, now) ==
    /\ l.owner # None
    /\ l.attempt # None
    /\ l.expires # None
    /\ l.expires > now

\* FencedLeaseState::ensure_version
EnsureVersionIgnored(l, expected) == TRUE
EnsureVersion(l, expected) == l.version = expected

\* FencingToken::next succeeds.
HasNext(token) == token + 1 <= MaxToken

\* FencedLeaseState::validate
ValidateWithoutToken(r, p, now, expected) ==
    /\ EnsureVersion(lease[r], expected)
    /\ p.resource = r
    /\ lease[r].owner = p.owner
    /\ lease[r].attempt = p.attempt
    /\ IsActive(lease[r], now)
Validate(r, p, now, expected) ==
    /\ EnsureVersion(lease[r], expected)
    /\ p.resource = r
    /\ lease[r].owner = p.owner
    /\ lease[r].attempt = p.attempt
    /\ lease[r].token = p.token
    /\ IsActive(lease[r], now)

\* The clock value a caller may pass as now_ms.
MayRead(now) == clock - ClockSkew <= now /\ now <= clock + ClockSkew

Entry(op, p, expected) ==
    [op |-> op, owner |-> p.owner, attempt |-> p.attempt, token |-> p.token,
     base |-> expected]

-----------------------------------------------------------------------------
Init ==
    /\ lease = [r \in Resources |-> NewLease]
    /\ clock = 0
    /\ known = [w \in Workers |-> [r \in Resources |-> 0]]
    /\ proof = [w \in Workers |-> None]
    /\ log = [r \in Resources |-> <<>>]

\* A worker loads the row and remembers its version.
Observe(w, r) ==
    /\ known' = [known EXCEPT ![w][r] = lease[r].version]
    /\ UNCHANGED <<lease, clock, proof, log>>

\* FencedLeaseState::claim, of the row version the caller expects
ClaimAt(w, r, o, a, ttl, now, expected) ==
    LET l == lease[r]
        p == [resource |-> r, owner |-> o, attempt |-> a,
              token |-> l.token + 1]
    IN  /\ MayRead(now)
        /\ ttl > 0
        /\ EnsureVersion(l, expected)
        /\ ~IsActive(l, now)
        /\ l.version + 1 <= MaxVersion
        /\ now + ttl <= MaxTime
        /\ HasNext(l.token)
        /\ lease' = [lease EXCEPT ![r] =
               [owner |-> o, attempt |-> a, token |-> l.token + 1,
                expires |-> now + ttl, version |-> l.version + 1]]
        /\ known' = [known EXCEPT ![w][r] = l.version + 1]
        /\ proof' = [proof EXCEPT ![w] = p]
        /\ log' = [log EXCEPT ![r] = Append(@, Entry("claim", p, expected))]
        /\ UNCHANGED clock
Claim(w, r, o, a, ttl, now) == ClaimAt(w, r, o, a, ttl, now, known[w][r])

\* A worker's accepted fenced operation: the row becomes l.
Accept(op, w, r, l) ==
    /\ lease' = [lease EXCEPT ![r] = l]
    /\ known' = [known EXCEPT ![w][r] = l.version]
    /\ log' = [log EXCEPT ![r] = Append(@, Entry(op, proof[w], known[w][r]))]
    /\ UNCHANGED <<clock, proof>>

\* FencedLeaseState::heartbeat
Heartbeat(w, r, ttl, now) ==
    /\ proof[w] # None
    /\ MayRead(now)
    /\ ttl > 0
    /\ Validate(r, proof[w], now, known[w][r])
    /\ now + ttl <= MaxTime
    /\ lease[r].version + 1 <= MaxVersion
    /\ Accept("heartbeat", w, r,
              [lease[r] EXCEPT !.expires = now + ttl, !.version = @ + 1])

\* FencedLeaseState::commit_fenced_write
CommitFencedWrite(w, r, now) ==
    /\ proof[w] # None
    /\ MayRead(now)
    /\ Validate(r, proof[w], now, known[w][r])
    /\ lease[r].version + 1 <= MaxVersion
    /\ Accept("write", w, r, [lease[r] EXCEPT !.version = @ + 1])

\* FencedLeaseState::release; the worker may keep its useless proof.
Release(w, r, now) ==
    /\ proof[w] # None
    /\ MayRead(now)
    /\ Validate(r, proof[w], now, known[w][r])
    /\ lease[r].version + 1 <= MaxVersion
    /\ Accept("release", w, r,
              [lease[r] EXCEPT !.owner = None, !.attempt = None,
                               !.expires = None, !.version = @ + 1])

\* A worker restarts and loses its proof; the row keeps the lease.
Crash(w) ==
    /\ proof[w] # None
    /\ proof' = [proof EXCEPT ![w] = None]
    /\ UNCHANGED <<lease, clock, known, log>>

Tick ==
    /\ clock < MaxTime
    /\ clock' = clock + 1
    /\ UNCHANGED <<lease, known, proof, log>>

Operate(w, r) ==
    \/ Observe(w, r)
    \/ \E o \in Owners, a \in Attempts, ttl \in Ttls, now \in 0..MaxTime :
         Claim(w, r, o, a, ttl, now)
    \/ \E ttl \in Ttls, now \in 0..MaxTime : Heartbeat(w, r, ttl, now)
    \/ \E now \in 0..MaxTime : CommitFencedWrite(w, r, now)
    \/ \E now \in 0..MaxTime : Release(w, r, now)

Next ==
    \/ \E w \in Workers, r \in Resources : Operate(w, r)
    \/ \E w \in Workers : Crash(w)
    \/ Tick

Spec == Init /\ [][Next]_vars

-----------------------------------------------------------------------------
LogEntry ==
    [op : {"claim", "heartbeat", "write", "release"}, owner : Owners,
     attempt : Attempts, token : 0..MaxToken, base : 0..MaxVersion]

(* The row, every remembered version and proof, and the log have the types *)
(* of lease.rs, with no counter beyond its integer width.                  *)
TypeOK ==
    /\ lease \in [Resources -> LeaseState]
    /\ clock \in 0..MaxTime
    /\ known \in [Workers -> [Resources -> 0..MaxVersion]]
    /\ proof \in [Workers -> LeaseProof \cup {None}]
    /\ log \in [Resources -> Seq(LogEntry)]

(* Fencing, under any clock skew, crash and reuse of an attempt id: the    *)
(* operations a row accepts come in the order of their fencing tokens, and *)
(* a token speaks for one owner and one attempt.  So once a successor has  *)
(* claimed, the proof a stale worker still holds is never accepted again   *)
(* (lease.rs validate and claim).                                          *)
Fencing ==
    \A r \in Resources : \A i, j \in 1..Len(log[r]) :
        i < j =>
          /\ log[r][i].token <= log[r][j].token
          /\ log[r][i].token = log[r][j].token =>
               /\ log[r][i].owner = log[r][j].owner
               /\ log[r][i].attempt = log[r][j].attempt
               /\ log[r][j].op # "claim"

(* No lost update: no two accepted operations were computed from the same  *)
(* row version, whoever made them (lease.rs ensure_version and the version *)
(* bump of every operation).                                               *)
NoLostUpdate ==
    \A r \in Resources : \A i, j \in 1..Len(log[r]) :
        i < j => log[r][i].base < log[r][j].base

(* A released lease stays closed to its old proof: after "release" the     *)
(* next operation the row accepts is a claim with a higher token, although *)
(* release keeps the token and the old holder keeps its proof (lease.rs    *)
(* release).                                                               *)
ReleaseIsFinal ==
    \A r \in Resources : \A i, j \in 1..Len(log[r]) :
        (i < j /\ log[r][i].op = "release") =>
            log[r][i].token < log[r][j].token
=============================================================================
