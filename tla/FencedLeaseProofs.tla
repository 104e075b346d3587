------------------------- MODULE FencedLeaseProofs -------------------------
(***************************************************************************)
(* Fencing, NoLostUpdate and ReleaseIsFinal hold for every set of workers, *)
(* owners, attempts and resources, every clock skew and every integer      *)
(* width.  None of them is inductive: they speak of the log alone, and the *)
(* next entry is admitted by the row.  LogAgreesWithRow ties the two.      *)
(***************************************************************************)
EXTENDS FencedLease, TLAPS

(* What the row remembers of the operations it accepted: no logged token   *)
(* or base version is beyond the row's; while the row is owned, the        *)
(* entries of its token are its owner's; a release left it unowned.        *)
LogAgreesWithRow ==
    \A r \in Resources : \A i \in 1..Len(log[r]) :
        /\ log[r][i].token <= lease[r].token
        /\ log[r][i].base < lease[r].version
        /\ (log[r][i].token = lease[r].token /\ lease[r].owner # None) =>
             /\ log[r][i].owner = lease[r].owner
             /\ log[r][i].attempt = lease[r].attempt
             /\ log[r][i].op # "release"

History == LogAgreesWithRow /\ Fencing /\ NoLostUpdate /\ ReleaseIsFinal

(* How an accepted operation moves row l0 to row l1, logging e.            *)
Succeeds(l0, l1, e) ==
    /\ e.base = l0.version
    /\ l1.version = l0.version + 1
    /\ l1.token = e.token
    /\ l1.owner = None \/ (l1.owner = e.owner /\ l1.attempt = e.attempt)
    /\ \/ e.op = "claim" /\ e.token = l0.token + 1
       \/ /\ e.op # "claim" /\ e.token = l0.token
          /\ l0.owner = e.owner /\ l0.attempt = e.attempt
    /\ e.op = "release" <=> l1.owner = None

-----------------------------------------------------------------------------
(* What heartbeat, commit_fenced_write and release make of a row.          *)
LEMMA RowTypes ==
    ASSUME NEW l \in LeaseState, l.version + 1 <= MaxVersion
    PROVE  /\ [l EXCEPT !.version = @ + 1] \in LeaseState
           /\ [l EXCEPT !.owner = None, !.attempt = None,
                        !.expires = None, !.version = @ + 1] \in LeaseState
           /\ \A ttl \in Ttls, now \in 0..MaxTime :
                (ttl > 0 /\ now + ttl <= MaxTime) =>
                [l EXCEPT !.expires = now + ttl, !.version = @ + 1]
                  \in LeaseState
<1> USE BoundsAssumption DEF LeaseState
<1>1. l.version + 1 \in 0..MaxVersion
  OBVIOUS
<1>2. [l EXCEPT !.version = @ + 1] \in LeaseState
  BY <1>1
<1>3. [l EXCEPT !.owner = None, !.attempt = None,
                !.expires = None, !.version = @ + 1] \in LeaseState
  BY <1>1
<1>4. ASSUME NEW ttl \in Ttls, NEW now \in 0..MaxTime,
             ttl > 0, now + ttl <= MaxTime
      PROVE  [l EXCEPT !.expires = now + ttl, !.version = @ + 1]
               \in LeaseState
  <2>1. now + ttl \in 0..MaxTime
    BY <1>4
  <2>2. QED
    BY <1>1, <2>1
<1>5. QED
  BY <1>2, <1>3, <1>4

(* Type correctness is inductive.                                          *)
LEMMA TypeStep == TypeOK /\ [Next]_vars => TypeOK'
<1> SUFFICES ASSUME TypeOK, [Next]_vars PROVE TypeOK'
  OBVIOUS
<1> USE BoundsAssumption, NoneAssumption
<1>1. ASSUME NEW w \in Workers, NEW r \in Resources, Operate(w, r)
      PROVE  TypeOK'
  <2>1. CASE Observe(w, r)
    BY <2>1 DEF TypeOK, Observe, LeaseState
  <2>2. ASSUME NEW l \in LeaseState, NEW p \in LeaseProof,
               NEW op \in {"claim", "heartbeat", "write", "release"},
               lease' = [lease EXCEPT ![r] = l],
               known' = [known EXCEPT ![w][r] = l.version],
               proof' = proof \/ proof' = [proof EXCEPT ![w] = p],
               log' = [log EXCEPT ![r] = Append(@, Entry(op, p, known[w][r]))],
               clock' = clock
        PROVE  TypeOK'
    <3>1. Entry(op, p, known[w][r]) \in LogEntry
      BY DEF TypeOK, Entry, LogEntry, LeaseProof
    <3>2. lease' \in [Resources -> LeaseState] /\ clock' \in 0..MaxTime
      BY <2>2 DEF TypeOK
    <3>3. known' \in [Workers -> [Resources -> 0..MaxVersion]]
      BY <2>2 DEF TypeOK, LeaseState
    <3>4. proof' \in [Workers -> LeaseProof \cup {None}]
      BY <2>2 DEF TypeOK
    <3>5. log' \in [Resources -> Seq(LogEntry)]
      <4>1. Append(log[r], Entry(op, p, known[w][r])) \in Seq(LogEntry)
        BY <3>1 DEF TypeOK
      <4>2. QED
        BY <2>2, <4>1 DEF TypeOK
    <3>6. QED
      BY <3>2, <3>3, <3>4, <3>5 DEF TypeOK
  <2>3. ASSUME NEW o \in Owners, NEW a \in Attempts, NEW ttl \in Ttls,
               NEW now \in 0..MaxTime, Claim(w, r, o, a, ttl, now)
        PROVE  TypeOK'
    <3> DEFINE p == [resource |-> r, owner |-> o, attempt |-> a,
                     token |-> lease[r].token + 1]
               l == [owner |-> o, attempt |-> a,
                     token |-> lease[r].token + 1, expires |-> now + ttl,
                     version |-> lease[r].version + 1]
    <3>1. l \in LeaseState /\ p \in LeaseProof
      BY <2>3, SMTT(30) DEF TypeOK, Claim, ClaimAt, LeaseState, LeaseProof, HasNext
    <3>2. /\ lease' = [lease EXCEPT ![r] = l]
          /\ known' = [known EXCEPT ![w][r] = l.version]
          /\ proof' = [proof EXCEPT ![w] = p]
          /\ log' = [log EXCEPT ![r] = Append(@, Entry("claim", p, known[w][r]))]
          /\ clock' = clock
      BY <2>3 DEF Claim, ClaimAt, EnsureVersion
    <3> HIDE DEF p, l
    <3>3. QED
      BY <2>2, <3>1, <3>2
  <2>4. ASSUME NEW op \in {"heartbeat", "write", "release"},
               NEW l \in LeaseState, proof[w] # None, Accept(op, w, r, l)
        PROVE  TypeOK'
    <3>1. proof[w] \in LeaseProof
      BY <2>4 DEF TypeOK
    <3>2. QED
      BY <2>2, <2>4, <3>1 DEF Accept
  <2>5. ASSUME NEW ttl \in Ttls, NEW now \in 0..MaxTime,
               Heartbeat(w, r, ttl, now)
        PROVE  TypeOK'
    BY <2>5, <2>4, RowTypes DEF Heartbeat, TypeOK
  <2>6. ASSUME NEW now \in 0..MaxTime, CommitFencedWrite(w, r, now)
        PROVE  TypeOK'
    BY <2>6, <2>4, RowTypes DEF CommitFencedWrite, TypeOK
  <2>7. ASSUME NEW now \in 0..MaxTime, Release(w, r, now)
        PROVE  TypeOK'
    BY <2>7, <2>4, RowTypes DEF Release, TypeOK
  <2>8. QED
    BY <1>1, <2>1, <2>3, <2>5, <2>6, <2>7 DEF Operate
<1>2. ASSUME NEW w \in Workers, Crash(w) PROVE TypeOK'
  BY <1>2 DEF TypeOK, Crash
<1>3. CASE Tick
  BY <1>3 DEF TypeOK, Tick
<1>4. CASE UNCHANGED vars
  BY <1>4 DEF TypeOK, vars
<1>5. QED
  BY <1>1, <1>2, <1>3, <1>4 DEF Next

(* Every reachable row, remembered version and proof is well typed, and no *)
(* counter passes its width (the checked_add of lease.rs).                 *)
THEOREM TypeCorrect == Spec => []TypeOK
<1>1. Init => TypeOK
  BY BoundsAssumption, NoneAssumption
     DEF Init, TypeOK, LeaseState, NewLease
<1>2. QED
  BY <1>1, TypeStep, PTL DEF Spec

-----------------------------------------------------------------------------
(* Logging an operation the row admits preserves the history.              *)
LEMMA AcceptPreservesHistory ==
    ASSUME TypeOK, TypeOK', History,
           NEW r \in Resources, NEW l \in LeaseState, NEW e \in LogEntry,
           lease' = [lease EXCEPT ![r] = l],
           log' = [log EXCEPT ![r] = Append(@, e)],
           Succeeds(lease[r], l, e)
    PROVE  History'
<1> USE DEF TypeOK
<1>1. /\ log[r] \in Seq(LogEntry) /\ log'[r] = Append(log[r], e)
      /\ lease[r] \in LeaseState /\ lease'[r] = l
      /\ \A s \in Resources \ {r} : log'[s] = log[s] /\ lease'[s] = lease[s]
  OBVIOUS
<1>2. /\ Len(log'[r]) = Len(log[r]) + 1
      /\ Len(log[r]) \in Nat
      /\ log'[r][Len(log[r]) + 1] = e
      /\ \A i \in 1..Len(log[r]) :
            log'[r][i] = log[r][i] /\ log[r][i] \in LogEntry
  BY <1>1
<1>3. /\ e.base \in Int /\ e.token \in Int
      /\ l.version \in Int /\ l.token \in Int
      /\ lease[r].version \in Int /\ lease[r].token \in Int
      /\ \A i \in 1..Len(log[r]) :
            log[r][i].token \in Int /\ log[r][i].base \in Int
      /\ e.owner # None
  BY <1>1, <1>2, BoundsAssumption, NoneAssumption, SMTT(30) DEF LogEntry, LeaseState
<1>4. \A i \in 1..Len(log[r]) :
        /\ log[r][i].token <= lease[r].token
        /\ log[r][i].base < lease[r].version
        /\ (log[r][i].token = lease[r].token /\ lease[r].owner # None) =>
             /\ log[r][i].owner = lease[r].owner
             /\ log[r][i].attempt = lease[r].attempt
             /\ log[r][i].op # "release"
  BY DEF History, LogAgreesWithRow
<1>5. \A i \in 1..Len(log[r]) :
        /\ log[r][i].token <= e.token
        /\ log[r][i].base < e.base
        /\ log[r][i].token = e.token =>
             /\ log[r][i].owner = e.owner
             /\ log[r][i].attempt = e.attempt
             /\ e.op # "claim"
             /\ log[r][i].op # "release"
  BY <1>3, <1>4 DEF Succeeds
<1>6. LogAgreesWithRow'
  <2> SUFFICES ASSUME NEW i \in 1..Len(log'[r])
               PROVE
        /\ log'[r][i].token <= l.token
        /\ log'[r][i].base < l.version
        /\ (log'[r][i].token = l.token /\ l.owner # None) =>
             /\ log'[r][i].owner = l.owner
             /\ log'[r][i].attempt = l.attempt
             /\ log'[r][i].op # "release"
    BY <1>1 DEF History, LogAgreesWithRow
  <2>1. CASE i \in 1..Len(log[r])
    BY <2>1, <1>2, <1>3, <1>5 DEF Succeeds
  <2>2. CASE i = Len(log[r]) + 1
    BY <2>2, <1>2, <1>3 DEF Succeeds
  <2>3. QED
    BY <1>2, <2>1, <2>2
<1>7. ASSUME NEW i \in 1..Len(log'[r]), NEW j \in 1..Len(log'[r]), i < j
      PROVE  /\ i \in 1..Len(log[r])
             /\ j \in 1..Len(log[r]) \/ j = Len(log[r]) + 1
  <2>1. i \in 1..(Len(log[r]) + 1) /\ j \in 1..(Len(log[r]) + 1)
    BY <1>2
  <2>2. QED
    BY ONLY <1>7, <2>1, <1>2
<1>8. Fencing'
  BY <1>1, <1>2, <1>5, <1>7 DEF History, Fencing
<1>9. NoLostUpdate'
  BY <1>1, <1>2, <1>5, <1>7 DEF History, NoLostUpdate
<1>10. ReleaseIsFinal'
  BY <1>1, <1>2, <1>3, <1>5, <1>7 DEF History, ReleaseIsFinal
<1>11. QED
  BY <1>6, <1>8, <1>9, <1>10 DEF History

(* A step that changes neither rows nor logs preserves the history.        *)
LEMMA StutterPreservesHistory ==
    History /\ UNCHANGED <<lease, log>> => History'
  BY DEF History, LogAgreesWithRow, Fencing, NoLostUpdate, ReleaseIsFinal

LEMMA HistoryStep == TypeOK /\ TypeOK' /\ History /\ [Next]_vars => History'
<1> SUFFICES ASSUME TypeOK, TypeOK', History, [Next]_vars PROVE History'
  OBVIOUS
<1> USE BoundsAssumption, NoneAssumption
<1>1. ASSUME NEW w \in Workers, NEW r \in Resources, Operate(w, r)
      PROVE  History'
  <2>1. CASE Observe(w, r)
    BY <2>1, StutterPreservesHistory DEF Observe
  <2>2. ASSUME NEW o \in Owners, NEW a \in Attempts, NEW ttl \in Ttls,
               NEW now \in 0..MaxTime, Claim(w, r, o, a, ttl, now)
        PROVE  History'
    <3> DEFINE p == [resource |-> r, owner |-> o, attempt |-> a,
                     token |-> lease[r].token + 1]
               l == [owner |-> o, attempt |-> a,
                     token |-> lease[r].token + 1, expires |-> now + ttl,
                     version |-> lease[r].version + 1]
               e == Entry("claim", p, known[w][r])
    <3>1. l \in LeaseState /\ e \in LogEntry
      BY <2>2 DEF TypeOK, Claim, ClaimAt, LeaseState, LogEntry, Entry, HasNext
    <3>2. Succeeds(lease[r], l, e)
      BY <2>2 DEF Succeeds, Entry, Claim, ClaimAt, EnsureVersion
    <3>3. /\ lease' = [lease EXCEPT ![r] = l]
          /\ log' = [log EXCEPT ![r] = Append(@, e)]
      BY <2>2 DEF Claim, ClaimAt
    <3>4. QED
      BY ONLY <3>1, <3>2, <3>3, AcceptPreservesHistory, TypeOK, TypeOK',
              History, r \in Resources
  <2>3. ASSUME NEW op \in {"heartbeat", "write", "release"},
               NEW l \in LeaseState, proof[w] # None,
               lease[r].version = known[w][r],
               lease[r].owner = proof[w].owner,
               lease[r].attempt = proof[w].attempt,
               lease[r].token = proof[w].token,
               lease' = [lease EXCEPT ![r] = l],
               log' = [log EXCEPT ![r] =
                         Append(@, Entry(op, proof[w], known[w][r]))],
               l.version = lease[r].version + 1,
               l.token = lease[r].token,
               op = "release" => l.owner = None,
               op # "release" => /\ l.owner = lease[r].owner
                                 /\ l.attempt = lease[r].attempt
        PROVE  History'
    <3> DEFINE e == Entry(op, proof[w], known[w][r])
    <3>1. proof[w] \in LeaseProof
      BY <2>3 DEF TypeOK
    <3>2. e \in LogEntry
      BY <2>3, <3>1 DEF TypeOK, LogEntry, Entry, LeaseProof
    <3>3. Succeeds(lease[r], l, e)
      BY <2>3, <3>1 DEF Succeeds, Entry, LeaseProof
    <3>4. QED
      BY <2>3, <3>2, <3>3, AcceptPreservesHistory
  <2>4. ASSUME NEW ttl \in Ttls, NEW now \in 0..MaxTime,
               Heartbeat(w, r, ttl, now)
        PROVE  History'
    <3> DEFINE l == [lease[r] EXCEPT !.expires = now + ttl,
                                     !.version = @ + 1]
    <3>1. /\ l \in LeaseState /\ l.version = lease[r].version + 1
          /\ l.token = lease[r].token
          /\ l.owner = lease[r].owner /\ l.attempt = lease[r].attempt
      <4>1. lease[r] \in LeaseState
        BY DEF TypeOK
      <4>2. l \in LeaseState
        BY <2>4, <4>1, RowTypes DEF Heartbeat
      <4>3. QED
        BY <4>1, <4>2 DEF LeaseState
    <3>2. /\ proof[w] # None /\ lease[r].version = known[w][r]
          /\ lease[r].owner = proof[w].owner
          /\ lease[r].attempt = proof[w].attempt
          /\ lease[r].token = proof[w].token
          /\ lease' = [lease EXCEPT ![r] = l]
          /\ log' = [log EXCEPT ![r] =
                       Append(@, Entry("heartbeat", proof[w], known[w][r]))]
      BY <2>4 DEF Heartbeat, Accept, Validate, EnsureVersion
    <3> HIDE DEF l
    <3>3. QED
      BY <3>1, <3>2, <2>3
  <2>5. ASSUME NEW now \in 0..MaxTime, CommitFencedWrite(w, r, now)
        PROVE  History'
    <3> DEFINE l == [lease[r] EXCEPT !.version = @ + 1]
    <3>1. /\ l \in LeaseState /\ l.version = lease[r].version + 1
          /\ l.token = lease[r].token
          /\ l.owner = lease[r].owner /\ l.attempt = lease[r].attempt
      <4>1. lease[r] \in LeaseState
        BY DEF TypeOK
      <4>2. l \in LeaseState
        BY <2>5, <4>1, RowTypes DEF CommitFencedWrite
      <4>3. QED
        BY <4>1, <4>2 DEF LeaseState
    <3>2. /\ proof[w] # None /\ lease[r].version = known[w][r]
          /\ lease[r].owner = proof[w].owner
          /\ lease[r].attempt = proof[w].attempt
          /\ lease[r].token = proof[w].token
          /\ lease' = [lease EXCEPT ![r] = l]
          /\ log' = [log EXCEPT ![r] =
                       Append(@, Entry("write", proof[w], known[w][r]))]
      BY <2>5 DEF CommitFencedWrite, Accept, Validate, EnsureVersion
    <3> HIDE DEF l
    <3>3. QED
      BY <3>1, <3>2, <2>3
  <2>6. ASSUME NEW now \in 0..MaxTime, Release(w, r, now)
        PROVE  History'
    <3> DEFINE l == [lease[r] EXCEPT !.owner = None, !.attempt = None,
                                     !.expires = None, !.version = @ + 1]
    <3>1. /\ l \in LeaseState /\ l.version = lease[r].version + 1
          /\ l.token = lease[r].token /\ l.owner = None
      <4>1. lease[r] \in LeaseState
        BY DEF TypeOK
      <4>2. l \in LeaseState
        BY <2>6, <4>1, RowTypes DEF Release
      <4>3. QED
        BY <4>1, <4>2 DEF LeaseState
    <3>2. /\ proof[w] # None /\ lease[r].version = known[w][r]
          /\ lease[r].owner = proof[w].owner
          /\ lease[r].attempt = proof[w].attempt
          /\ lease[r].token = proof[w].token
          /\ lease' = [lease EXCEPT ![r] = l]
          /\ log' = [log EXCEPT ![r] =
                       Append(@, Entry("release", proof[w], known[w][r]))]
      BY <2>6 DEF Release, Accept, Validate, EnsureVersion
    <3> HIDE DEF l
    <3>3. QED
      BY <3>1, <3>2, <2>3
  <2>7. QED
    BY <1>1, <2>1, <2>2, <2>4, <2>5, <2>6 DEF Operate
<1>2. ASSUME NEW w \in Workers, Crash(w) PROVE History'
  BY <1>2, StutterPreservesHistory DEF Crash
<1>3. CASE Tick
  BY <1>3, StutterPreservesHistory DEF Tick
<1>4. CASE UNCHANGED vars
  BY <1>4, StutterPreservesHistory DEF vars
<1>5. QED
  BY <1>1, <1>2, <1>3, <1>4 DEF Next

LEMMA HistoryInvariant == Spec => []History
<1>1. Init => History
  BY DEF Init, History, LogAgreesWithRow, Fencing, NoLostUpdate,
         ReleaseIsFinal
<1>2. QED
  BY <1>1, TypeCorrect, HistoryStep, PTL DEF Spec

(* A row accepts operations in the order of their fencing tokens, and a    *)
(* token speaks for one owner and one attempt: a superseded proof is never *)
(* accepted again (lease.rs validate, claim).                              *)
THEOREM FencingHolds == Spec => []Fencing
  BY HistoryInvariant, PTL DEF History

(* No two accepted operations were computed from the same row version.     *)
THEOREM NoLostUpdateHolds == Spec => []NoLostUpdate
  BY HistoryInvariant, PTL DEF History

(* After a release only a claim with a higher token is accepted.           *)
THEOREM ReleaseIsFinalHolds == Spec => []ReleaseIsFinal
  BY HistoryInvariant, PTL DEF History
=============================================================================
