---------------------- MODULE AiProviderSessionProofs ----------------------
(***************************************************************************)
(* What holds of a retained provider session for every number of runs,     *)
(* workers, cleaners and threads, every deadline and every limit.          *)
(***************************************************************************)
EXTENDS AiProviderSession, SequenceTheorems, TLAPS

(* The states of a binding whose thread is no longer trusted.              *)
Cleaning ==
    {"cleanup_required", "cleanup_in_progress", "cleanup_backoff",
     "cleanup_exhausted"}

(* Where a worker is that took a claim: it has not sent its prompt, it has *)
(* sent it, or it has read the reply.                                      *)
Before == {"claimed", "opened", "reserved", "refused"}
After == {"replied", "answered", "finished"}
Holding == Before \cup {"sent"} \cup After

(* The messages: a user's message is of a run that exists, there is one of *)
(* each, and every run has its own.                                        *)
OfRuns ==
    \A i \in 1..Len(messages) :
        messages[i].role = "user" => run[messages[i].run].state # "Absent"
Distinct ==
    \A i, j \in 1..Len(messages) :
        messages[i].role = "user" /\ messages[i] = messages[j] => i = j
HasPrompt ==
    \A r \in Runs : run[r].state # "Absent" =>
        \E i \in 1..Len(messages) : messages[i] = Prompt(r)
Transcript == OfRuns /\ Distinct /\ HasPrompt

(* The lease of a turn is of a run that exists, no later than its row, and *)
(* of no other worker.                                                     *)
LeasePast(w) ==
    turn[w] # None =>
        /\ run[turn[w].lease.run].state # "Absent"
        /\ turn[w].lease.gen <= run[turn[w].lease.run].gen
Apart(v, w) ==
    (/\ turn[v] # None /\ turn[w] # None
     /\ turn[v].lease.run = turn[w].lease.run
     /\ turn[v].lease.gen = turn[w].lease.gen) => v = w
Leases ==
    /\ \A w \in Workers : LeasePast(w)
    /\ \A v, w \in Workers : Apart(v, w)

(* What is named was created; a thread that was not is empty, and one that *)
(* is answering is not.                                                    *)
BlankThread(t) ==
    /\ thread[t].state = "none" =>
         thread[t].log = <<>> /\ thread[t].pending = None
    /\ thread[t].pending # None => thread[t].log # <<>>
Named ==
    /\ \A t \in Threads : BlankThread(t)
    /\ binding # None => thread[binding.cursor].state # "none"
    /\ \A w \in Workers : turn[w] # None /\ turn[w].cursor # None =>
         thread[turn[w].cursor].state # "none"
    /\ \A c \in Cleaners : cleaner[c] # None =>
         thread[cleaner[c].cursor].state # "none"

(* A thread that was created and not bound yet is empty, and its worker's  *)
(* alone.                                                                  *)
OwnThread(w) ==
    In(w, {"created"}) =>
        LET t == turn[w].cursor IN
        /\ t \in Threads
        /\ thread[t].state = "live" /\ thread[t].log = <<>>
        /\ thread[t].pending = None
        /\ binding # None => binding.cursor # t
        /\ \A v \in Workers \ {w} : turn[v] # None => turn[v].cursor # t
        /\ \A c \in Cleaners : cleaner[c] # None => cleaner[c].cursor # t

(* A worker that took a claim: its thread is gone, or it is the binding's, *)
(* and the claim is still recorded or the thread is being cleaned up.      *)
Anchored(w) ==
    In(w, Holding) =>
        /\ turn[w].cursor \in Threads
        /\ \/ thread[turn[w].cursor].state = "gone"
           \/ /\ binding # None /\ binding.cursor = turn[w].cursor
              /\ binding.state \in Cleaning \/ ClaimRecorded(w)
At(w, r, P) == In(w, P) /\ turn[w].lease.run = r
Recorded(w, r) ==
    At(w, r, Holding) /\ ClaimRecorded(w) =>
        /\ thread[binding.cursor].state = "live"
        /\ binding.cursor = turn[w].cursor
        /\ binding.through + 1 = InputSequence(r)
Alone(v, w) ==
    (/\ In(v, Holding) /\ In(w, Holding)
     /\ turn[v].cursor = turn[w].cursor) =>
        v = w \/ thread[turn[w].cursor].state = "gone"

(* What its thread holds: the messages before the prompt; those and the    *)
(* prompt, while the provider replies; or the reply too.                   *)
Knows(t, n) ==
    /\ thread[t].base <= n /\ n <= Len(messages)
    /\ thread[t].log = SubSeq(messages, thread[t].base + 1, n)
Heard(t, n, r) ==
    /\ thread[t].base <= n /\ n <= Len(messages)
    /\ thread[t].log =
         Append(SubSeq(messages, thread[t].base + 1, n), Answer(r))
Unsent(w, r) ==
    At(w, r, Before) /\ thread[turn[w].cursor].state = "live" =>
        /\ thread[turn[w].cursor].pending = None
        /\ Knows(turn[w].cursor, InputSequence(r) - 1)
Sent(w, r) ==
    At(w, r, {"sent"}) /\ thread[turn[w].cursor].state = "live" =>
        LET t == turn[w].cursor IN
        \/ thread[t].pending = r /\ Knows(t, InputSequence(r))
        \/ thread[t].pending = None /\ Heard(t, InputSequence(r), r)
Replied(w, r) ==
    At(w, r, After) /\ thread[turn[w].cursor].state = "live" =>
        /\ thread[turn[w].cursor].pending = None
        /\ Heard(turn[w].cursor, InputSequence(r), r)

(* A worker that will resume or rebind has seen a binding.                 *)
Awaits(w) ==
    turn[w] # None /\ (turn[w].phase = "resume" \/ turn[w].auth # None) =>
        binding # None

Turns ==
    /\ \A w \in Workers : OwnThread(w) /\ Anchored(w) /\ Awaits(w)
    /\ \A w \in Workers, r \in Runs :
         Recorded(w, r) /\ Unsent(w, r) /\ Sent(w, r) /\ Replied(w, r)
    /\ \A v, w \in Workers : Alone(v, w)

(* A cleaner's thread is gone, or it is the binding's and not trusted; a   *)
(* cleaner that proved it absent is right, and so is a deleted binding.    *)
Sweeps(c) ==
    cleaner[c] # None =>
        /\ binding # None
        /\ \/ thread[cleaner[c].cursor].state = "gone"
           \/ cleaner[c].phase # "absent" /\ binding.state \in Cleaning
              /\ binding.cursor = cleaner[c].cursor
Swept ==
    /\ \A c \in Cleaners : Sweeps(c)
    /\ binding # None /\ binding.state = "deleted" =>
         thread[binding.cursor].state = "gone"

Mirror ==
    binding # None /\ binding.state = "active" =>
        /\ thread[binding.cursor].state = "live"
        /\ thread[binding.cursor].pending = None
        /\ Knows(binding.cursor, binding.through)

Inv ==
    /\ TypeOK /\ Transcript /\ Leases /\ Named /\ Turns /\ Swept /\ Mirror
    /\ ContentNeverOrphaned

-----------------------------------------------------------------------------
(* How a step changes a row that it does not insert.                       *)
RowKept(old, new) ==
    /\ new \in RunRow
    /\ new.state = "Absent" <=> old.state = "Absent"
    /\ new.input = old.input
    /\ new.gen >= old.gen

(* What no step undoes: a run keeps its message and its generation only    *)
(* grows, and messages are only added.                                     *)
Past ==
    /\ run' \in [Runs -> RunRow] /\ messages' \in Seq(Message)
    /\ \A q \in Runs : run[q].state # "Absent" =>
         /\ run'[q].state # "Absent" /\ run'[q].input = run[q].input
         /\ run'[q].gen >= run[q].gen
    /\ Len(messages) <= Len(messages')
    /\ \A i \in 1..Len(messages) : messages'[i] = messages[i]
    /\ Transcript'

(* How the steps change the provider's side that neither take a claim nor  *)
(* write into a thread: a thread stays as it is or, trusted by nobody, is  *)
(* discarded, ...                                                          *)
ThreadKept(t) ==
    \/ thread'[t] = thread[t]
    \/ /\ thread'[t] = Gone
       /\ \A w \in Workers : In(w, {"created"})' => turn'[w].cursor # t
       /\ (binding' # None /\ binding'.cursor = t) =>
            binding'.state \in Cleaning \/ thread[t].state = "gone"

(* ... the binding keeps its claim or goes towards its deletion, ...       *)
SameClaim ==
    /\ binding'.state = binding.state /\ binding'.through = binding.through
    /\ binding'.run = binding.run /\ binding'.gen = binding.gen
BindingKept ==
    \/ binding' = None /\ binding = None
    \/ /\ binding # None /\ binding' # None
       /\ binding'.cursor = binding.cursor
       /\ \/ SameClaim
          \/ binding'.state \in Cleaning
          \/ /\ binding'.state = "deleted"
             /\ thread'[binding.cursor].state = "gone"

(* ... a worker goes on with its thread or has none, ...                   *)
SameLease(w) ==
    /\ turn[w] # None
    /\ turn'[w].lease.run = turn[w].lease.run
    /\ turn'[w].lease.gen = turn[w].lease.gen
Onward(w) ==
    \/ turn'[w].phase = turn[w].phase
    \/ turn[w].phase \in Before /\ turn'[w].phase \in Before
    \/ /\ turn'[w].phase \in After
       /\ \/ turn[w].phase \in After
          \/ /\ turn[w].phase = "sent"
             /\ thread[turn[w].cursor].pending = None
TurnKept(w) ==
    turn'[w] # None =>
        /\ turn'[w].cursor # None =>
             turn[w] # None /\ turn'[w].cursor = turn[w].cursor
        /\ turn'[w].phase \in Holding \cup {"created"} =>
             /\ SameLease(w) /\ Onward(w)
             /\ turn'[w].cursor = turn[w].cursor
        /\ (turn'[w].phase = "resume" \/ turn'[w].auth # None) =>
             binding' # None

(* ... and so does a cleaner, or it has just claimed the binding's.        *)
CleanerKept(c) ==
    cleaner'[c] # None =>
        \/ /\ cleaner[c] # None /\ cleaner'[c].cursor = cleaner[c].cursor
           /\ cleaner'[c].phase = "absent" =>
                \/ cleaner[c].phase = "absent"
                \/ thread'[cleaner[c].cursor].state = "gone"
        \/ /\ binding' # None /\ binding'.state \in Cleaning
           /\ binding'.cursor = cleaner'[c].cursor
           /\ cleaner'[c].phase # "absent"

Quiet ==
    /\ \A t \in Threads : ThreadKept(t)
    /\ BindingKept
    /\ \A w \in Workers : TurnKept(w)
    /\ \A c \in Cleaners : CleanerKept(c)

-----------------------------------------------------------------------------
(* A deadline that an operation sets, or that time brings closer.          *)
LEMMA TicksFacts ==
    /\ None \notin Ticks
    /\ 0 \in Ticks /\ Ttl \in Ticks
    /\ \A lag \in 0..MaxLag :
         /\ Ttl - lag \in Ticks /\ 0 - lag \in Ticks
         /\ RetryDelay - lag \in Ticks /\ ClaimTtl - lag \in Ticks
         /\ CleanupTtl - lag \in Ticks /\ CleanupDelay - lag \in Ticks
    /\ \A t \in Ticks \cup {None} : Sooner(t) \in Ticks \cup {None}
<1>1. \A t \in Ticks : t \in Int
  BY RunRowsAssumption DEF Ticks
<1>2. None \notin Ticks
  BY <1>1, RunNoneAssumption
<1>3. 0 \in Ticks /\ Ttl \in Ticks
  BY RunRowsAssumption DEF Ticks
<1>4. ASSUME NEW lag \in 0..MaxLag
      PROVE  /\ Ttl - lag \in Ticks /\ 0 - lag \in Ticks
             /\ RetryDelay - lag \in Ticks /\ ClaimTtl - lag \in Ticks
             /\ CleanupTtl - lag \in Ticks /\ CleanupDelay - lag \in Ticks
  BY RunRowsAssumption, SessionBoundsAssumption DEF Ticks
<1>5. ASSUME NEW t \in Ticks PROVE Sooner(t) \in Ticks
  <2>1. CASE t = 0 - MaxLag
    BY <2>1 DEF Sooner
  <2>2. CASE t # 0 - MaxLag
    BY <1>2, <2>2, RunRowsAssumption DEF Sooner, Ticks
  <2>3. QED
    BY <2>1, <2>2
<1>6. Sooner(None) = None
  BY DEF Sooner
<1>7. QED
  BY <1>2, <1>3, <1>4, <1>5, <1>6

(* What the operations make of a row.                                      *)
LEMMA QueuedRow ==
    ASSUME NEW m \in Nat
    PROVE  /\ QueuedRun(m) \in RunRow
           /\ QueuedRun(m).state = "Queued" /\ QueuedRun(m).input = m
           /\ QueuedRun(m).gen = 0
<1>1. Absent \in RunRow
  BY RunRowsAssumption DEF Absent, RunRow, ErrorCodes
<1>2. QueuedRun(m) \in RunRow
  BY <1>1, TicksFacts, ZenonT(40) DEF QueuedRun, RunRow, States
<1>3. QED
  BY <1>2 DEF QueuedRun, Absent

LEMMA SameRow ==
    ASSUME NEW row \in RunRow
    PROVE  RowKept(row, row)
  BY DEF RowKept, RunRow

LEMMA ClosedRow ==
    ASSUME NEW row \in RunRow, NEW s \in Closing, NEW err \in ErrorCodes,
           row.state # "Absent"
    PROVE  RowKept(row, Closed(row, s, err))
<1>1. s \in States /\ s # "Absent"
  BY DEF Closing, States
<1>2. /\ Closed(row, s, err) \in RunRow
      /\ Closed(row, s, err).state = s
      /\ Closed(row, s, err).input = row.input
      /\ Closed(row, s, err).gen = row.gen
  BY <1>1 DEF Closed, RunRow
<1>3. QED
  BY <1>1, <1>2 DEF RowKept, RunRow

LEMMA RequeuedRow ==
    ASSUME NEW row \in RunRow, row.retries < MaxRetries,
           row.state # "Absent", NEW delay \in Ticks
    PROVE  RowKept(row, Requeued(row, "other", delay))
<1>1. row.retries + 1 \in 0..MaxRetries
  BY RunRowsAssumption DEF RunRow
<1>2. /\ Requeued(row, "other", delay) \in RunRow
      /\ Requeued(row, "other", delay).state = "RetryScheduled"
      /\ Requeued(row, "other", delay).input = row.input
      /\ Requeued(row, "other", delay).gen = row.gen
  BY <1>1 DEF Requeued, RunRow, States, ErrorCodes
<1>3. QED
  BY <1>2 DEF RowKept, RunRow

LEMMA LeasedRow ==
    ASSUME NEW row \in RunRow, NEW w \in Workers, NEW lag \in 0..MaxLag,
           row.state # "Absent"
    PROVE  LET new == Leased(row, w, lag) IN
           /\ RowKept(row, new)
           /\ new.attempt \in Nat /\ new.gen = row.gen + 1
<1> DEFINE c == IF row.err = "adoption_ready" THEN row.ckpt ELSE None
           new == Leased(row, w, lag)
<1>1. row.gen + 1 \in Nat /\ Ttl - lag \in Ticks
  BY TicksFacts DEF RunRow
<1>2. c \in Checkpoint \cup {None}
  BY DEF RunRow
<1>3. new = [row EXCEPT !.state = "Leased", !.attempt = row.gen + 1,
                        !.owner = w, !.gen = row.gen + 1,
                        !.expiry = Ttl - lag,
                        !.eligible = None, !.err = "none", !.ckpt = c]
  BY DEF Leased
<1> HIDE DEF c, new
<1>4. "Leased" \in States /\ "none" \in ErrorCodes
  BY DEF States, ErrorCodes
<1>5. new \in RunRow
  BY <1>1, <1>2, <1>3, <1>4, ZenonT(40) DEF RunRow
<1>6. /\ new.state = "Leased" /\ new.attempt = row.gen + 1
      /\ new.gen = row.gen + 1 /\ new.input = row.input
  BY <1>3 DEF RunRow
<1>7. RowKept(row, new)
  BY <1>5, <1>6 DEF RowKept, RunRow
<1>8. QED
  BY <1>1, <1>6, <1>7 DEF new

LEMMA RowLaterRow ==
    ASSUME NEW row \in RunRow
    PROVE  RowKept(row, RowLater(row))
<1>1. /\ Sooner(row.expiry) \in Ticks \cup {None}
      /\ Sooner(row.eligible) \in Ticks \cup {None}
  BY TicksFacts DEF RunRow
<1>2. /\ RowLater(row) \in RunRow
      /\ RowLater(row).state = row.state /\ RowLater(row).gen = row.gen
      /\ RowLater(row).input = row.input
  BY <1>1 DEF RowLater, RunRow
<1>3. QED
  BY <1>2 DEF RowKept, RunRow

LEMMA RenewedRow ==
    ASSUME NEW row \in RunRow, NEW new \in RunRow, row.state # "Absent",
           new.state \in States, new.gen = row.gen, new.input = row.input
    PROVE  RowKept(row, new)
  BY DEF RowKept, RunRow, States

LEMMA RecoveredRow ==
    ASSUME NEW r \in Runs, NEW lag \in 0..MaxLag, run[r] \in RunRow,
           RecoverExpiredLease(r, lag)
    PROVE  \E row : /\ run' = [run EXCEPT ![r] = row]
                    /\ RowKept(run[r], row)
<1> DEFINE row == run[r]
           Left(s, err) == [Closed(row, s, err) EXCEPT !.attempt = None]
           new == CASE row.state = "Leased" /\ row.retries < MaxRetries ->
                         Requeued(row, "other", 0 - lag)
                    [] row.state = "Leased" /\ row.retries >= MaxRetries ->
                         Left("Failed", "other")
                    [] row.state = "Running" /\ row.ckpt # None ->
                         Left("Completed", "none")
                    [] OTHER -> Left("RecoveryRequired", "other")
<1>1. row.state \in {"Leased", "Running"} /\ run' = [run EXCEPT ![r] = new]
  BY DEF RecoverExpiredLease
<1>2. row.state # "Absent" /\ row \in RunRow
  BY <1>1
<1>3. ASSUME NEW s \in Closing, NEW err \in ErrorCodes
      PROVE  RowKept(row, Left(s, err))
  <2>1. RowKept(row, Closed(row, s, err))
    BY <1>2, ClosedRow
  <2> DEFINE mid == Closed(row, s, err)
             fin == Left(s, err)
  <2>2. mid \in RunRow /\ fin = [mid EXCEPT !.attempt = None]
    BY <2>1 DEF RowKept
  <2> HIDE DEF mid, fin
  <2>3. fin \in RunRow
    BY <2>2 DEF RunRow
  <2>4. /\ fin.state = mid.state /\ fin.input = mid.input
        /\ fin.gen = mid.gen
    BY <2>2 DEF RunRow
  <2>5. RowKept(row, mid)
    BY <2>1 DEF mid
  <2>6. RowKept(row, fin)
    BY <2>3, <2>4, <2>5 DEF RowKept
  <2>7. QED
    BY <2>6 DEF fin
<1>4. /\ "Failed" \in Closing /\ "Completed" \in Closing
      /\ "RecoveryRequired" \in Closing
      /\ "other" \in ErrorCodes /\ "none" \in ErrorCodes
  BY DEF Closing, ErrorCodes
<1>5. row.retries \in Nat /\ MaxRetries \in Nat
  BY <1>2, RunRowsAssumption DEF RunRow
<1> HIDE DEF Left, row
<1>6. RowKept(row, new)
  <2>1. CASE row.state = "Leased" /\ row.retries < MaxRetries
    <3>1. RowKept(row, Requeued(row, "other", 0 - lag))
      BY <1>2, <2>1, TicksFacts, RequeuedRow
    <3>2. new = Requeued(row, "other", 0 - lag)
      <4>1. ~(row.retries >= MaxRetries)
        BY <2>1, <1>5
      <4>2. row.state # "Running"
        BY <2>1
      <4>3. QED
        BY <2>1, <4>1, <4>2, Zenon
    <3>3. QED
      BY <3>1, <3>2, Zenon
  <2>2. CASE row.state = "Leased" /\ row.retries >= MaxRetries
    <3>1. ~(row.retries < MaxRetries) /\ row.state # "Running"
      BY <2>2, <1>5
    <3>2. new = Left("Failed", "other")
      BY <2>2, <3>1, Zenon
    <3>3. QED
      BY <3>2, <1>3, <1>4, Zenon
  <2>3. CASE row.state = "Running" /\ row.ckpt # None
    <3>1. row.state # "Leased"
      BY <2>3
    <3>2. new = Left("Completed", "none")
      BY <2>3, <3>1, Zenon
    <3>3. QED
      BY <3>2, <1>3, <1>4, Zenon
  <2>4. CASE row.state = "Running" /\ row.ckpt = None
    <3>1. row.state # "Leased"
      BY <2>4
    <3>2. new = Left("RecoveryRequired", "other")
      BY <2>4, <3>1, Zenon
    <3>3. QED
      BY <3>2, <1>3, <1>4, Zenon
  <2>5. \/ row.state = "Leased" /\ row.retries < MaxRetries
        \/ row.state = "Leased" /\ row.retries >= MaxRetries
        \/ row.state = "Running"
    BY <1>1, <1>5
  <2>6. QED
    BY <2>1, <2>2, <2>3, <2>4, <2>5
<1> HIDE DEF new
<1>7. QED
  BY <1>1, <1>6 DEF row

-----------------------------------------------------------------------------
(* The sequences of messages.                                              *)
LEMMA PrefixKept ==
    ASSUME NEW s \in Seq(Message), NEW u \in Seq(Message),
           NEW a \in Nat, NEW n \in Nat, n <= Len(s),
           Len(s) <= Len(u), \A i \in 1..Len(s) : u[i] = s[i]
    PROVE  SubSeq(u, a + 1, n) = SubSeq(s, a + 1, n)
<1>1. \A i \in (a + 1)..n : s[i] \in Message /\ u[i] \in Message
  BY ElementOfSeq, LenProperties
<1> DEFINE x == SubSeq(s, a + 1, n)
           y == SubSeq(u, a + 1, n)
<1>2. /\ x \in Seq(Message)
      /\ Len(x) = IF a + 1 <= n THEN n - (a + 1) + 1 ELSE 0
      /\ \A i \in 1..(n - (a + 1) + 1) : x[i] = s[a + 1 + i - 1]
  BY <1>1, SubSeqProperties
<1>3. /\ y \in Seq(Message)
      /\ Len(y) = IF a + 1 <= n THEN n - (a + 1) + 1 ELSE 0
      /\ \A i \in 1..(n - (a + 1) + 1) : y[i] = u[a + 1 + i - 1]
  BY <1>1, SubSeqProperties
<1> HIDE DEF x, y
<1>4. Len(s) \in Nat
  BY LenProperties
<1>5. ASSUME NEW i \in 1..Len(x) PROVE x[i] = y[i]
  <2>1. i \in 1..(n - (a + 1) + 1) /\ a + 1 + i - 1 \in 1..Len(s)
    BY <1>2, <1>4
  <2>2. QED
    BY <1>2, <1>3, <2>1
<1>6. x = y
  BY <1>2, <1>3, <1>5, SeqEqual
<1>7. QED
  BY <1>6 DEF x, y

LEMMA NextMessage ==
    ASSUME NEW s \in Seq(Message), NEW a \in Nat, NEW n \in Nat,
           a <= n, n + 1 <= Len(s)
    PROVE  Append(SubSeq(s, a + 1, n), s[n + 1]) = SubSeq(s, a + 1, n + 1)
<1>1. Len(s) \in Nat
  BY LenProperties
<1>2. \A i \in (a + 1)..(n + 1) : s[i] \in Message
  BY <1>1, ElementOfSeq
<1>3. \A i \in (a + 1)..n : s[i] \in Message
  BY <1>2
<1> DEFINE x == SubSeq(s, a + 1, n)
           y == SubSeq(s, a + 1, n + 1)
           z == Append(x, s[n + 1])
<1>4. /\ x \in Seq(Message)
      /\ Len(x) = IF a + 1 <= n THEN n - (a + 1) + 1 ELSE 0
      /\ \A i \in 1..(n - (a + 1) + 1) : x[i] = s[a + 1 + i - 1]
  BY <1>3, SubSeqProperties
<1>5. /\ y \in Seq(Message)
      /\ Len(y) = IF a + 1 <= n + 1 THEN n + 1 - (a + 1) + 1 ELSE 0
      /\ \A i \in 1..(n + 1 - (a + 1) + 1) : y[i] = s[a + 1 + i - 1]
  BY <1>2, SubSeqProperties
<1>6. s[n + 1] \in Message
  BY <1>2
<1> HIDE DEF x, y
<1>7. /\ z \in Seq(Message) /\ Len(z) = Len(x) + 1
      /\ \A i \in 1..Len(x) : z[i] = x[i]
      /\ z[Len(x) + 1] = s[n + 1]
  BY <1>4, <1>6, AppendProperties
<1> HIDE DEF z
<1>8. Len(x) = n - a /\ Len(y) = n + 1 - a
  BY <1>4, <1>5
<1>9. ASSUME NEW i \in 1..Len(z) PROVE z[i] = y[i]
  <2>1. i \in Int /\ y[i] = s[a + i]
    BY <1>5, <1>7, <1>8
  <2>2. CASE i <= n - a
    <3>1. i \in 1..Len(x) /\ x[i] = s[a + i]
      BY <1>4, <1>8, <2>1, <2>2
    <3>2. QED
      BY <1>7, <2>1, <3>1
  <2>3. CASE i = n - a + 1
    <3>1. z[i] = s[n + 1] /\ a + i = n + 1
      BY <1>7, <1>8, <2>3
    <3>2. QED
      BY <2>1, <3>1
  <2>4. QED
    BY <1>7, <1>8, <2>1, <2>2, <2>3
<1>10. z = y
  BY <1>5, <1>7, <1>8, <1>9, SeqEqual
<1>11. QED
  BY <1>10 DEF x, y, z

(* Every run that exists has one message, and where it is does not change. *)
LEMMA InputFacts ==
    ASSUME TypeOK, Transcript, NEW r \in Runs, run[r].state # "Absent"
    PROVE  /\ InputSequence(r) \in 1..Len(messages)
           /\ InputSequence(r) \in Nat \ {0}
           /\ messages[InputSequence(r)] = Prompt(r)
           /\ \A i \in 1..Len(messages) :
                messages[i] = Prompt(r) => i = InputSequence(r)
<1>1. \E i \in 1..Len(messages) : messages[i] = Prompt(r)
  BY DEF Transcript, HasPrompt
<1>2. /\ InputSequence(r) \in 1..Len(messages)
      /\ messages[InputSequence(r)] = Prompt(r)
  BY <1>1 DEF InputSequence
<1>3. Prompt(r).role = "user"
  BY DEF Prompt
<1>4. Len(messages) \in Nat
  BY LenProperties DEF TypeOK
<1>5. QED
  BY <1>2, <1>3, <1>4 DEF Transcript, Distinct

LEMMA InputKept ==
    ASSUME TypeOK, Transcript, Past, NEW r \in Runs, run[r].state # "Absent"
    PROVE  InputSequence(r)' = InputSequence(r)
<1>1. /\ InputSequence(r) \in 1..Len(messages)
      /\ messages[InputSequence(r)] = Prompt(r)
  BY InputFacts
<1>2. run'[r].input = run[r].input /\ run'[r].state # "Absent"
  BY DEF Past
<1>3. Prompt(r)' = Prompt(r)
  BY <1>2 DEF Prompt
<1>4. Len(messages) \in Nat /\ Len(messages') \in Nat
  BY LenProperties DEF TypeOK, Past
<1>5. /\ InputSequence(r) \in 1..Len(messages')
      /\ messages'[InputSequence(r)] = Prompt(r)
  BY <1>1, <1>4 DEF Past
<1>6. \A i \in 1..Len(messages') : messages'[i] = Prompt(r) =>
        i = InputSequence(r)
  <2>1. Prompt(r).role = "user"
    BY DEF Prompt
  <2>2. QED
    BY <1>5, <2>1 DEF Past, Transcript, Distinct
<1>7. /\ InputSequence(r)' \in 1..Len(messages')
      /\ messages'[InputSequence(r)'] = Prompt(r)
  BY <1>3, <1>5 DEF InputSequence
<1>8. QED
  BY <1>6, <1>7

(* ... and so does what a thread holds.                                    *)
LEMMA KnowsKept ==
    ASSUME TypeOK, Past, NEW t \in Threads, NEW n \in Nat,
           thread'[t].base = thread[t].base, thread'[t].log = thread[t].log
    PROVE  /\ Knows(t, n) => Knows(t, n)'
           /\ \A r : Heard(t, n, r) => Heard(t, n, r)'
<1>1. /\ messages \in Seq(Message) /\ messages' \in Seq(Message)
      /\ thread[t].base \in Nat
  BY DEF TypeOK, Thread, Past
<1>2. Len(messages) \in Nat /\ Len(messages') \in Nat
  BY <1>1, LenProperties
<1>3. n <= Len(messages) =>
        SubSeq(messages', thread[t].base + 1, n)
          = SubSeq(messages, thread[t].base + 1, n)
  BY <1>1, PrefixKept DEF Past
<1>4. n <= Len(messages) => n <= Len(messages')
  BY <1>2 DEF Past
<1>5. \A r : Answer(r)' = Answer(r)
  BY DEF Answer
<1>6. QED
  BY <1>3, <1>4, <1>5 DEF Knows, Heard

-----------------------------------------------------------------------------
(* What a quiet step preserves.                                            *)
LEMMA TurnTyped ==
    ASSUME TypeOK, NEW w \in Workers, turn[w] # None
    PROVE  /\ turn[w] \in Turn /\ turn[w].lease.run \in Runs
           /\ turn[w].lease \in AiRunLease /\ turn[w].lease.gen \in Nat
           /\ turn[w].cursor \in Threads \cup {None}
  BY DEF TypeOK, Turn, AiRunLease

LEMMA ThreadsFacts ==
    /\ None \notin Threads
    /\ Gone.state = "gone" /\ Gone.log = <<>> /\ Gone.pending = None
<1>1. \A t \in Threads : t \in Int
  BY DEF Threads
<1>2. QED
  BY <1>1, RunNoneAssumption DEF Gone

LEMMA QuietNamed ==
    ASSUME Inv, TypeOK', Quiet
    PROVE  Named'
<1>1. ASSUME NEW t \in Threads
      PROVE  /\ BlankThread(t)'
             /\ thread[t].state # "none" => thread'[t].state # "none"
  <2>1. BlankThread(t)
    BY DEF Inv, Named
  <2>2. thread'[t] = thread[t] \/ thread'[t] = Gone
    BY DEF Quiet, ThreadKept
  <2>3. QED
    BY <2>1, <2>2, ThreadsFacts DEF BlankThread
<1>2. ASSUME binding' # None PROVE thread'[binding'.cursor].state # "none"
  <2>1. binding # None /\ binding'.cursor = binding.cursor
    BY <1>2 DEF Quiet, BindingKept
  <2>2. binding.cursor \in Threads
    BY <2>1 DEF Inv, TypeOK, Binding
  <2>3. QED
    BY <1>1, <2>1, <2>2 DEF Inv, Named
<1>3. ASSUME NEW w \in Workers, turn'[w] # None, turn'[w].cursor # None
      PROVE  thread'[turn'[w].cursor].state # "none"
  <2>1. turn[w] # None /\ turn'[w].cursor = turn[w].cursor
    BY <1>3 DEF Quiet, TurnKept
  <2>2. turn[w].cursor \in Threads
    BY <1>3, <2>1, TurnTyped DEF Inv
  <2>3. QED
    BY <1>1, <1>3, <2>1, <2>2 DEF Inv, Named
<1>4. ASSUME NEW c \in Cleaners, cleaner'[c] # None
      PROVE  thread'[cleaner'[c].cursor].state # "none"
  <2>1. CASE cleaner[c] # None /\ cleaner'[c].cursor = cleaner[c].cursor
    <3>1. cleaner[c].cursor \in Threads
      BY <2>1 DEF Inv, TypeOK, Cleanup
    <3>2. QED
      BY <1>1, <2>1, <3>1 DEF Inv, Named
  <2>2. CASE binding' # None /\ binding'.cursor = cleaner'[c].cursor
    BY <1>2, <2>2
  <2>3. QED
    BY <1>4, <2>1, <2>2 DEF Quiet, CleanerKept
<1>5. QED
  BY <1>1, <1>2, <1>3, <1>4 DEF Named

LEMMA QuietOwn ==
    ASSUME Inv, TypeOK', Quiet, NEW w \in Workers
    PROVE  OwnThread(w)'
<1> SUFFICES ASSUME In(w, {"created"})' PROVE OwnThread(w)'
  BY DEF OwnThread
<1> DEFINE t == turn[w].cursor
<1>1. turn'[w] # None /\ turn'[w].phase = "created"
  BY DEF In
<1>2. SameLease(w) /\ Onward(w) /\ turn'[w].cursor = t
  BY <1>1 DEF Quiet, TurnKept
<1>3. turn[w] # None /\ turn[w].phase = "created"
  BY <1>1, <1>2 DEF Onward, SameLease, Before, After
<1>4. OwnThread(w) /\ In(w, {"created"})
  BY <1>3 DEF Inv, Turns, In
<1>5. /\ t \in Threads
      /\ thread[t].state = "live" /\ thread[t].log = <<>>
      /\ thread[t].pending = None
      /\ binding # None => binding.cursor # t
      /\ \A v \in Workers \ {w} : turn[v] # None => turn[v].cursor # t
      /\ \A c \in Cleaners : cleaner[c] # None => cleaner[c].cursor # t
  BY <1>4 DEF OwnThread
<1> HIDE DEF t
<1>6. thread'[t] = thread[t]
  BY <1>1, <1>2, <1>5 DEF Quiet, ThreadKept, In
<1>7. binding' # None => binding'.cursor # t
  BY <1>5 DEF Quiet, BindingKept
<1>8. \A v \in Workers \ {w} : turn'[v] # None => turn'[v].cursor # t
  BY <1>5, ThreadsFacts DEF Quiet, TurnKept
<1>9. \A c \in Cleaners : cleaner'[c] # None => cleaner'[c].cursor # t
  BY <1>5, <1>7 DEF Quiet, CleanerKept
<1>10. QED
  BY <1>2, <1>5, <1>6, <1>7, <1>8, <1>9 DEF OwnThread

(* A worker that holds a claim after the step held it before.              *)
LEMMA QuietHolder ==
    ASSUME Inv, Quiet, NEW w \in Workers, In(w, Holding)'
    PROVE  /\ In(w, Holding) /\ SameLease(w) /\ Onward(w)
           /\ turn'[w].cursor = turn[w].cursor /\ turn[w].cursor \in Threads
           /\ turn[w].lease.run \in Runs
           /\ run[turn[w].lease.run].state # "Absent"
<1>1. turn'[w] # None /\ turn'[w].phase \in Holding
  BY DEF In
<1>2. SameLease(w) /\ Onward(w) /\ turn'[w].cursor = turn[w].cursor
  BY <1>1 DEF Quiet, TurnKept
<1>3. In(w, Holding)
  BY <1>1, <1>2 DEF Onward, SameLease, Before, After, Holding, In
<1>4. turn[w].lease.run \in Runs
  BY <1>3, TurnTyped DEF Inv, In
<1>5. turn[w].cursor \in Threads /\ run[turn[w].lease.run].state # "Absent"
  BY <1>3 DEF Inv, Turns, Anchored, Leases, LeasePast, In
<1>6. QED
  BY <1>2, <1>3, <1>4, <1>5

LEMMA QuietAnchored ==
    ASSUME Inv, Quiet, NEW w \in Workers
    PROVE  Anchored(w)'
<1> SUFFICES ASSUME In(w, Holding)' PROVE Anchored(w)'
  BY DEF Anchored
<1> DEFINE t == turn[w].cursor
<1>1. /\ In(w, Holding) /\ SameLease(w) /\ turn'[w].cursor = t
      /\ t \in Threads
  BY QuietHolder
<1>2. \/ thread[t].state = "gone"
      \/ /\ binding # None /\ binding.cursor = t
         /\ binding.state \in Cleaning \/ ClaimRecorded(w)
  BY <1>1 DEF Inv, Turns, Anchored
<1>3. CASE thread[t].state = "gone"
  <2>1. thread'[t].state = "gone"
    BY <1>1, <1>3, ThreadsFacts DEF Quiet, ThreadKept
  <2>2. QED
    BY <1>1, <2>1 DEF Anchored
<1>4. CASE /\ binding # None /\ binding.cursor = t
           /\ binding.state \in Cleaning \/ ClaimRecorded(w)
  <2>1. binding' # None /\ binding'.cursor = t
    BY <1>4 DEF Quiet, BindingKept
  <2>2. CASE SameClaim
    <3>1. binding'.state \in Cleaning \/ ClaimRecorded(w)'
      BY <1>1, <1>4, <2>1, <2>2 DEF SameClaim, ClaimRecorded, SameLease
    <3>2. QED
      BY <1>1, <2>1, <3>1 DEF Anchored
  <2>3. CASE binding'.state \in Cleaning
    BY <1>1, <2>1, <2>3 DEF Anchored
  <2>4. CASE thread'[t].state = "gone"
    BY <1>1, <2>4 DEF Anchored
  <2>5. QED
    BY <1>4, <2>2, <2>3, <2>4 DEF Quiet, BindingKept
<1>5. QED
  BY <1>2, <1>3, <1>4

LEMMA QuietRecorded ==
    ASSUME Inv, Past, Quiet, NEW w \in Workers, NEW r \in Runs
    PROVE  Recorded(w, r)'
<1> SUFFICES ASSUME At(w, r, Holding)', ClaimRecorded(w)'
             PROVE  Recorded(w, r)'
  BY DEF Recorded
<1>1. /\ In(w, Holding) /\ SameLease(w) /\ turn'[w].cursor = turn[w].cursor
      /\ turn[w].cursor \in Threads /\ run[turn[w].lease.run].state # "Absent"
  BY QuietHolder DEF At
<1>2. turn[w].lease.run = r /\ run[r].state # "Absent" /\ At(w, r, Holding)
  BY <1>1 DEF At, SameLease
<1>3. binding' # None /\ binding'.state = "claimed"
  BY DEF ClaimRecorded
<1>4. binding # None /\ binding'.cursor = binding.cursor /\ SameClaim
  BY <1>3 DEF Quiet, BindingKept, Cleaning
<1>5. ClaimRecorded(w)
  BY <1>1, <1>3, <1>4 DEF SameClaim, ClaimRecorded, SameLease
<1>6. /\ thread[binding.cursor].state = "live"
      /\ binding.cursor = turn[w].cursor
      /\ binding.through + 1 = InputSequence(r)
  BY <1>2, <1>5 DEF Inv, Turns, Recorded
<1>7. InputSequence(r)' = InputSequence(r)
  BY <1>2, InputKept DEF Inv
<1>8. thread'[binding.cursor] = thread[binding.cursor]
  BY <1>1, <1>3, <1>4, <1>6 DEF Quiet, ThreadKept, Cleaning
<1>9. binding'.through = binding.through
  BY <1>4 DEF SameClaim
<1>10. QED
  BY <1>1, <1>4, <1>6, <1>7, <1>8, <1>9 DEF Recorded

LEMMA QuietAlone ==
    ASSUME Inv, Quiet, NEW v \in Workers, NEW w \in Workers
    PROVE  Alone(v, w)'
<1> SUFFICES ASSUME In(v, Holding)', In(w, Holding)', v # w,
                    turn'[v].cursor = turn'[w].cursor
             PROVE  thread'[turn'[w].cursor].state = "gone"
  BY DEF Alone
<1>1. /\ In(v, Holding) /\ turn'[v].cursor = turn[v].cursor
      /\ In(w, Holding) /\ turn'[w].cursor = turn[w].cursor
      /\ turn[w].cursor \in Threads
  BY QuietHolder
<1>2. thread[turn[w].cursor].state = "gone"
  BY <1>1 DEF Inv, Turns, Alone
<1>3. QED
  BY <1>1, <1>2, ThreadsFacts DEF Quiet, ThreadKept

(* The thread of a holder that is alive after the step was not touched.    *)
LEMMA QuietThread ==
    ASSUME Inv, Past, Quiet, NEW w \in Workers, NEW r \in Runs,
           At(w, r, Holding)', thread'[turn'[w].cursor].state = "live"
    PROVE  /\ At(w, r, Holding) /\ SameLease(w) /\ Onward(w)
           /\ \E t \in Threads, n \in Nat :
                /\ turn[w].cursor = t /\ turn'[w].cursor = t
                /\ thread'[t] = thread[t] /\ thread[t].state = "live"
                /\ n = InputSequence(r) /\ n = InputSequence(r)'
                /\ n - 1 \in Nat
                /\ Knows(t, n) => Knows(t, n)'
                /\ Knows(t, n - 1) => Knows(t, n - 1)'
                /\ Heard(t, n, r) => Heard(t, n, r)'
<1>1. /\ In(w, Holding) /\ SameLease(w) /\ Onward(w)
      /\ turn'[w].cursor = turn[w].cursor
      /\ turn[w].cursor \in Threads /\ run[turn[w].lease.run].state # "Absent"
  BY QuietHolder DEF At
<1>2. turn[w].lease.run = r /\ run[r].state # "Absent" /\ At(w, r, Holding)
  BY <1>1 DEF At, SameLease
<1>3. PICK t \in Threads : t = turn[w].cursor
  BY <1>1
<1>4. PICK n \in Nat : n = InputSequence(r) /\ n - 1 \in Nat
  BY <1>2, InputFacts DEF Inv
<1>5. n = InputSequence(r)'
  BY <1>2, <1>4, InputKept DEF Inv
<1>6. thread'[t] = thread[t] /\ thread[t].state = "live"
  BY <1>1, <1>3, ThreadsFacts DEF Quiet, ThreadKept
<1>7. /\ Knows(t, n) => Knows(t, n)'
      /\ Knows(t, n - 1) => Knows(t, n - 1)'
      /\ Heard(t, n, r) => Heard(t, n, r)'
  <2>1. TypeOK
    BY DEF Inv
  <2>2. /\ Knows(t, n) => Knows(t, n)'
        /\ Heard(t, n, r) => Heard(t, n, r)'
    BY <2>1, <1>6, KnowsKept
  <2>3. PICK m \in Nat : m = n - 1
    BY <1>4
  <2>4. Knows(t, m) => Knows(t, m)'
    BY <2>1, <1>6, KnowsKept
  <2>5. QED
    BY <2>2, <2>3, <2>4
<1>8. QED
  BY <1>1, <1>2, <1>3, <1>4, <1>5, <1>6, <1>7

LEMMA QuietUnsent ==
    ASSUME Inv, Past, Quiet, NEW w \in Workers, NEW r \in Runs
    PROVE  Unsent(w, r)'
<1> SUFFICES ASSUME At(w, r, Before)',
                    thread'[turn'[w].cursor].state = "live"
             PROVE  Unsent(w, r)'
  BY DEF Unsent
<1>1. At(w, r, Holding)'
  BY DEF At, In, Holding
<1>2. PICK t \in Threads, n \in Nat :
        /\ turn[w].cursor = t /\ turn'[w].cursor = t
        /\ thread'[t] = thread[t] /\ thread[t].state = "live"
        /\ n = InputSequence(r) /\ n = InputSequence(r)'
        /\ n - 1 \in Nat
        /\ Knows(t, n - 1) => Knows(t, n - 1)'
  BY <1>1, QuietThread
<1>3. At(w, r, Holding) /\ Onward(w)
  BY <1>1, QuietThread
<1>4. At(w, r, Before)
  BY <1>3 DEF Onward, At, In, Before, After
<1>5. thread[t].pending = None /\ Knows(t, n - 1)
  BY <1>2, <1>4 DEF Inv, Turns, Unsent
<1>6. thread'[t].pending = None /\ Knows(t, n - 1)'
  BY <1>2, <1>5
<1>7. QED
  BY <1>2, <1>6 DEF Unsent

LEMMA QuietSent ==
    ASSUME Inv, Past, Quiet, NEW w \in Workers, NEW r \in Runs
    PROVE  Sent(w, r)'
<1> SUFFICES ASSUME At(w, r, {"sent"})',
                    thread'[turn'[w].cursor].state = "live"
             PROVE  Sent(w, r)'
  BY DEF Sent
<1>1. At(w, r, Holding)'
  BY DEF At, In, Holding
<1>2. PICK t \in Threads, n \in Nat :
        /\ turn[w].cursor = t /\ turn'[w].cursor = t
        /\ thread'[t] = thread[t] /\ thread[t].state = "live"
        /\ n = InputSequence(r) /\ n = InputSequence(r)'
        /\ Knows(t, n) => Knows(t, n)'
        /\ Heard(t, n, r) => Heard(t, n, r)'
  BY <1>1, QuietThread
<1>3. At(w, r, Holding) /\ Onward(w)
  BY <1>1, QuietThread
<1>4. At(w, r, {"sent"})
  BY <1>3 DEF Onward, At, In, Before, After
<1>5. \/ thread[t].pending = r /\ Knows(t, n)
      \/ thread[t].pending = None /\ Heard(t, n, r)
  BY <1>2, <1>4 DEF Inv, Turns, Sent
<1>6. \/ thread'[t].pending = r /\ Knows(t, n)'
      \/ thread'[t].pending = None /\ Heard(t, n, r)'
  BY <1>2, <1>5
<1>7. QED
  BY <1>2, <1>6 DEF Sent

LEMMA QuietReplied ==
    ASSUME Inv, Past, Quiet, NEW w \in Workers, NEW r \in Runs
    PROVE  Replied(w, r)'
<1> SUFFICES ASSUME At(w, r, After)',
                    thread'[turn'[w].cursor].state = "live"
             PROVE  Replied(w, r)'
  BY DEF Replied
<1>1. At(w, r, Holding)'
  BY DEF At, In, Holding
<1>2. PICK t \in Threads, n \in Nat :
        /\ turn[w].cursor = t /\ turn'[w].cursor = t
        /\ thread'[t] = thread[t] /\ thread[t].state = "live"
        /\ n = InputSequence(r) /\ n = InputSequence(r)'
        /\ Heard(t, n, r) => Heard(t, n, r)'
  BY <1>1, QuietThread
<1>3. At(w, r, Holding) /\ Onward(w)
  BY <1>1, QuietThread
<1>4. r # None
  BY RunNoneAssumption, RunRowsAssumption DEF Runs
<1>5. CASE At(w, r, After)
  <2>1. thread[t].pending = None /\ Heard(t, n, r)
    BY <1>2, <1>5 DEF Inv, Turns, Replied
  <2>2. QED
    BY <1>2, <2>1 DEF Replied
<1>6. CASE At(w, r, {"sent"}) /\ thread[t].pending = None
  <2>1. thread[t].pending = None /\ Heard(t, n, r)
    BY <1>2, <1>4, <1>6 DEF Inv, Turns, Sent
  <2>2. QED
    BY <1>2, <2>1 DEF Replied
<1>7. At(w, r, After) \/ (At(w, r, {"sent"}) /\ thread[t].pending = None)
  BY <1>2, <1>3 DEF Onward, At, In, Before, After
<1>8. QED
  BY <1>5, <1>6, <1>7

LEMMA QuietTurns ==
    ASSUME Inv, Past, TypeOK', Quiet
    PROVE  Turns'
<1>1. \A w \in Workers : Awaits(w)'
  BY DEF Awaits, Quiet, TurnKept
<1>2. QED
  BY <1>1, QuietOwn, QuietAnchored, QuietRecorded, QuietAlone, QuietUnsent,
     QuietSent, QuietReplied DEF Turns

LEMMA QuietSwept ==
    ASSUME Inv, TypeOK', Quiet
    PROVE  Swept'
<1>1. \A t \in Threads : thread[t].state = "gone" => thread'[t].state = "gone"
  BY ThreadsFacts DEF Quiet, ThreadKept
<1>2. ASSUME NEW c \in Cleaners PROVE Sweeps(c)'
  <2> SUFFICES ASSUME cleaner'[c] # None PROVE Sweeps(c)'
    BY DEF Sweeps
  <2>1. CASE /\ cleaner[c] # None /\ cleaner'[c].cursor = cleaner[c].cursor
             /\ cleaner'[c].phase = "absent" =>
                  \/ cleaner[c].phase = "absent"
                  \/ thread'[cleaner[c].cursor].state = "gone"
    <3>1. cleaner[c].cursor \in Threads
      BY <2>1 DEF Inv, TypeOK, Cleanup
    <3>2. Sweeps(c) /\ binding # None
      BY <2>1 DEF Inv, Swept, Sweeps
    <3>3. binding' # None /\ binding'.cursor = binding.cursor
      BY <3>2 DEF Quiet, BindingKept
    <3>4. CASE thread[cleaner[c].cursor].state = "gone"
      BY <1>1, <2>1, <3>1, <3>3, <3>4 DEF Sweeps
    <3>5. CASE thread'[cleaner[c].cursor].state = "gone"
      BY <2>1, <3>3, <3>5 DEF Sweeps
    <3>6. CASE /\ cleaner'[c].phase # "absent" /\ binding.state \in Cleaning
               /\ binding.cursor = cleaner[c].cursor
               /\ thread'[cleaner[c].cursor].state # "gone"
      <4>1. binding'.state \in Cleaning
        BY <3>2, <3>6 DEF Quiet, BindingKept, SameClaim
      <4>2. QED
        BY <2>1, <3>3, <3>6, <4>1 DEF Sweeps
    <3>7. QED
      BY <2>1, <3>2, <3>4, <3>5, <3>6 DEF Sweeps
  <2>2. CASE /\ binding' # None /\ binding'.state \in Cleaning
             /\ binding'.cursor = cleaner'[c].cursor
             /\ cleaner'[c].phase # "absent"
    BY <2>2 DEF Sweeps
  <2>3. QED
    BY <2>1, <2>2 DEF Quiet, CleanerKept
<1>3. ASSUME binding' # None, binding'.state = "deleted"
      PROVE  thread'[binding'.cursor].state = "gone"
  <2>1. binding # None /\ binding'.cursor = binding.cursor
    BY <1>3 DEF Quiet, BindingKept
  <2>2. binding.cursor \in Threads
    BY <2>1 DEF Inv, TypeOK, Binding
  <2>3. CASE SameClaim
    BY <1>1, <1>3, <2>1, <2>2, <2>3 DEF SameClaim, Inv, Swept
  <2>4. CASE thread'[binding.cursor].state = "gone"
    BY <2>1, <2>4
  <2>5. QED
    BY <1>3, <2>1, <2>3, <2>4 DEF Quiet, BindingKept, Cleaning
<1>4. QED
  BY <1>2, <1>3 DEF Swept

LEMMA QuietMirror ==
    ASSUME Inv, Past, Quiet
    PROVE  Mirror'
<1> SUFFICES ASSUME binding' # None, binding'.state = "active"
             PROVE  Mirror'
  BY DEF Mirror
<1>1. /\ binding # None /\ binding'.cursor = binding.cursor /\ SameClaim
  BY DEF Quiet, BindingKept, Cleaning
<1>2. binding.state = "active" /\ binding'.through = binding.through
  BY <1>1 DEF SameClaim
<1>3. PICK t \in Threads, n \in Nat :
        t = binding.cursor /\ n = binding.through
  BY <1>1 DEF Inv, TypeOK, Binding
<1>4. /\ thread[t].state = "live" /\ thread[t].pending = None
      /\ Knows(t, n)
  BY <1>1, <1>2, <1>3 DEF Inv, Mirror
<1>5. thread'[t] = thread[t]
  BY <1>1, <1>3, <1>4 DEF Quiet, ThreadKept, Cleaning
<1>6. Knows(t, n)'
  BY <1>4, <1>5, KnowsKept DEF Inv
<1>7. QED
  BY <1>1, <1>2, <1>3, <1>4, <1>5, <1>6 DEF Mirror

LEMMA QuietContent ==
    ASSUME Inv, Quiet
    PROVE  ContentNeverOrphaned'
<1> SUFFICES ASSUME NEW t \in Threads, thread'[t].state = "live",
                    thread'[t].log # <<>>
             PROVE  /\ binding' # None /\ binding'.cursor = t
                    /\ binding'.state # "deleted"
  BY DEF ContentNeverOrphaned
<1>1. thread'[t] = thread[t]
  BY ThreadsFacts DEF Quiet, ThreadKept
<1>2. binding # None /\ binding.cursor = t /\ binding.state # "deleted"
  BY <1>1 DEF Inv, ContentNeverOrphaned
<1>3. QED
  BY <1>2 DEF Quiet, BindingKept, SameClaim, Cleaning

LEMMA QuietStep ==
    ASSUME Inv, Past, TypeOK', Leases', Quiet
    PROVE  Inv'
  BY QuietNamed, QuietTurns, QuietSwept, QuietMirror, QuietContent
     DEF Inv, Past

-----------------------------------------------------------------------------
(* The steps that change a row, and those that change none.                *)
LEMMA MessageTyped ==
    ASSUME Inv
    PROVE  /\ messages \in Seq(Message) /\ Len(messages) \in Nat
           /\ \A i \in 1..Len(messages) : messages[i] \in Message
           /\ \A i \in 1..Len(messages) : messages[i].run \in Runs
<1>1. messages \in Seq(Message)
  BY DEF Inv, TypeOK
<1>2. \A i \in 1..Len(messages) : messages[i] \in Message
  BY <1>1, ElementOfSeq
<1>3. Len(messages) \in Nat
  BY <1>1, LenProperties
<1>4. \A m \in Message : m.run \in Runs
  BY DEF Message
<1>5. QED
  BY <1>1, <1>2, <1>3, <1>4

LEMMA PastRows ==
    ASSUME Inv, run' \in [Runs -> RunRow], messages' = messages,
           \A q \in Runs : RowKept(run[q], run'[q])
    PROVE  Past
<1>1. messages \in Seq(Message)
  BY DEF Inv, TypeOK
<1>2. \A i \in 1..Len(messages) : messages[i].run \in Runs
  BY MessageTyped
<1>3. OfRuns'
  BY <1>2 DEF Inv, Transcript, OfRuns, RowKept
<1>4. Distinct'
  BY DEF Inv, Transcript, Distinct
<1>5. HasPrompt'
  BY DEF Inv, Transcript, HasPrompt, RowKept, Prompt
<1>6. Len(messages) \in Nat
  BY <1>1, LenProperties
<1>7. QED
  BY <1>1, <1>3, <1>4, <1>5, <1>6 DEF Past, Transcript, RowKept

LEMMA PastRow ==
    ASSUME Inv, NEW r \in Runs, NEW row, RowKept(run[r], row),
           run' = [run EXCEPT ![r] = row], messages' = messages
    PROVE  Past
<1>1. run \in [Runs -> RunRow]
  BY DEF Inv, TypeOK
<1>2. run' \in [Runs -> RunRow]
  BY <1>1 DEF RowKept
<1>3. \A q \in Runs : RowKept(run[q], run[q])
  BY <1>1, SameRow
<1>4. \A q \in Runs : RowKept(run[q], run'[q])
  BY <1>1, <1>3
<1>5. QED
  BY <1>2, <1>4, PastRows

LEMMA PastSame ==
    ASSUME Inv, run' = run, messages' = messages
    PROVE  Past
<1>1. run \in [Runs -> RunRow]
  BY DEF Inv, TypeOK
<1>2. \A q \in Runs : RowKept(run[q], run'[q])
  BY <1>1, SameRow
<1>3. QED
  BY <1>1, <1>2, PastRows

LEMMA LeasesKept ==
    ASSUME Inv, Past, \A w \in Workers : turn'[w] # None => SameLease(w)
    PROVE  Leases'
<1>1. ASSUME NEW w \in Workers, turn'[w] # None
      PROVE  /\ run'[turn'[w].lease.run].state # "Absent"
             /\ turn'[w].lease.gen <= run'[turn'[w].lease.run].gen
  <2>1. SameLease(w)
    BY <1>1
  <2>2. PICK r \in Runs : r = turn[w].lease.run
    BY <2>1, TurnTyped DEF Inv, SameLease
  <2>3. turn[w].lease.gen \in Nat
    BY <2>1, TurnTyped DEF Inv, SameLease
  <2>4. run[r].state # "Absent" /\ turn[w].lease.gen <= run[r].gen
    BY <2>1, <2>2 DEF Inv, Leases, LeasePast, SameLease
  <2>5. run[r].gen \in Nat /\ run'[r].gen \in Nat
    BY DEF Inv, TypeOK, RunRow, Past
  <2>6. run'[r].state # "Absent" /\ run'[r].gen >= run[r].gen
    BY <2>4 DEF Past
  <2>7. turn'[w].lease.run = r /\ turn'[w].lease.gen = turn[w].lease.gen
    BY <2>1, <2>2 DEF SameLease
  <2>8. QED
    BY <2>3, <2>4, <2>5, <2>6, <2>7
<1>2. \A v, w \in Workers : Apart(v, w)'
  BY DEF Inv, Leases, Apart, SameLease
<1>3. QED
  BY <1>1, <1>2 DEF Leases, LeasePast

(* What stays as it is.                                                    *)
LEMMA TurnSame ==
    ASSUME Inv, BindingKept, NEW v \in Workers, turn'[v] = turn[v]
    PROVE  TurnKept(v)
<1>1. Awaits(v)
  BY DEF Inv, Turns
<1>2. binding # None => binding' # None
  BY DEF BindingKept
<1>3. QED
  BY <1>1, <1>2 DEF TurnKept, Awaits, SameLease, Onward

LEMMA ProviderSame ==
    /\ binding' = binding => BindingKept
    /\ thread' = thread => \A t \in Threads : ThreadKept(t)
    /\ cleaner' = cleaner => \A c \in Cleaners : CleanerKept(c)
<1>1. binding' = binding => BindingKept
  BY DEF BindingKept, SameClaim
<1>2. thread' = thread => \A t \in Threads : ThreadKept(t)
  BY DEF ThreadKept
<1>3. cleaner' = cleaner => \A c \in Cleaners : CleanerKept(c)
  BY DEF CleanerKept
<1>4. QED
  BY <1>1, <1>2, <1>3

LEMMA NoTurn ==
    ASSUME Inv, Past, turn' = turn, dispatched' = dispatched,
           \A t \in Threads : ThreadKept(t), BindingKept,
           \A c \in Cleaners : CleanerKept(c),
           thread' \in [Threads -> Thread],
           binding' \in Binding \cup {None},
           cleaner' \in [Cleaners -> Cleanup \cup {None}]
    PROVE  Inv'
<1>1. TypeOK'
  BY DEF Inv, TypeOK, Past
<1>2. Leases'
  BY LeasesKept DEF SameLease
<1>3. \A w \in Workers : TurnKept(w)
  BY TurnSame
<1>4. QED
  BY <1>1, <1>2, <1>3, QuietStep DEF Quiet

LEMMA RowsOnly ==
    ASSUME Inv, Past, UNCHANGED <<dispatched, binding, thread, turn, cleaner>>
    PROVE  Inv'
  BY NoTurn, ProviderSame DEF Inv, TypeOK

LEMMA OneTurn ==
    ASSUME Inv, Past, NEW w \in Workers, NEW new \in Turn \cup {None},
           turn' = [turn EXCEPT ![w] = new],
           new # None =>
             /\ turn[w] # None /\ new.lease.run = turn[w].lease.run
             /\ new.lease.gen = turn[w].lease.gen,
           TurnKept(w), dispatched' \subseteq Runs,
           \A t \in Threads : ThreadKept(t), BindingKept,
           \A c \in Cleaners : CleanerKept(c),
           thread' \in [Threads -> Thread],
           binding' \in Binding \cup {None},
           cleaner' \in [Cleaners -> Cleanup \cup {None}]
    PROVE  Inv'
<1>1. turn \in [Workers -> Turn \cup {None}]
  BY DEF Inv, TypeOK
<1>2. /\ turn' \in [Workers -> Turn \cup {None}] /\ turn'[w] = new
      /\ \A v \in Workers \ {w} : turn'[v] = turn[v]
  BY <1>1
<1>3. TypeOK'
  BY <1>2 DEF Inv, TypeOK, Past
<1>4. Leases'
  BY <1>2, LeasesKept DEF SameLease
<1>5. \A v \in Workers : TurnKept(v)
  BY <1>2, TurnSame
<1>6. QED
  BY <1>3, <1>4, <1>5, QuietStep DEF Quiet

(* A worker that gives up its turn, or what it holds of the provider's.    *)
LEMMA WorkerDrops ==
    ASSUME Inv, Past, NEW w \in Workers, turn' = [turn EXCEPT ![w] = None],
           dispatched' = dispatched, cleaner' = cleaner,
           \A t \in Threads : ThreadKept(t), BindingKept,
           thread' \in [Threads -> Thread],
           binding' \in Binding \cup {None}
    PROVE  Inv'
<1>1. turn'[w] = None
  BY DEF Inv, TypeOK
<1>2. TurnKept(w)
  BY <1>1 DEF TurnKept
<1>3. QED
  BY <1>2, OneTurn, ProviderSame DEF Inv, TypeOK

LEMMA WorkerRests ==
    ASSUME Inv, Past, NEW w \in Workers, turn[w] # None,
           NEW p \in {"deferred", "failed"},
           turn' = [turn EXCEPT ![w] = Bare(turn[w].lease, p)],
           dispatched' = dispatched, cleaner' = cleaner,
           \A t \in Threads : ThreadKept(t), BindingKept,
           thread' \in [Threads -> Thread],
           binding' \in Binding \cup {None}
    PROVE  Inv'
<1> DEFINE new == Bare(turn[w].lease, p)
<1>1. turn[w].lease \in AiRunLease
  BY TurnTyped DEF Inv
<1>2. new \in Turn
  BY <1>1 DEF Bare, Turn
<1>3. /\ new.lease = turn[w].lease /\ new.phase = p /\ new.cursor = None
      /\ new.auth = None
  BY DEF Bare
<1>4. turn'[w] = new
  BY DEF Inv, TypeOK
<1> HIDE DEF new
<1>5. TurnKept(w)
  BY <1>3, <1>4 DEF TurnKept, Holding, Before, After
<1>6. turn' = [turn EXCEPT ![w] = new]
  BY DEF new
<1>7. QED
  BY <1>2, <1>3, <1>5, <1>6, OneTurn, ProviderSame DEF Inv, TypeOK

(* A worker that goes on to the next phase, with a renewed lease.          *)
LEMMA WorkerMoves ==
    ASSUME Inv, Past, NEW w \in Workers, turn[w] # None, NEW new \in Turn,
           turn' = [turn EXCEPT ![w] = new],
           new.lease.run = turn[w].lease.run,
           new.lease.gen = turn[w].lease.gen,
           new.cursor = turn[w].cursor, new.auth = turn[w].auth,
           \/ new.phase \notin Holding \cup {"created", "resume"}
           \/ new.phase = turn[w].phase
           \/ turn[w].phase \in Before /\ new.phase \in Before
           \/ turn[w].phase \in After /\ new.phase \in After
           \/ /\ turn[w].phase = "sent" /\ new.phase \in After
              /\ thread[turn[w].cursor].pending = None,
           dispatched' \subseteq Runs,
           thread' = thread, binding' = binding, cleaner' = cleaner
    PROVE  Inv'
<1>1. turn'[w] = new
  BY DEF Inv, TypeOK
<1>2. Awaits(w)
  BY DEF Inv, Turns
<1>3. new.phase \in Holding \cup {"created"} => Onward(w)
  BY <1>1 DEF Onward
<1>4. new.phase = "resume" => turn[w].phase = "resume"
  BY DEF Before, After
<1>5. TurnKept(w)
  BY <1>1, <1>2, <1>3, <1>4 DEF TurnKept, SameLease, Awaits
<1>6. QED
  BY <1>5, OneTurn, ProviderSame DEF Inv, TypeOK

-----------------------------------------------------------------------------
(* The operations on runs.                                                 *)
LEMMA FencedFacts ==
    ASSUME Inv, NEW w \in Workers, NEW lag, Fenced(w, lag)
    PROVE  /\ turn[w] # None /\ turn[w] \in Turn
           /\ turn[w].lease.run \in Runs
           /\ LET row == run[turn[w].lease.run] IN
              /\ row \in RunRow /\ row.attempt \in Nat
              /\ row.state \in States /\ row.state # "Absent"
              /\ row.gen = turn[w].lease.gen
              /\ row.retries = turn[w].lease.retries
              /\ row.expiry \in Ticks
<1> DEFINE l == turn[w].lease
           r == turn[w].lease.run
<1>1. turn[w] # None /\ LeaseHolds(l, w, run[r], lag)
  BY DEF Fenced
<1>2. /\ turn[w] \in Turn /\ l \in AiRunLease /\ r \in Runs
      /\ run[r] \in RunRow
  BY <1>1, TurnTyped DEF Inv, TypeOK
<1>3. LeaseFromRecord(r, run[r]) = l /\ run[r].expiry # None
  BY <1>1 DEF LeaseHolds
<1>4. /\ run[r].attempt = l.attempt /\ run[r].gen = l.gen
      /\ run[r].state = l.state /\ run[r].retries = l.retries
  BY <1>3 DEF LeaseFromRecord
<1>5. l.attempt \in Nat /\ l.state \in States
  BY <1>2 DEF AiRunLease
<1>6. run[r].expiry \in Ticks
  BY <1>2, <1>3 DEF RunRow
<1>7. "Absent" \notin States
  BY DEF States
<1>8. QED
  BY <1>1, <1>2, <1>4, <1>5, <1>6, <1>7

LEMMA LeaseTyped ==
    ASSUME NEW r \in Runs, NEW row \in RunRow, row.attempt \in Nat,
           row.state # "Absent"
    PROVE  /\ LeaseFromRecord(r, row) \in AiRunLease
           /\ LeaseFromRecord(r, row).run = r
           /\ LeaseFromRecord(r, row).gen = row.gen
<1>1. LeaseFromRecord(r, row) \in AiRunLease
  BY DEF LeaseFromRecord, AiRunLease, RunRow
<1>2. QED
  BY <1>1 DEF LeaseFromRecord

(* A worker goes on with the lease of the row it wrote.                    *)
LEMMA RenewedTurn ==
    ASSUME Inv, NEW w \in Workers, turn[w] # None, NEW r \in Runs,
           r = turn[w].lease.run, NEW row, RowKept(run[r], row),
           row.attempt \in Nat, row.gen = turn[w].lease.gen,
           NEW p \in {"ready", "opened", "reserved", "sent", "answered"},
           Renewed(w, r, row, p)
    PROVE  \E new \in Turn :
             /\ turn' = [turn EXCEPT ![w] = new]
             /\ new.lease.run = turn[w].lease.run
             /\ new.lease.gen = turn[w].lease.gen
             /\ new.cursor = turn[w].cursor /\ new.auth = turn[w].auth
             /\ new.phase = p
<1> DEFINE l == LeaseFromRecord(r, row)
           new == [turn[w] EXCEPT !.lease = l, !.phase = p]
<1>1. /\ turn \in [Workers -> Turn \cup {None}] /\ turn[w] \in Turn
  BY TurnTyped DEF Inv, TypeOK
<1>2. row \in RunRow /\ row.state # "Absent"
  <2>1. run[r].state # "Absent"
    BY DEF Inv, Leases, LeasePast
  <2>2. QED
    BY <2>1 DEF RowKept
<1>3. l \in AiRunLease /\ l.run = r /\ l.gen = row.gen
  BY <1>2, LeaseTyped
<1>4. turn' = [turn EXCEPT ![w].lease = l, ![w].phase = p]
  BY DEF Renewed
<1> HIDE DEF l
<1>5. turn' = [turn EXCEPT ![w] = new]
  BY <1>1, <1>4
<1>6. /\ new.lease = l /\ new.phase = p /\ new.cursor = turn[w].cursor
      /\ new.auth = turn[w].auth
  BY <1>1 DEF Turn
<1>7. new \in Turn
  BY <1>1, <1>3 DEF Turn
<1> HIDE DEF new
<1>8. QED
  BY <1>3, <1>5, <1>6, <1>7

LEMMA SendMessageStep ==
    ASSUME Inv, NEW r \in Runs, SendMessage(r)
    PROVE  Inv'
<1> DEFINE m == [role |-> "user", run |-> r]
           row == QueuedRun(r)
<1>1. /\ Fresh(r) /\ run' = [run EXCEPT ![r] = row]
      /\ messages' = Append(messages, m)
  BY DEF SendMessage
<1>2. run \in [Runs -> RunRow] /\ messages \in Seq(Message)
  BY DEF Inv, TypeOK
<1>3. row \in RunRow /\ row.state = "Queued" /\ row.input = r
  BY RunRowsAssumption, QueuedRow DEF Runs
<1>4. m \in Message
  BY DEF Message
<1>5. run[r].state = "Absent"
  BY <1>1 DEF Fresh
<1> HIDE DEF row
<1>6. /\ run' \in [Runs -> RunRow] /\ run'[r] = row
      /\ \A q \in Runs \ {r} : run'[q] = run[q]
  BY <1>1, <1>2, <1>3
<1>7. /\ messages' \in Seq(Message) /\ Len(messages') = Len(messages) + 1
      /\ \A i \in 1..Len(messages) : messages'[i] = messages[i]
      /\ messages'[Len(messages) + 1] = m
  BY <1>1, <1>2, <1>4, AppendProperties
<1>8. /\ Len(messages) \in Nat
      /\ \A i \in 1..Len(messages) : messages[i].run \in Runs
  BY MessageTyped
<1>9. \A i \in 1..Len(messages) : messages[i] # m
  <2>1. \A i \in 1..Len(messages) : messages[i].role = "user" =>
          messages[i].run # r
    BY <1>5 DEF Inv, Transcript, OfRuns
  <2>2. m.role = "user" /\ m.run = r
    OBVIOUS
  <2> HIDE DEF m
  <2>3. QED
    BY <2>1, <2>2
<1>10. m.role = "user" /\ m.run = r
  OBVIOUS
<1> HIDE DEF m
<1>11. OfRuns'
  <2> SUFFICES ASSUME NEW i \in 1..Len(messages'),
                      messages'[i].role = "user"
               PROVE  run'[messages'[i].run].state # "Absent"
    BY DEF OfRuns
  <2>1. CASE i \in 1..Len(messages)
    <3>1. messages[i].run \in Runs /\ run[messages[i].run].state # "Absent"
      BY <1>7, <1>8, <2>1 DEF Inv, Transcript, OfRuns
    <3>2. QED
      BY <1>3, <1>6, <1>7, <2>1, <3>1
  <2>2. CASE i = Len(messages) + 1
    BY <1>3, <1>6, <1>7, <1>10, <2>2
  <2>3. QED
    BY <1>7, <1>8, <2>1, <2>2
<1>12. Distinct'
  <2> SUFFICES ASSUME NEW i \in 1..Len(messages'),
                      NEW j \in 1..Len(messages'),
                      messages'[i].role = "user",
                      messages'[i] = messages'[j]
               PROVE  i = j
    BY DEF Distinct
  <2>1. /\ i \in 1..Len(messages) \/ i = Len(messages) + 1
        /\ j \in 1..Len(messages) \/ j = Len(messages) + 1
    BY <1>7, <1>8
  <2>2. CASE i \in 1..Len(messages) /\ j \in 1..Len(messages)
    BY <1>7, <2>2 DEF Inv, Transcript, Distinct
  <2>3. CASE i = Len(messages) + 1 \/ j = Len(messages) + 1
    BY <1>7, <1>9, <2>1, <2>3
  <2>4. QED
    BY <2>1, <2>2, <2>3
<1>13. HasPrompt'
  <2> SUFFICES ASSUME NEW q \in Runs, run'[q].state # "Absent"
               PROVE  \E i \in 1..Len(messages') : messages'[i] = Prompt(q)'
    BY DEF HasPrompt
  <2>1. CASE q = r
    <3>1. Prompt(q)' = m
      BY <1>3, <1>6, <2>1 DEF Prompt, m
    <3>2. Len(messages) + 1 \in 1..Len(messages')
      BY <1>7, <1>8
    <3>3. QED
      BY <1>7, <3>1, <3>2
  <2>2. CASE q # r
    <3>1. run'[q] = run[q] /\ Prompt(q)' = Prompt(q)
      BY <1>6, <2>2 DEF Prompt
    <3>2. PICK i \in 1..Len(messages) : messages[i] = Prompt(q)
      BY <3>1 DEF Inv, Transcript, HasPrompt
    <3>3. i \in 1..Len(messages')
      BY <1>7, <1>8
    <3>4. QED
      BY <1>7, <3>1, <3>2, <3>3
  <2>3. QED
    BY <2>1, <2>2
<1>14. \A q \in Runs : run[q].state # "Absent" =>
         /\ run'[q].state # "Absent" /\ run'[q].input = run[q].input
         /\ run'[q].gen >= run[q].gen
  <2>1. \A q \in Runs : run[q].gen \in Nat
    BY <1>2 DEF RunRow
  <2>2. QED
    BY <1>5, <1>6, <2>1
<1>15. Past
  BY <1>6, <1>7, <1>8, <1>11, <1>12, <1>13, <1>14 DEF Past, Transcript
<1>16. QED
  BY <1>15, RowsOnly DEF SendMessage

LEMMA RequestCancellationStep ==
    ASSUME Inv, NEW r \in Runs, RequestCancellation(r)
    PROVE  Inv'
<1>1. run[r] \in RunRow
  BY DEF Inv, TypeOK
<1>2. RowKept(run[r], Closed(run[r], "Cancelled", "other"))
  BY <1>1, ClosedRow DEF RequestCancellation, Closing, ErrorCodes
<1>3. Past
  BY <1>2, PastRow DEF RequestCancellation
<1>4. QED
  BY <1>3, RowsOnly DEF RequestCancellation

LEMMA RetryRunStep ==
    ASSUME Inv, NEW r \in Runs, NEW q \in Runs, RetryRun(r, q)
    PROVE  Inv'
<1> DEFINE old == [run[r] EXCEPT !.disposed = "retried"]
           new == QueuedRun(run[r].input)
<1>1. /\ run[r].state \in {"Failed", "Cancelled", "RecoveryRequired"}
      /\ Fresh(q) /\ messages' = messages
      /\ run' = [run EXCEPT ![r].disposed = "retried", ![q] = new]
  BY DEF RetryRun
<1>2. run \in [Runs -> RunRow] /\ run[q].state = "Absent" /\ q # r
  BY <1>1 DEF Inv, TypeOK, Fresh
<1>3. run[r].input \in Nat /\ run[r] \in RunRow
  BY <1>2 DEF RunRow
<1>4. new \in RunRow /\ new.state = "Queued" /\ new.input = run[r].input
  BY <1>3, QueuedRow
<1>5. /\ old \in RunRow /\ old.state = run[r].state
      /\ old.input = run[r].input /\ old.gen = run[r].gen
  BY <1>3 DEF RunRow
<1> HIDE DEF new
<1>6. run' = [run EXCEPT ![r] = old, ![q] = new]
  BY <1>1, <1>2
<1> HIDE DEF old
<1>7. /\ run' \in [Runs -> RunRow] /\ run'[q] = new /\ run'[r] = old
      /\ \A u \in Runs \ {q, r} : run'[u] = run[u]
  BY <1>2, <1>4, <1>5, <1>6
<1>8. \A u \in Runs : run[u].gen \in Nat
  BY <1>2 DEF RunRow
<1>9. \A u \in Runs \ {q} :
        /\ run'[u].state = run[u].state
        /\ run'[u].input = run[u].input /\ run'[u].gen = run[u].gen
  BY <1>5, <1>7
<1>10. /\ messages \in Seq(Message) /\ Len(messages) \in Nat
       /\ \A i \in 1..Len(messages) : messages[i].run \in Runs
  BY MessageTyped
<1>11. OfRuns'
  BY <1>1, <1>2, <1>4, <1>7, <1>9, <1>10 DEF Inv, Transcript, OfRuns
<1>12. Distinct'
  BY <1>1 DEF Inv, Transcript, Distinct
<1>13. HasPrompt'
  <2> SUFFICES ASSUME NEW u \in Runs, run'[u].state # "Absent"
               PROVE  \E i \in 1..Len(messages) : messages[i] = Prompt(u)'
    BY <1>1 DEF HasPrompt
  <2>1. CASE u = q
    <3>1. Prompt(u)' = Prompt(r)
      BY <1>4, <1>7, <2>1 DEF Prompt
    <3>2. QED
      BY <1>1, <3>1 DEF Inv, Transcript, HasPrompt
  <2>2. CASE u # q
    <3>1. run[u].state # "Absent" /\ Prompt(u)' = Prompt(u)
      BY <1>9, <2>2 DEF Prompt
    <3>2. QED
      BY <3>1 DEF Inv, Transcript, HasPrompt
  <2>3. QED
    BY <2>1, <2>2
<1>14. \A u \in Runs : run[u].state # "Absent" =>
         /\ run'[u].state # "Absent" /\ run'[u].input = run[u].input
         /\ run'[u].gen >= run[u].gen
  BY <1>2, <1>8, <1>9
<1>15. Past
  BY <1>1, <1>7, <1>10, <1>11, <1>12, <1>13, <1>14 DEF Past, Transcript
<1>16. QED
  BY <1>15, RowsOnly DEF RetryRun

(* A claim's generation is newer than every lease of the run.              *)
LEMMA ClaimStep ==
    ASSUME Inv, NEW w \in Workers, NEW r \in Runs, NEW lag \in 0..MaxLag,
           Claim(w, r, lag)
    PROVE  Inv'
<1> DEFINE row == Leased(run[r], w, lag)
           l == LeaseFromRecord(r, row)
           new == Bare(l, "leased")
<1>1. /\ turn[w] = None /\ run[r].state \in {"Queued", "RetryScheduled"}
      /\ run' = [run EXCEPT ![r] = row] /\ messages' = messages
      /\ turn' = [turn EXCEPT ![w] = new]
      /\ UNCHANGED <<dispatched, messages, binding, thread, cleaner>>
  BY DEF Claim
<1>2. run[r] \in RunRow /\ run[r].state # "Absent" /\ run[r].gen \in Nat
  BY <1>1 DEF Inv, TypeOK, RunRow
<1>3. /\ RowKept(run[r], row) /\ row.attempt \in Nat
      /\ row.gen = run[r].gen + 1
  BY <1>2, LeasedRow
<1> HIDE DEF row
<1>4. Past
  BY <1>1, <1>3, PastRow
<1>5. l \in AiRunLease /\ l.run = r /\ l.gen = run[r].gen + 1
  BY <1>2, <1>3, LeaseTyped DEF RowKept
<1> HIDE DEF l
<1>6. new \in Turn
  BY <1>5 DEF Bare, Turn
<1>7. /\ new.lease = l /\ new.phase = "leased" /\ new.cursor = None
      /\ new.auth = None
  BY DEF Bare
<1> HIDE DEF new
<1>8. /\ turn' \in [Workers -> Turn \cup {None}] /\ turn'[w] = new
      /\ \A v \in Workers \ {w} : turn'[v] = turn[v]
  BY <1>1, <1>6 DEF Inv, TypeOK
<1>9. TypeOK'
  BY <1>1, <1>4, <1>8 DEF Inv, TypeOK, Past
<1>10. /\ run'[r].gen = run[r].gen + 1 /\ run'[r].state # "Absent"
  BY <1>1, <1>2, <1>3 DEF Inv, TypeOK, RowKept
<1>11. Leases'
  <2>1. ASSUME NEW v \in Workers \ {w}, turn[v] # None
        PROVE  /\ run'[turn[v].lease.run].state # "Absent"
               /\ turn[v].lease.gen <= run'[turn[v].lease.run].gen
               /\ turn[v].lease.run = r => turn[v].lease.gen # l.gen
    <3>1. PICK q \in Runs : q = turn[v].lease.run
      BY <2>1, TurnTyped DEF Inv
    <3>2. turn[v].lease.gen \in Nat
      BY <2>1, TurnTyped DEF Inv
    <3>3. run[q].state # "Absent" /\ turn[v].lease.gen <= run[q].gen
      BY <2>1, <3>1 DEF Inv, Leases, LeasePast
    <3>4. run[q].gen \in Nat /\ run'[q].gen \in Nat
      BY <1>4 DEF Inv, TypeOK, RunRow, Past
    <3>5. run'[q].state # "Absent" /\ run'[q].gen >= run[q].gen
      BY <1>4, <3>3 DEF Past
    <3>6. QED
      BY <1>2, <1>5, <3>1, <3>2, <3>3, <3>4, <3>5
  <2>2. \A v \in Workers : LeasePast(v)'
    <3>1. LeasePast(w)'
      BY <1>2, <1>5, <1>7, <1>8, <1>10 DEF LeasePast
    <3>2. \A v \in Workers \ {w} : LeasePast(v)'
      BY <1>8, <2>1 DEF LeasePast
    <3>3. QED
      BY <3>1, <3>2
  <2>3. \A u, v \in Workers : Apart(u, v)'
    <3>1. \A u, v \in Workers : Apart(u, v)
      BY DEF Inv, Leases
    <3>2. \A u, v \in Workers \ {w} : Apart(u, v)'
      BY <1>8, <3>1 DEF Apart
    <3>3. \A v \in Workers \ {w} : Apart(w, v)' /\ Apart(v, w)'
      BY <1>5, <1>7, <1>8, <2>1 DEF Apart
    <3>4. Apart(w, w)'
      BY DEF Apart
    <3>5. QED
      BY <3>2, <3>3, <3>4
  <2>4. QED
    BY <2>2, <2>3 DEF Leases
<1>12. BindingKept
  BY <1>1, ProviderSame
<1>13. \A v \in Workers : TurnKept(v)
  <2>1. TurnKept(w)
    BY <1>7, <1>8 DEF TurnKept, Holding, Before, After
  <2>2. \A v \in Workers \ {w} : TurnKept(v)
    BY <1>8, <1>12, TurnSame
  <2>3. QED
    BY <2>1, <2>2
<1>14. Quiet
  BY <1>1, <1>12, <1>13, ProviderSame DEF Quiet
<1>15. QED
  BY <1>4, <1>9, <1>11, <1>14, QuietStep

LEMMA RenewStep ==
    ASSUME Inv, NEW w \in Workers, turn[w] # None, NEW r \in Runs,
           r = turn[w].lease.run, NEW row, RowKept(run[r], row),
           row.attempt \in Nat, row.gen = turn[w].lease.gen,
           NEW p \in {"ready", "opened", "reserved", "sent", "answered"},
           Renewed(w, r, row, p), Past,
           \/ p = "ready" \/ p = turn[w].phase
           \/ p = "answered" /\ turn[w].phase = "replied",
           UNCHANGED <<dispatched, binding, thread, cleaner>>
    PROVE  Inv'
<1>1. PICK new \in Turn :
        /\ turn' = [turn EXCEPT ![w] = new]
        /\ new.lease.run = turn[w].lease.run
        /\ new.lease.gen = turn[w].lease.gen
        /\ new.cursor = turn[w].cursor /\ new.auth = turn[w].auth
        /\ new.phase = p
  BY RenewedTurn
<1>2. \/ new.phase \notin Holding \cup {"created", "resume"}
      \/ new.phase = turn[w].phase
      \/ turn[w].phase \in After /\ new.phase \in After
  BY <1>1 DEF Holding, Before, After
<1>3. dispatched' \subseteq Runs
  BY DEF Inv, TypeOK
<1>4. QED
  BY <1>1, <1>2, <1>3, WorkerMoves

LEMMA StartStep ==
    ASSUME Inv, NEW w \in Workers, Start(w)
    PROVE  Inv'
<1>1. PICK r \in Runs : r = turn[w].lease.run
  BY FencedFacts DEF Start
<1> DEFINE row == [run[r] EXCEPT !.state = "Running", !.expiry = Ttl]
<1>2. /\ turn[w] # None /\ run[r] \in RunRow /\ run[r].attempt \in Nat
      /\ run[r].state # "Absent" /\ run[r].gen = turn[w].lease.gen
  BY <1>1, FencedFacts DEF Start
<1>4. "Running" \in States
  BY DEF States
<1>5. /\ RowKept(run[r], row) /\ row.gen = run[r].gen
      /\ row.attempt = run[r].attempt
  <2>1. row \in RunRow
    BY <1>2, <1>4, TicksFacts DEF RunRow
  <2>2. /\ row.state = "Running" /\ row.gen = run[r].gen
        /\ row.input = run[r].input /\ row.attempt = run[r].attempt
    BY <1>2 DEF RunRow
  <2> HIDE DEF row
  <2>3. QED
    BY <1>2, <1>4, <2>1, <2>2, RenewedRow
<1>6. Renewed(w, r, row, "ready") /\ messages' = messages
  BY <1>1 DEF Start
<1> HIDE DEF row
<1>7. Past
  BY <1>5, <1>6, PastRow DEF Renewed
<1>8. UNCHANGED <<dispatched, binding, thread, cleaner>>
  BY DEF Start
<1>9. QED
  BY <1>1, <1>2, <1>5, <1>6, <1>7, <1>8, RenewStep

LEMMA HeartbeatStep ==
    ASSUME Inv, NEW w \in Workers, Heartbeat(w)
    PROVE  Inv'
<1>1. PICK r \in Runs : r = turn[w].lease.run
  BY FencedFacts DEF Heartbeat
<1> DEFINE row == [run[r] EXCEPT !.expiry = Ttl]
<1>2. /\ turn[w] # None /\ run[r] \in RunRow /\ run[r].attempt \in Nat
      /\ run[r].state \in States
      /\ run[r].state # "Absent" /\ run[r].gen = turn[w].lease.gen
  BY <1>1, FencedFacts DEF Heartbeat
<1>4. /\ RowKept(run[r], row) /\ row.gen = run[r].gen
      /\ row.attempt = run[r].attempt
  <2>1. row \in RunRow
    BY <1>2, TicksFacts DEF RunRow
  <2>2. /\ row.state = run[r].state /\ row.gen = run[r].gen
        /\ row.input = run[r].input /\ row.attempt = run[r].attempt
    BY <1>2 DEF RunRow
  <2> HIDE DEF row
  <2>3. QED
    BY <1>2, <2>1, <2>2, RenewedRow
<1>5. Renewed(w, r, row, turn[w].phase) /\ messages' = messages
  BY <1>1 DEF Heartbeat
<1> HIDE DEF row
<1>6. Past
  BY <1>4, <1>5, PastRow DEF Renewed
<1>7. UNCHANGED <<dispatched, binding, thread, cleaner>>
  BY DEF Heartbeat
<1>8. turn[w].phase \in {"ready", "opened", "reserved", "sent", "answered"}
  BY DEF Heartbeat, In
<1>9. QED
  BY <1>1, <1>2, <1>4, <1>5, <1>6, <1>7, <1>8, RenewStep

LEMMA AppendedPast ==
    ASSUME Inv, NEW r \in Runs, NEW row, RowKept(run[r], row),
           run' = [run EXCEPT ![r] = row],
           messages' = Append(messages, Answer(r))
    PROVE  Past
<1>1. run \in [Runs -> RunRow] /\ messages \in Seq(Message)
  BY DEF Inv, TypeOK
<1>2. Answer(r) \in Message /\ Answer(r).role # "user"
  BY DEF Answer, Message
<1>3. /\ run' \in [Runs -> RunRow]
      /\ \A q \in Runs : RowKept(run[q], run'[q])
  <2>1. \A q \in Runs : RowKept(run[q], run[q])
    BY <1>1, SameRow
  <2>2. run' \in [Runs -> RunRow]
    BY <1>1 DEF RowKept
  <2>3. QED
    BY <1>1, <2>1, <2>2
<1>4. /\ messages' \in Seq(Message) /\ Len(messages') = Len(messages) + 1
      /\ \A i \in 1..Len(messages) : messages'[i] = messages[i]
      /\ messages'[Len(messages) + 1] = Answer(r)
  BY <1>1, <1>2, AppendProperties
<1>5. /\ Len(messages) \in Nat
      /\ \A i \in 1..Len(messages) : messages[i].run \in Runs
  BY MessageTyped
<1>6. \A i \in 1..Len(messages') : messages'[i].role = "user" =>
        i \in 1..Len(messages) /\ messages'[i] = messages[i]
  BY <1>2, <1>4, <1>5
<1>7. OfRuns'
  BY <1>3, <1>5, <1>6 DEF Inv, Transcript, OfRuns, RowKept
<1>8. Distinct'
  <2> SUFFICES ASSUME NEW i \in 1..Len(messages'),
                      NEW j \in 1..Len(messages'),
                      messages'[i].role = "user",
                      messages'[i] = messages'[j]
               PROVE  i = j
    BY DEF Distinct
  <2>1. /\ i \in 1..Len(messages) /\ messages'[i] = messages[i]
        /\ j \in 1..Len(messages) /\ messages'[j] = messages[j]
    BY <1>6
  <2>2. QED
    BY <2>1 DEF Inv, Transcript, Distinct
<1>9. HasPrompt'
  <2> SUFFICES ASSUME NEW q \in Runs, run'[q].state # "Absent"
               PROVE  \E i \in 1..Len(messages') : messages'[i] = Prompt(q)'
    BY DEF HasPrompt
  <2>1. run[q].state # "Absent" /\ Prompt(q)' = Prompt(q)
    BY <1>3 DEF Prompt, RowKept
  <2>2. PICK i \in 1..Len(messages) : messages[i] = Prompt(q)
    BY <2>1 DEF Inv, Transcript, HasPrompt
  <2>3. i \in 1..Len(messages')
    BY <1>4, <1>5
  <2>4. QED
    BY <1>4, <2>1, <2>2, <2>3
<1>10. QED
  BY <1>3, <1>4, <1>5, <1>7, <1>8, <1>9 DEF Past, Transcript, RowKept

LEMMA AppendProviderOutputStep ==
    ASSUME Inv, NEW w \in Workers, NEW lag \in 0..MaxLag,
           AppendProviderOutput(w, lag)
    PROVE  Inv'
<1>1. PICK r \in Runs : r = turn[w].lease.run
  BY FencedFacts DEF AppendProviderOutput
<1> DEFINE c == [kind |-> "output", gen |-> turn[w].lease.gen, turns |-> 1]
           row == [run[r] EXCEPT !.expiry = Ttl - lag, !.ckpt = c]
<1>2. /\ turn[w] # None /\ run[r] \in RunRow /\ run[r].attempt \in Nat
      /\ run[r].state \in States
      /\ run[r].state # "Absent" /\ run[r].gen = turn[w].lease.gen
  BY <1>1, FencedFacts DEF AppendProviderOutput
<1>3. c \in Checkpoint \cup {None}
  <2>1. turn[w].lease.gen \in Nat
    BY <1>2 DEF RunRow
  <2>2. QED
    BY <2>1 DEF Checkpoint
<1>4. /\ Renewed(w, r, row, "answered")
      /\ messages' = Append(messages, Answer(r))
  BY <1>1 DEF AppendProviderOutput
<1> HIDE DEF c
<1>6. /\ RowKept(run[r], row) /\ row.gen = run[r].gen
      /\ row.attempt = run[r].attempt
  <2>1. row \in RunRow
    BY <1>2, <1>3, TicksFacts DEF RunRow
  <2>2. /\ row.state = run[r].state /\ row.gen = run[r].gen
        /\ row.input = run[r].input /\ row.attempt = run[r].attempt
    BY <1>2 DEF RunRow
  <2> HIDE DEF row
  <2>3. QED
    BY <1>2, <2>1, <2>2, RenewedRow
<1> HIDE DEF row
<1>7. Past
  BY <1>4, <1>6, AppendedPast DEF Renewed
<1>8. UNCHANGED <<dispatched, binding, thread, cleaner>>
  BY DEF AppendProviderOutput
<1>9. turn[w].phase = "replied"
  BY DEF AppendProviderOutput, In
<1>10. QED
  BY <1>1, <1>2, <1>4, <1>6, <1>7, <1>8, <1>9, RenewStep

LEMMA RecoverExpiredLeaseStep ==
    ASSUME Inv, NEW r \in Runs, NEW lag \in 0..MaxLag,
           RecoverExpiredLease(r, lag)
    PROVE  Inv'
<1>1. run[r] \in RunRow
  BY DEF Inv, TypeOK
<1>2. PICK row : run' = [run EXCEPT ![r] = row] /\ RowKept(run[r], row)
  BY <1>1, RecoveredRow
<1>3. UNCHANGED <<dispatched, messages, binding, thread, turn, cleaner>>
  BY DEF RecoverExpiredLease
<1>4. Past
  BY <1>2, <1>3, PastRow
<1>5. QED
  BY <1>3, <1>4, RowsOnly

(* A worker that goes on to phase p.                                       *)
LEMMA PhaseTurn ==
    ASSUME Inv, NEW w \in Workers, turn[w] # None,
           NEW p \in {"opened", "reserved", "refused", "sent", "replied",
                      "finished"}
    PROVE  \E new \in Turn :
             /\ [turn[w] EXCEPT !.phase = p] = new
             /\ new.lease = turn[w].lease /\ new.phase = p
             /\ new.cursor = turn[w].cursor /\ new.auth = turn[w].auth
<1> DEFINE new == [turn[w] EXCEPT !.phase = p]
<1>1. turn \in [Workers -> Turn \cup {None}] /\ turn[w] \in Turn
  BY TurnTyped DEF Inv, TypeOK
<1>3. new \in Turn
  BY <1>1 DEF Turn
<1>4. /\ new.lease = turn[w].lease /\ new.phase = p
      /\ new.cursor = turn[w].cursor /\ new.auth = turn[w].auth
  BY <1>1 DEF Turn
<1>5. [turn[w] EXCEPT !.phase = p] = new
  OBVIOUS
<1> HIDE DEF new
<1>6. QED
  BY <1>3, <1>4, <1>5

LEMMA PhaseStep ==
    ASSUME Inv, NEW w \in Workers, turn[w] # None,
           NEW p \in {"opened", "reserved", "refused", "replied"},
           turn' = [turn EXCEPT ![w].phase = p],
           \/ turn[w].phase \in Before /\ p \in Before
           \/ /\ turn[w].phase = "sent" /\ p = "replied"
              /\ thread[turn[w].cursor].pending = None,
           dispatched' \subseteq Runs,
           UNCHANGED <<run, messages, binding, thread, cleaner>>
    PROVE  Inv'
<1>1. Past
  BY PastSame
<1>2. PICK new \in Turn :
        /\ [turn[w] EXCEPT !.phase = p] = new
        /\ new.lease = turn[w].lease /\ new.phase = p
        /\ new.cursor = turn[w].cursor /\ new.auth = turn[w].auth
  BY PhaseTurn
<1>3. turn' = [turn EXCEPT ![w] = new]
  <2>1. turn \in [Workers -> Turn \cup {None}]
    BY DEF Inv, TypeOK
  <2>2. turn' = [turn EXCEPT ![w] = [turn[w] EXCEPT !.phase = p]]
    BY <2>1
  <2>3. QED
    BY <1>2, <2>2
<1>4. \/ turn[w].phase \in Before /\ new.phase \in Before
      \/ /\ turn[w].phase = "sent" /\ new.phase \in After
         /\ thread[turn[w].cursor].pending = None
  BY <1>2 DEF After
<1>5. QED
  BY <1>1, <1>2, <1>3, <1>4, WorkerMoves

LEMMA OpenForRunStep ==
    ASSUME Inv, NEW w \in Workers, NEW lag, OpenForRun(w, lag)
    PROVE  Inv'
<1>1. /\ turn[w] # None /\ turn[w].phase \in Before /\ "opened" \in Before
      /\ turn' = [turn EXCEPT ![w].phase = "opened"]
      /\ UNCHANGED <<run, messages, binding, thread, cleaner>>
      /\ dispatched' \subseteq Runs
  BY DEF OpenForRun, In, Before, Inv, TypeOK
<1>2. QED
  BY <1>1, PhaseStep

LEMMA ReserveStep ==
    ASSUME Inv, NEW w \in Workers, NEW lag, Reserve(w, lag)
    PROVE  Inv'
<1>1. /\ turn[w] # None /\ turn[w].phase \in Before /\ "reserved" \in Before
      /\ turn' = [turn EXCEPT ![w].phase = "reserved"]
      /\ UNCHANGED <<run, messages, binding, thread, cleaner>>
      /\ dispatched' = dispatched \cup {turn[w].lease.run}
  BY DEF Reserve, In, Before
<1>2. turn[w].lease.run \in Runs
  BY <1>1, TurnTyped DEF Inv
<1>3. dispatched' \subseteq Runs
  BY <1>1, <1>2 DEF Inv, TypeOK
<1>4. QED
  BY <1>1, <1>3, PhaseStep

LEMMA ReleaseUnusedStep ==
    ASSUME Inv, NEW w \in Workers, NEW lag, ReleaseUnused(w, lag)
    PROVE  Inv'
<1>1. /\ turn[w] # None /\ turn[w].phase \in Before /\ "refused" \in Before
      /\ turn' = [turn EXCEPT ![w].phase = "refused"]
      /\ UNCHANGED <<run, messages, binding, thread, cleaner>>
      /\ dispatched' \subseteq dispatched
  BY DEF ReleaseUnused, In, Before
<1>2. dispatched' \subseteq Runs
  BY <1>1 DEF Inv, TypeOK
<1>3. QED
  BY <1>1, <1>2, PhaseStep

LEMMA ReceiveReplyStep ==
    ASSUME Inv, NEW w \in Workers, ReceiveReply(w)
    PROVE  Inv'
<1>1. /\ turn[w] # None /\ turn[w].phase = "sent"
      /\ thread[turn[w].cursor].pending = None
      /\ turn' = [turn EXCEPT ![w].phase = "replied"]
      /\ UNCHANGED <<run, messages, binding, thread, cleaner>>
      /\ dispatched' \subseteq Runs
  BY DEF ReceiveReply, In, Inv, TypeOK
<1>2. QED
  BY <1>1, PhaseStep

LEMMA CrashStep ==
    ASSUME Inv, NEW w \in Workers, Crash(w)
    PROVE  Inv'
<1>1. Past
  BY PastSame DEF Crash
<1>2. QED
  BY <1>1, WorkerDrops, ProviderSame DEF Crash, Inv, TypeOK

LEMMA FinishStep ==
    ASSUME Inv, NEW w \in Workers, NEW s \in Closing, NEW err \in ErrorCodes,
           NEW lag \in 0..MaxLag, Finish(w, s, err, lag)
    PROVE  Inv'
<1>1. PICK r \in Runs : r = turn[w].lease.run
  BY FencedFacts DEF Finish
<1>2. turn[w] # None /\ run[r] \in RunRow /\ run[r].state # "Absent"
  BY <1>1, FencedFacts DEF Finish
<1>3. RowKept(run[r], Closed(run[r], s, err))
  BY <1>2, ClosedRow
<1>4. /\ run' = [run EXCEPT ![r] = Closed(run[r], s, err)]
      /\ messages' = messages
      /\ UNCHANGED <<dispatched, binding, thread, cleaner>>
  BY <1>1 DEF Finish
<1>5. Past
  BY <1>3, <1>4, PastRow
<1>6. CASE s = "Completed"
  <2>1. PICK new \in Turn :
          /\ [turn[w] EXCEPT !.phase = "finished"] = new
          /\ new.lease = turn[w].lease /\ new.phase = "finished"
          /\ new.cursor = turn[w].cursor /\ new.auth = turn[w].auth
    BY <1>2, PhaseTurn
  <2>2. turn' = [turn EXCEPT ![w] = new]
    BY <1>6, <2>1 DEF Finish
  <2>3. turn[w].phase \in After /\ new.phase \in After
    BY <1>6, <2>1 DEF Finish, In, After
  <2>4. dispatched' \subseteq Runs
    BY <1>4 DEF Inv, TypeOK
  <2>5. QED
    BY <1>2, <1>4, <1>5, <2>1, <2>2, <2>3, <2>4, WorkerMoves
<1>7. CASE s # "Completed"
  <2>1. turn' = [turn EXCEPT ![w] = None]
    BY <1>7 DEF Finish
  <2>2. QED
    BY <1>4, <1>5, <2>1, WorkerDrops, ProviderSame DEF Inv, TypeOK
<1>8. QED
  BY <1>6, <1>7

LEMMA ScheduleRetryStep ==
    ASSUME Inv, NEW w \in Workers, NEW lag \in 0..MaxLag,
           ScheduleRetry(w, lag)
    PROVE  Inv'
<1>1. PICK r \in Runs : r = turn[w].lease.run
  BY FencedFacts DEF ScheduleRetry
<1>2. /\ run[r] \in RunRow /\ run[r].state # "Absent"
      /\ run[r].retries < MaxRetries
  BY <1>1, FencedFacts DEF ScheduleRetry
<1>3. RowKept(run[r], Requeued(run[r], "other", RetryDelay - lag))
  BY <1>2, TicksFacts, RequeuedRow
<1>4. Past
  BY <1>1, <1>3, PastRow DEF ScheduleRetry
<1>5. QED
  BY <1>4, WorkerDrops, ProviderSame DEF ScheduleRetry, Inv, TypeOK

-----------------------------------------------------------------------------
(* The operations on the binding that take it away from a claim, or leave  *)
(* it.                                                                     *)
LEMMA CleanupRequiredType ==
    ASSUME NEW b \in Binding, NEW reason \in {"pre", "other"}, NEW r \in Runs
    PROVE  /\ CleanupRequired(b, reason, r) \in Binding
           /\ CleanupRequired(b, reason, r).state \in Cleaning
           /\ CleanupRequired(b, reason, r).cursor = b.cursor
<1> DEFINE new == CleanupRequired(b, reason, r)
<1>1. "cleanup_required" \in BindingStates
  BY DEF BindingStates
<1>2. new \in Binding
  BY <1>1, TicksFacts, ZenonT(40) DEF CleanupRequired, Binding
<1>3. new.state = "cleanup_required" /\ new.cursor = b.cursor
  BY DEF CleanupRequired, Binding
<1>4. QED
  BY <1>2, <1>3 DEF Cleaning

LEMMA CleanupRequiredKept ==
    ASSUME Inv, binding # None, NEW reason \in {"pre", "other"},
           NEW r \in Runs, binding' = CleanupRequired(binding, reason, r)
    PROVE  BindingKept /\ binding' \in Binding /\ binding'.state \in Cleaning
<1>1. binding \in Binding
  BY DEF Inv, TypeOK
<1>2. /\ binding' \in Binding /\ binding'.state \in Cleaning
      /\ binding'.cursor = binding.cursor
  BY <1>1, CleanupRequiredType
<1>3. binding' # None
  BY <1>2, BindingAssumption
<1>4. QED
  BY <1>2, <1>3 DEF BindingKept

LEMMA LeastFacts ==
    ASSUME NEW a \in Ticks, NEW b \in Ticks
    PROVE  Least(a, b) \in Ticks
  BY DEF Least

LEMMA HeartbeatClaimStep ==
    ASSUME Inv, NEW w \in Workers, NEW lag \in 0..MaxLag,
           HeartbeatClaim(w, lag)
    PROVE  Inv'
<1> DEFINE e == Least(ClaimTtl - lag, run[turn[w].lease.run].expiry)
<1>1. /\ Fenced(w, lag) /\ binding # None
      /\ binding' = [binding EXCEPT !.claimExpiry = e]
      /\ UNCHANGED <<run, dispatched, messages, thread, turn, cleaner>>
  BY DEF HeartbeatClaim, ActiveClaim, ClaimRecorded
<1>2. e \in Ticks
  BY <1>1, FencedFacts, TicksFacts, LeastFacts
<1> HIDE DEF e
<1>3. binding \in Binding
  BY <1>1 DEF Inv, TypeOK
<1>4. binding' \in Binding
  BY <1>1, <1>2, <1>3 DEF Binding
<1>5. binding'.cursor = binding.cursor /\ SameClaim
  BY <1>1, <1>3 DEF Binding, SameClaim
<1>6. binding' # None
  BY <1>4, BindingAssumption
<1>7. BindingKept
  BY <1>1, <1>5, <1>6 DEF BindingKept
<1>8. Past
  BY <1>1, PastSame
<1>9. QED
  BY <1>1, <1>4, <1>7, <1>8, NoTurn, ProviderSame DEF Inv, TypeOK

LEMMA DispositionFacts ==
    ASSUME NEW r \in Runs, NEW same \in BOOLEAN
    PROVE  /\ Disposition(binding, r, same)
                \in {"New", "Resume", "Reset", "RebindAllowed", "Unavailable"}
           /\ Disposition(binding, r, same)
                \in {"Resume", "Reset", "RebindAllowed"} => binding # None
<1>1. CASE binding = None
  <2>1. Disposition(binding, r, same) = "New"
    BY <1>1, Zenon DEF Disposition
  <2>2. QED
    BY <2>1
<1>2. CASE binding # None /\ binding.state = "active"
  <2>1. binding.state # "deleted"
    BY <1>2
  <2>2. Disposition(binding, r, same) =
          IF same /\ Resumable(binding, r) THEN "Resume" ELSE "Reset"
    BY <1>2, <2>1, Zenon DEF Disposition
  <2>3. QED
    BY <1>2, <2>2
<1>3. CASE binding # None /\ binding.state = "deleted"
  <2>1. binding.state # "active"
    BY <1>3
  <2>2. Disposition(binding, r, same) =
          IF binding.lastRun # r \/ (binding.reason = "pre"
                                       /\ r \notin dispatched)
          THEN "RebindAllowed" ELSE "Unavailable"
    BY <1>3, <2>1, Zenon DEF Disposition
  <2>3. QED
    BY <1>3, <2>2
<1>4. CASE binding # None /\ binding.state \notin {"active", "deleted"}
  <2>1. binding.state # "active" /\ binding.state # "deleted"
    BY <1>4
  <2>2. Disposition(binding, r, same) = "Unavailable"
    BY <1>4, <2>1, Zenon DEF Disposition
  <2>3. QED
    BY <1>4, <2>2
<1>5. QED
  BY <1>1, <1>2, <1>3, <1>4

LEMMA DispositionForRunStep ==
    ASSUME Inv, NEW w \in Workers, NEW lag, NEW same \in BOOLEAN,
           DispositionForRun(w, lag, same)
    PROVE  Inv'
<1>1. PICK r \in Runs : r = turn[w].lease.run
  BY FencedFacts DEF DispositionForRun, TurnFenced
<1> DEFINE d == Disposition(binding, r, same)
           p == CASE d = "Resume" -> "resume"
                  [] d \in {"New", "RebindAllowed"} -> "create"
                  [] d \in {"Reset", "Unavailable"} -> "deferred"
           a == IF d = "RebindAllowed" THEN binding.cleanupGen ELSE None
           new == [turn[w] EXCEPT !.phase = p, !.auth = a]
<1>2. /\ turn[w] # None
      /\ binding' = IF d = "Reset" THEN CleanupRequired(binding, "pre", r)
                                   ELSE binding
      /\ turn' = [turn EXCEPT ![w].phase = p, ![w].auth = a]
      /\ UNCHANGED <<run, dispatched, messages, thread, cleaner>>
  BY <1>1 DEF DispositionForRun, In
<1>3. /\ d \in {"New", "Resume", "Reset", "RebindAllowed", "Unavailable"}
      /\ d \in {"Resume", "Reset", "RebindAllowed"} => binding # None
  BY DispositionFacts
<1> HIDE DEF d
<1>4. /\ p \in {"resume", "create", "deferred"}
      /\ p = "resume" => d = "Resume"
  <2>1. CASE d = "Resume"
    <3>1. p = "resume"
      BY <2>1, Zenon
    <3>2. QED
      BY <2>1, <3>1
  <2>2. CASE d \in {"New", "RebindAllowed"}
    <3>1. d # "Resume" /\ d \notin {"Reset", "Unavailable"}
      BY <2>2
    <3>2. p = "create"
      BY <2>2, <3>1, Zenon
    <3>3. QED
      BY <3>2
  <2>3. CASE d \in {"Reset", "Unavailable"}
    <3>1. d # "Resume" /\ d \notin {"New", "RebindAllowed"}
      BY <2>3
    <3>2. p = "deferred"
      BY <2>3, <3>1, Zenon
    <3>3. QED
      BY <3>2
  <2>4. QED
    BY <1>3, <2>1, <2>2, <2>3
<1>5. /\ a \in Nat \cup {None}
      /\ a # None => binding # None
  BY <1>3 DEF Inv, TypeOK, Binding
<1> HIDE DEF p, a
<1>6. turn \in [Workers -> Turn \cup {None}] /\ turn[w] \in Turn
  BY <1>2, TurnTyped DEF Inv, TypeOK
<1>7. turn' = [turn EXCEPT ![w] = new]
  BY <1>2, <1>6
<1>8. new \in Turn
  BY <1>4, <1>5, <1>6 DEF Turn
<1>9. /\ new.lease = turn[w].lease /\ new.phase = p /\ new.auth = a
      /\ new.cursor = turn[w].cursor
  BY <1>6 DEF Turn
<1> HIDE DEF new
<1>10. /\ BindingKept /\ binding' \in Binding \cup {None}
       /\ binding # None => binding' # None
  <2>1. CASE d = "Reset"
    <3>1. binding' = CleanupRequired(binding, "pre", r) /\ binding # None
      BY <1>2, <1>3, <2>1
    <3>2. BindingKept /\ binding' \in Binding
      BY <3>1, CleanupRequiredKept
    <3>3. QED
      BY <3>2 DEF BindingKept
  <2>2. CASE d # "Reset"
    BY <1>2, <2>2, ProviderSame DEF Inv, TypeOK
  <2>3. QED
    BY <2>1, <2>2
<1>11. turn'[w] = new
  BY <1>6, <1>7
<1>12. TurnKept(w)
  <2>1. new.phase \notin Holding \cup {"created"}
    BY <1>4, <1>9 DEF Holding, Before, After
  <2>2. (new.phase = "resume" \/ new.auth # None) => binding' # None
    <3>1. d = "Resume" => binding # None
      BY <1>3
    <3>2. QED
      BY <1>4, <1>5, <1>9, <1>10, <3>1
  <2>3. QED
    BY <1>2, <1>9, <1>11, <2>1, <2>2 DEF TurnKept
<1>13. Past
  BY <1>2, PastSame
<1>14. QED
  BY <1>2, <1>7, <1>8, <1>9, <1>10, <1>12, <1>13, OneTurn, ProviderSame
     DEF Inv, TypeOK

(* A thread that nobody trusts is discarded.                               *)
LEMMA Discard ==
    ASSUME Inv, NEW t \in Threads, thread' = [thread EXCEPT ![t] = Gone],
           \A w \in Workers : In(w, {"created"})' => turn'[w].cursor # t,
           (binding' # None /\ binding'.cursor = t) =>
             binding'.state \in Cleaning \/ thread[t].state = "gone"
    PROVE  /\ \A u \in Threads : ThreadKept(u)
           /\ thread' \in [Threads -> Thread]
<1>1. thread \in [Threads -> Thread]
  BY DEF Inv, TypeOK
<1>2. Gone \in Thread
  <2>1. <<>> \in Seq(Message)
    BY EmptySeq
  <2>2. QED
    BY <2>1 DEF Gone, Thread
<1>3. thread'[t] = Gone /\ \A u \in Threads \ {t} : thread'[u] = thread[u]
  BY <1>1
<1>4. ThreadKept(t)
  BY <1>3 DEF ThreadKept
<1>5. \A u \in Threads \ {t} : ThreadKept(u)
  BY <1>3 DEF ThreadKept
<1>6. thread' \in [Threads -> Thread]
  BY <1>1, <1>2
<1>7. QED
  BY <1>4, <1>5, <1>6

LEMMA BindFailedStep ==
    ASSUME Inv, NEW w \in Workers, NEW discarded \in BOOLEAN,
           NEW deferred \in BOOLEAN, BindFailed(w, discarded, deferred)
    PROVE  Inv'
<1>1. PICK p \in {"deferred", "failed"} :
        turn' = [turn EXCEPT ![w] = Bare(turn[w].lease, p)]
  BY DEF BindFailed
<1>2. /\ turn[w] # None
      /\ UNCHANGED <<run, dispatched, messages, binding, cleaner>>
  BY DEF BindFailed, In
<1>3. Past
  BY <1>2, PastSame
<1>4. /\ \A t \in Threads : ThreadKept(t)
      /\ thread' \in [Threads -> Thread]
  <2>1. CASE discarded
    <3>1. In(w, {"created"}) /\ OwnThread(w)
      BY <2>1 DEF BindFailed, In, Inv, Turns
    <3>2. PICK t \in Threads :
            /\ t = turn[w].cursor
            /\ binding # None => binding.cursor # t
            /\ \A v \in Workers \ {w} : turn[v] # None => turn[v].cursor # t
      BY <3>1 DEF OwnThread
    <3>3. thread' = [thread EXCEPT ![t] = Gone]
      BY <2>1, <3>2 DEF BindFailed
    <3>4. /\ turn'[w] = Bare(turn[w].lease, p)
          /\ \A v \in Workers \ {w} : turn'[v] = turn[v]
      BY <1>1 DEF Inv, TypeOK
    <3>5. turn'[w].phase # "created"
      BY <3>4 DEF Bare
    <3>6. \A v \in Workers : In(v, {"created"})' => turn'[v].cursor # t
      BY <3>2, <3>4, <3>5 DEF In
    <3>7. ~(binding' # None /\ binding'.cursor = t)
      BY <1>2, <3>2
    <3>8. QED
      BY <3>3, <3>6, <3>7, Discard
  <2>2. CASE ~discarded
    <3>1. thread' = thread
      BY <2>2 DEF BindFailed
    <3>2. QED
      BY <3>1, ProviderSame DEF Inv, TypeOK
  <2>3. QED
    BY <2>1, <2>2
<1>5. BindingKept /\ binding' \in Binding \cup {None}
  BY <1>2, ProviderSame DEF Inv, TypeOK
<1>6. QED
  BY <1>1, <1>2, <1>3, <1>4, <1>5, WorkerRests

LEMMA RequireCleanupStep ==
    ASSUME Inv, NEW w \in Workers, RequireCleanup(w)
    PROVE  Inv'
<1>1. /\ turn[w] # None /\ In(w, Holding) /\ binding # None
      /\ binding' = CleanupRequired(binding, "other", turn[w].lease.run)
      /\ UNCHANGED <<run, dispatched, messages, cleaner>>
  BY DEF RequireCleanup, In, Holding, Before, After, ClaimRecorded
<1>2. turn[w].lease.run \in Runs
  BY <1>1, TurnTyped DEF Inv
<1>3. BindingKept /\ binding' \in Binding /\ binding'.state \in Cleaning
  BY <1>1, <1>2, CleanupRequiredKept
<1>4. Past
  BY <1>1, PastSame
<1>5. PICK new :
        /\ turn' = [turn EXCEPT ![w] = new]
        /\ \/ new = None
           \/ \E p \in {"deferred", "failed"} : new = Bare(turn[w].lease, p)
  BY DEF RequireCleanup
<1>6. /\ turn'[w] = new /\ \A v \in Workers \ {w} : turn'[v] = turn[v]
  BY <1>5 DEF Inv, TypeOK
<1>7. turn'[w] # None => turn'[w].phase # "created"
  BY <1>5, <1>6 DEF Bare
<1>8. /\ \A t \in Threads : ThreadKept(t)
      /\ thread' \in [Threads -> Thread]
  <2>1. CASE turn[w].new /\ turn[w].phase = "claimed"
    <3>1. PICK t \in Threads : t = turn[w].cursor
      BY <1>1 DEF Inv, Turns, Anchored
    <3>2. thread' = [thread EXCEPT ![t] = Gone]
      BY <2>1, <3>1 DEF RequireCleanup
    <3>3. ASSUME NEW v \in Workers, In(v, {"created"})'
          PROVE  turn'[v].cursor # t
      <4>1. v # w /\ turn'[v] = turn[v]
        BY <1>6, <1>7, <3>3 DEF In
      <4>2. OwnThread(v) /\ In(v, {"created"})
        BY <3>3, <4>1 DEF In, Inv, Turns
      <4>3. turn[w].cursor # turn[v].cursor
        BY <1>1, <4>1, <4>2 DEF OwnThread
      <4>4. QED
        BY <3>1, <4>1, <4>3
    <3>4. QED
      BY <1>3, <3>2, <3>3, Discard
  <2>2. CASE ~(turn[w].new /\ turn[w].phase = "claimed")
    <3>1. thread' = thread
      BY <2>2 DEF RequireCleanup
    <3>2. QED
      BY <3>1, ProviderSame DEF Inv, TypeOK
  <2>3. QED
    BY <2>1, <2>2
<1>9. CASE new = None
  BY <1>1, <1>3, <1>4, <1>5, <1>8, <1>9, WorkerDrops
<1>10. CASE \E p \in {"deferred", "failed"} : new = Bare(turn[w].lease, p)
  BY <1>1, <1>3, <1>4, <1>5, <1>8, <1>10, WorkerRests
<1>11. QED
  BY <1>5, <1>9, <1>10

LEMMA RequireCleanupForRunStep ==
    ASSUME Inv, NEW w \in Workers, RequireCleanupForRun(w)
    PROVE  Inv'
<1>1. /\ turn[w] # None /\ binding # None
      /\ binding' = CleanupRequired(binding, "other", turn[w].lease.run)
      /\ turn' = [turn EXCEPT ![w] = None]
      /\ UNCHANGED <<run, dispatched, messages, thread, cleaner>>
  BY DEF RequireCleanupForRun, InterruptedClaim
<1>2. turn[w].lease.run \in Runs
  BY <1>1, TurnTyped DEF Inv
<1>3. BindingKept /\ binding' \in Binding
  BY <1>1, <1>2, CleanupRequiredKept
<1>4. Past
  BY <1>1, PastSame
<1>5. QED
  BY <1>1, <1>3, <1>4, WorkerDrops, ProviderSame DEF Inv, TypeOK

-----------------------------------------------------------------------------
(* The cleaners, and time.                                                 *)
LEMMA OneCleaner ==
    ASSUME Inv, Past, NEW c \in Cleaners, NEW new \in Cleanup \cup {None},
           cleaner' = [cleaner EXCEPT ![c] = new], CleanerKept(c),
           \A t \in Threads : ThreadKept(t), BindingKept,
           thread' \in [Threads -> Thread],
           binding' \in Binding \cup {None},
           turn' = turn, dispatched' = dispatched
    PROVE  Inv'
<1>1. cleaner \in [Cleaners -> Cleanup \cup {None}]
  BY DEF Inv, TypeOK
<1>2. cleaner' \in [Cleaners -> Cleanup \cup {None}]
  BY <1>1
<1>3. \A d \in Cleaners \ {c} : CleanerKept(d)
  BY <1>1 DEF CleanerKept
<1>4. QED
  BY <1>2, <1>3, NoTurn

LEMMA CleanerDrops ==
    ASSUME Inv, NEW c \in Cleaners, cleaner' = [cleaner EXCEPT ![c] = None],
           BindingKept, binding' \in Binding \cup {None},
           UNCHANGED <<run, dispatched, messages, thread, turn>>
    PROVE  Inv'
<1>1. cleaner'[c] = None
  BY DEF Inv, TypeOK
<1>2. CleanerKept(c)
  BY <1>1 DEF CleanerKept
<1>3. Past
  BY PastSame
<1>4. QED
  BY <1>2, <1>3, OneCleaner, ProviderSame DEF Inv, TypeOK

LEMMA LoseCleanupStep ==
    ASSUME Inv, NEW c \in Cleaners, LoseCleanup(c) \/ CrashCleaner(c)
    PROVE  Inv'
  BY CleanerDrops, ProviderSame DEF LoseCleanup, CrashCleaner, Inv, TypeOK

LEMMA CleanerPhase ==
    ASSUME Inv, NEW c \in Cleaners, cleaner[c] # None,
           NEW p \in {"opened", "absent"},
           cleaner' = [cleaner EXCEPT ![c].phase = p]
    PROVE  \E new \in Cleanup :
             /\ cleaner' = [cleaner EXCEPT ![c] = new] /\ cleaner'[c] = new
             /\ new.cursor = cleaner[c].cursor /\ new.phase = p
<1> DEFINE new == [cleaner[c] EXCEPT !.phase = p]
<1>1. /\ cleaner \in [Cleaners -> Cleanup \cup {None}]
      /\ cleaner[c] \in Cleanup
  BY DEF Inv, TypeOK
<1>2. cleaner' = [cleaner EXCEPT ![c] = new] /\ cleaner'[c] = new
  BY <1>1
<1>3. new \in Cleanup
  BY <1>1 DEF Cleanup
<1>4. new.cursor = cleaner[c].cursor /\ new.phase = p
  BY <1>1 DEF Cleanup
<1> HIDE DEF new
<1>5. QED
  BY <1>2, <1>3, <1>4

LEMMA OpenForCleanupStep ==
    ASSUME Inv, NEW c \in Cleaners, NEW lag, OpenForCleanup(c, lag)
    PROVE  Inv'
<1>1. /\ cleaner[c] # None
      /\ cleaner' = [cleaner EXCEPT ![c].phase = "opened"]
      /\ UNCHANGED <<run, dispatched, messages, binding, thread, turn>>
  BY DEF OpenForCleanup
<1>2. PICK new \in Cleanup :
        /\ cleaner' = [cleaner EXCEPT ![c] = new] /\ cleaner'[c] = new
        /\ new.cursor = cleaner[c].cursor /\ new.phase = "opened"
  BY <1>1, CleanerPhase
<1>3. CleanerKept(c)
  BY <1>1, <1>2 DEF CleanerKept
<1>4. Past
  BY <1>1, PastSame
<1>5. QED
  BY <1>1, <1>2, <1>3, <1>4, OneCleaner, ProviderSame DEF Inv, TypeOK

LEMMA DeleteThreadStep ==
    ASSUME Inv, NEW c \in Cleaners, DeleteThread(c)
    PROVE  Inv'
<1>1. /\ cleaner[c] # None
      /\ cleaner' = [cleaner EXCEPT ![c].phase = "absent"]
      /\ thread' = [thread EXCEPT ![cleaner[c].cursor] = Gone]
      /\ UNCHANGED <<run, dispatched, messages, binding, turn>>
  BY DEF DeleteThread
<1>2. PICK new \in Cleanup :
        /\ cleaner' = [cleaner EXCEPT ![c] = new] /\ cleaner'[c] = new
        /\ new.cursor = cleaner[c].cursor /\ new.phase = "absent"
  BY <1>1, CleanerPhase
<1>3. PICK t \in Threads : t = cleaner[c].cursor
  BY <1>1 DEF Inv, TypeOK, Cleanup
<1>4. thread'[t].state = "gone"
  BY <1>1, <1>3, ThreadsFacts DEF Inv, TypeOK
<1>5. CleanerKept(c)
  BY <1>1, <1>2, <1>3, <1>4 DEF CleanerKept
<1>6. /\ \A u \in Threads : ThreadKept(u)
      /\ thread' \in [Threads -> Thread]
  <2>1. ASSUME NEW w \in Workers, In(w, {"created"})'
        PROVE  turn'[w].cursor # t
    <3>1. In(w, {"created"}) /\ OwnThread(w)
      BY <1>1, <2>1 DEF In, Inv, Turns
    <3>2. QED
      BY <1>1, <1>3, <3>1 DEF OwnThread
  <2>2. (binding' # None /\ binding'.cursor = t) =>
          binding'.state \in Cleaning \/ thread[t].state = "gone"
    BY <1>1, <1>3 DEF Inv, Swept, Sweeps
  <2>3. QED
    BY <1>1, <1>3, <2>1, <2>2, Discard
<1>7. Past
  BY <1>1, PastSame
<1>8. QED
  BY <1>1, <1>2, <1>5, <1>6, <1>7, OneCleaner, ProviderSame DEF Inv, TypeOK

LEMMA ExhaustedType ==
    ASSUME NEW b \in Binding
    PROVE  /\ Exhausted(b) \in Binding /\ Exhausted(b).cursor = b.cursor
           /\ Exhausted(b).state \in Cleaning
<1>1. "cleanup_exhausted" \in BindingStates
  BY DEF BindingStates
<1>2. Exhausted(b) \in Binding
  BY <1>1 DEF Exhausted, Binding
<1>3. /\ Exhausted(b).cursor = b.cursor
      /\ Exhausted(b).state = "cleanup_exhausted"
  BY DEF Exhausted, Binding
<1>4. QED
  BY <1>2, <1>3 DEF Cleaning

LEMMA InCleanupType ==
    ASSUME NEW b \in Binding, NEW c \in Cleaners, NEW lag \in 0..MaxLag,
           ~Spent(b)
    PROVE  /\ InCleanup(b, c, lag) \in Binding
           /\ InCleanup(b, c, lag).cursor = b.cursor
           /\ InCleanup(b, c, lag).state \in Cleaning
<1> DEFINE reason == IF b.reason # "none" THEN b.reason
                     ELSE IF b.state = "active" THEN "pre" ELSE "other"
           new == InCleanup(b, c, lag)
<1>1. /\ b.cleanups \in 0..(MaxCleanups + 1) /\ b.cleanupGen \in Nat
      /\ b.reason \in {"none", "pre", "other"}
  BY DEF Binding
<1>2. /\ b.cleanups + 1 \in 0..(MaxCleanups + 1) /\ b.cleanupGen + 1 \in Nat
      /\ CleanupTtl - lag \in Ticks
      /\ reason \in {"none", "pre", "other"}
  BY <1>1, SessionBoundsAssumption, TicksFacts DEF Spent
<1>3. new = [b EXCEPT !.state = "cleanup_in_progress", !.run = None,
              !.gen = None, !.owner = None, !.claimExpiry = None,
              !.cleanupOwner = c, !.cleanupGen = b.cleanupGen + 1,
              !.cleanups = b.cleanups + 1,
              !.cleanupExpiry = CleanupTtl - lag, !.next = None,
              !.lapsed = FALSE, !.reason = reason]
  BY DEF InCleanup, Binding
<1>4. "cleanup_in_progress" \in BindingStates /\ FALSE \in BOOLEAN
  BY DEF BindingStates
<1> HIDE DEF reason, new
<1>5. new \in Binding
  BY <1>2, <1>3, <1>4, ZenonT(60) DEF Binding
<1>6. new.cursor = b.cursor /\ new.state = "cleanup_in_progress"
  BY <1>3 DEF Binding
<1>7. QED
  BY <1>5, <1>6 DEF Cleaning, new

LEMMA TakenKept ==
    ASSUME Inv, binding # None, binding' \in Binding,
           binding'.cursor = binding.cursor, binding'.state \in Cleaning
    PROVE  BindingKept /\ binding' # None
  BY BindingAssumption DEF BindingKept

LEMMA ClaimCleanupStep ==
    ASSUME Inv, NEW c \in Cleaners, NEW lag \in 0..MaxLag,
           ClaimCleanup(c, lag)
    PROVE  Inv'
<1>1. /\ binding # None
      /\ UNCHANGED <<run, dispatched, messages, thread, turn>>
  BY DEF ClaimCleanup
<1>2. binding \in Binding
  BY <1>1 DEF Inv, TypeOK
<1>3. Past
  BY <1>1, PastSame
<1>4. CASE Spent(binding)
  <2>1. binding' = Exhausted(binding) /\ cleaner' = cleaner
    BY <1>4 DEF ClaimCleanup
  <2>2. BindingKept /\ binding' \in Binding
    BY <1>1, <1>2, <2>1, ExhaustedType, TakenKept
  <2>3. QED
    BY <1>1, <1>3, <2>1, <2>2, NoTurn, ProviderSame DEF Inv, TypeOK
<1>5. CASE ~Spent(binding)
  <2> DEFINE new == [gen |-> binding.cleanupGen + 1,
                     cursor |-> binding.cursor, phase |-> "claimed"]
  <2>1. /\ binding' = InCleanup(binding, c, lag)
        /\ cleaner' = [cleaner EXCEPT ![c] = new]
    BY <1>5 DEF ClaimCleanup
  <2>2. /\ binding' \in Binding /\ binding'.cursor = binding.cursor
        /\ binding'.state \in Cleaning
    BY <1>2, <1>5, <2>1, InCleanupType
  <2>3. BindingKept /\ binding' # None
    BY <1>1, <2>2, TakenKept
  <2>4. new \in Cleanup
    BY <1>2 DEF Binding, Cleanup
  <2>5. cleaner'[c] = new
    BY <2>1 DEF Inv, TypeOK
  <2>6. new.cursor = binding.cursor /\ new.phase = "claimed"
    OBVIOUS
  <2> HIDE DEF new
  <2>7. CleanerKept(c)
    BY <2>2, <2>3, <2>5, <2>6 DEF CleanerKept
  <2>8. QED
    BY <1>1, <1>3, <2>1, <2>2, <2>3, <2>4, <2>7, OneCleaner, ProviderSame
       DEF Inv, TypeOK
<1>6. QED
  BY <1>4, <1>5

LEMMA CompleteCleanupStep ==
    ASSUME Inv, NEW c \in Cleaners, NEW lag, CompleteCleanup(c, lag)
    PROVE  Inv'
<1>1. /\ cleaner[c] # None /\ cleaner[c].phase = "absent"
      /\ cleaner[c].cursor = binding.cursor
      /\ binding' = [binding EXCEPT !.state = "deleted",
                       !.cleanupOwner = None, !.cleanupExpiry = None,
                       !.next = None]
      /\ cleaner' = [cleaner EXCEPT ![c] = None]
      /\ UNCHANGED <<run, dispatched, messages, thread, turn>>
  BY DEF CompleteCleanup
<1>2. binding # None /\ thread[binding.cursor].state = "gone"
  BY <1>1 DEF Inv, Swept, Sweeps
<1>3. binding \in Binding
  BY <1>2 DEF Inv, TypeOK
<1>4. "deleted" \in BindingStates
  BY DEF BindingStates
<1>5. binding' \in Binding
  BY <1>1, <1>3, <1>4 DEF Binding
<1>6. binding'.state = "deleted" /\ binding'.cursor = binding.cursor
  BY <1>1, <1>3 DEF Binding
<1>7. BindingKept
  BY <1>1, <1>2, <1>5, <1>6, BindingAssumption DEF BindingKept
<1>8. QED
  BY <1>1, <1>5, <1>7, CleanerDrops

LEMMA ScheduleCleanupRetryStep ==
    ASSUME Inv, NEW c \in Cleaners, NEW lag \in 0..MaxLag,
           ScheduleCleanupRetry(c, lag)
    PROVE  Inv'
<1> DEFINE new == [binding EXCEPT !.state = "cleanup_backoff",
                     !.cleanupOwner = None, !.cleanupExpiry = None,
                     !.next = CleanupDelay - lag]
<1>1. /\ cleaner[c] # None
      /\ binding' = IF Spent(binding) THEN Exhausted(binding) ELSE new
      /\ cleaner' = [cleaner EXCEPT ![c] = None]
      /\ UNCHANGED <<run, dispatched, messages, thread, turn>>
  BY DEF ScheduleCleanupRetry
<1>2. binding # None /\ binding \in Binding
  BY <1>1 DEF Inv, TypeOK, Swept, Sweeps
<1>3. "cleanup_backoff" \in BindingStates
  BY DEF BindingStates
<1>4. new \in Binding
  BY <1>2, <1>3, TicksFacts DEF Binding
<1>5. new.state = "cleanup_backoff" /\ new.cursor = binding.cursor
  BY <1>2 DEF Binding
<1> HIDE DEF new
<1>6. /\ binding' \in Binding /\ binding'.cursor = binding.cursor
      /\ binding'.state \in Cleaning
  BY <1>1, <1>2, <1>4, <1>5, ExhaustedType DEF Cleaning
<1>7. BindingKept
  BY <1>2, <1>6, TakenKept
<1>8. QED
  BY <1>1, <1>6, <1>7, CleanerDrops

LEMMA LapseStep ==
    ASSUME Inv, Lapse
    PROVE  Inv'
<1>1. /\ binding # None /\ binding' = [binding EXCEPT !.lapsed = TRUE]
      /\ UNCHANGED <<run, dispatched, messages, thread, turn, cleaner>>
  BY DEF Lapse
<1>2. binding \in Binding
  BY <1>1 DEF Inv, TypeOK
<1>3. binding' \in Binding
  BY <1>1, <1>2 DEF Binding
<1>4. binding'.cursor = binding.cursor /\ SameClaim
  BY <1>1, <1>2 DEF Binding, SameClaim
<1>5. BindingKept
  BY <1>1, <1>3, <1>4, BindingAssumption DEF BindingKept
<1>6. Past
  BY <1>1, PastSame
<1>7. QED
  BY <1>1, <1>3, <1>5, <1>6, NoTurn, ProviderSame DEF Inv, TypeOK

LEMMA TickStep ==
    ASSUME Inv, Tick
    PROVE  Inv'
<1>1. /\ run' = [r \in Runs |-> RowLater(run[r])]
      /\ UNCHANGED <<dispatched, messages, thread, turn, cleaner>>
  BY DEF Tick
<1>2. \A r \in Runs : RowKept(run[r], RowLater(run[r]))
  BY RowLaterRow DEF Inv, TypeOK
<1>3. \A r \in Runs : RowLater(run[r]) \in RunRow
  BY <1>2 DEF RowKept
<1>4. run' \in [Runs -> RunRow] /\ \A r \in Runs : RowKept(run[r], run'[r])
  BY <1>1, <1>2, <1>3
<1>5. Past
  BY <1>1, <1>4, PastRows
<1>6. BindingKept /\ binding' \in Binding \cup {None}
  <2>1. CASE binding = None
    <3>1. binding' = binding
      BY <2>1 DEF Tick
    <3>2. QED
      BY <2>1, <3>1, ProviderSame
  <2>2. CASE binding # None
    <3>1. binding \in Binding
      BY <2>2 DEF Inv, TypeOK
    <3>2. /\ Sooner(binding.claimExpiry) \in Ticks \cup {None}
          /\ Sooner(binding.cleanupExpiry) \in Ticks \cup {None}
          /\ Sooner(binding.next) \in Ticks \cup {None}
      BY <3>1, TicksFacts DEF Binding
    <3>3. binding' = [binding EXCEPT
                        !.claimExpiry = Sooner(binding.claimExpiry),
                        !.cleanupExpiry = Sooner(binding.cleanupExpiry),
                        !.next = Sooner(binding.next)]
      BY <2>2, <3>1 DEF Tick, Binding
    <3>4. binding' \in Binding
      BY <3>1, <3>2, <3>3 DEF Binding
    <3>5. binding'.cursor = binding.cursor /\ SameClaim
      BY <3>1, <3>3 DEF Binding, SameClaim
    <3>6. QED
      BY <2>2, <3>4, <3>5, BindingAssumption DEF BindingKept
  <2>3. QED
    BY <2>1, <2>2
<1>7. QED
  BY <1>1, <1>5, <1>6, NoTurn, ProviderSame DEF Inv, TypeOK

-----------------------------------------------------------------------------
(* The steps that take or leave a claim and those that write into a        *)
(* thread: none of them changes a run or a message.                        *)
LEMMA InputStill ==
    ASSUME run' = run, messages' = messages, NEW r
    PROVE  InputSequence(r)' = InputSequence(r)
  BY DEF InputSequence, Prompt

(* A worker whose thread is not touched.                                   *)
LEMMA Bystander ==
    ASSUME Inv, run' = run, messages' = messages, NEW v \in Workers,
           turn'[v] = turn[v], NEW r \in Runs,
           In(v, Holding) =>
             thread'[turn[v].cursor] = thread[turn[v].cursor]
    PROVE  Unsent(v, r)' /\ Sent(v, r)' /\ Replied(v, r)'
<1>1. Unsent(v, r) /\ Sent(v, r) /\ Replied(v, r)
  BY DEF Inv, Turns
<1>2. PICK n : n = InputSequence(r)
  OBVIOUS
<1>3. n = InputSequence(r)'
  BY <1>2, InputStill
<1>4. Before \subseteq Holding /\ After \subseteq Holding /\ "sent" \in Holding
  BY DEF Holding
<1>5. Unsent(v, r)'
  <2> SUFFICES ASSUME At(v, r, Before)',
                      thread'[turn'[v].cursor].state = "live"
               PROVE  /\ thread'[turn[v].cursor].pending = None
                      /\ Knows(turn[v].cursor, n - 1)'
    BY <1>3 DEF Unsent
  <2>1. At(v, r, Before) /\ In(v, Holding)
    BY <1>4 DEF At, In
  <2>2. thread[turn[v].cursor].pending = None /\ Knows(turn[v].cursor, n - 1)
    BY <1>1, <1>2, <2>1 DEF Unsent
  <2>3. QED
    BY <2>1, <2>2 DEF Knows
<1>6. Sent(v, r)'
  <2> SUFFICES ASSUME At(v, r, {"sent"})',
                      thread'[turn'[v].cursor].state = "live"
               PROVE  \/ /\ thread'[turn[v].cursor].pending = r
                         /\ Knows(turn[v].cursor, n)'
                      \/ /\ thread'[turn[v].cursor].pending = None
                         /\ Heard(turn[v].cursor, n, r)'
    BY <1>3 DEF Sent
  <2>1. At(v, r, {"sent"}) /\ In(v, Holding)
    BY <1>4 DEF At, In
  <2>2. \/ thread[turn[v].cursor].pending = r /\ Knows(turn[v].cursor, n)
        \/ /\ thread[turn[v].cursor].pending = None
           /\ Heard(turn[v].cursor, n, r)
    BY <1>1, <1>2, <2>1 DEF Sent
  <2>3. QED
    BY <2>1, <2>2 DEF Knows, Heard, Answer
<1>7. Replied(v, r)'
  <2> SUFFICES ASSUME At(v, r, After)',
                      thread'[turn'[v].cursor].state = "live"
               PROVE  /\ thread'[turn[v].cursor].pending = None
                      /\ Heard(turn[v].cursor, n, r)'
    BY <1>3 DEF Replied
  <2>1. At(v, r, After) /\ In(v, Holding)
    BY <1>4 DEF At, In
  <2>2. /\ thread[turn[v].cursor].pending = None
        /\ Heard(turn[v].cursor, n, r)
    BY <1>1, <1>2, <2>1 DEF Replied
  <2>3. QED
    BY <2>1, <2>2 DEF Heard, Answer
<1>8. QED
  BY <1>5, <1>6, <1>7

(* Without a claim, and without a cleanup, nobody holds a thread that is   *)
(* alive.                                                                  *)
LEMMA Unclaimed ==
    ASSUME Inv, binding = None \/ binding.state \in {"active", "deleted"},
           NEW v \in Workers, In(v, Holding)
    PROVE  turn[v].cursor \in Threads /\ thread[turn[v].cursor].state = "gone"
  BY DEF Inv, Turns, Anchored, ClaimRecorded, Cleaning

LEMMA Unswept ==
    ASSUME Inv,
           binding = None \/ binding.state \in {"active", "claimed", "deleted"},
           NEW c \in Cleaners, cleaner[c] # None
    PROVE  /\ cleaner[c].cursor \in Threads
           /\ thread[cleaner[c].cursor].state = "gone"
<1>1. cleaner[c].cursor \in Threads
  BY DEF Inv, TypeOK, Cleanup
<1>2. QED
  BY <1>1 DEF Inv, Swept, Sweeps, Cleaning

(* The parts of the invariant that such a step has to establish.           *)
LEMMA TouchStep ==
    ASSUME Inv, run' = run, messages' = messages, dispatched' = dispatched,
           thread' \in [Threads -> Thread], binding' \in Binding \cup {None},
           turn' \in [Workers -> Turn \cup {None}], cleaner' = cleaner,
           \A v \in Workers : turn'[v] # None => SameLease(v),
           Named', Turns', Swept', Mirror', ContentNeverOrphaned'
    PROVE  Inv'
<1>1. Past
  BY PastSame
<1>2. TypeOK'
  BY <1>1 DEF Inv, TypeOK
<1>3. Leases'
  BY <1>1, LeasesKept
<1>4. QED
  BY <1>1, <1>2, <1>3 DEF Inv, Past

LEMMA OneTouched ==
    ASSUME Inv, NEW w \in Workers, NEW new \in Turn \cup {None},
           turn' = [turn EXCEPT ![w] = new]
    PROVE  /\ turn' \in [Workers -> Turn \cup {None}] /\ turn'[w] = new
           /\ \A v \in Workers \ {w} : turn'[v] = turn[v]
  BY DEF Inv, TypeOK

-----------------------------------------------------------------------------
LEMMA CreateThreadStep ==
    ASSUME Inv, NEW w \in Workers, NEW t \in Threads, CreateThread(w, t)
    PROVE  Inv'
<1> DEFINE new == [turn[w] EXCEPT !.phase = "created", !.cursor = t,
                                  !.new = TRUE]
           fresh == [thread[t] EXCEPT !.state = "live"]
<1>1. /\ turn[w] # None /\ thread[t].state = "none"
      /\ thread' = [thread EXCEPT ![t].state = "live"]
      /\ turn' = [turn EXCEPT ![w].phase = "created", ![w].cursor = t,
                              ![w].new = TRUE]
      /\ run' = run /\ messages' = messages /\ dispatched' = dispatched
      /\ binding' = binding /\ cleaner' = cleaner
  BY DEF CreateThread, In
<1>2. /\ turn \in [Workers -> Turn \cup {None}] /\ turn[w] \in Turn
      /\ thread \in [Threads -> Thread]
  BY <1>1, TurnTyped DEF Inv, TypeOK
<1>3. /\ turn' = [turn EXCEPT ![w] = new]
      /\ thread' = [thread EXCEPT ![t] = fresh]
  BY <1>1, <1>2
<1>4. new \in Turn
  BY <1>2 DEF Turn
<1>5. /\ new.lease = turn[w].lease /\ new.phase = "created"
      /\ new.cursor = t /\ new.auth = turn[w].auth
  BY <1>2 DEF Turn
<1>6. fresh \in Thread
  BY <1>2 DEF Thread
<1>7. fresh.state = "live" /\ fresh.log = <<>> /\ fresh.pending = None
  <2>1. BlankThread(t)
    BY DEF Inv, Named
  <2>2. /\ fresh.state = "live" /\ fresh.log = thread[t].log
        /\ fresh.pending = thread[t].pending
    BY <1>2 DEF Thread
  <2>3. QED
    BY <1>1, <2>1, <2>2 DEF BlankThread
<1> HIDE DEF new, fresh
<1>8. /\ turn' \in [Workers -> Turn \cup {None}] /\ turn'[w] = new
      /\ \A v \in Workers \ {w} : turn'[v] = turn[v]
  BY <1>3, <1>4, OneTouched
<1>9. /\ thread' \in [Threads -> Thread] /\ thread'[t] = fresh
      /\ \A u \in Threads \ {t} : thread'[u] = thread[u]
  BY <1>2, <1>3, <1>6
<1>10. binding # None => binding.cursor \in Threads \ {t}
  BY <1>1 DEF Inv, TypeOK, Binding, Named
<1>11. \A v \in Workers : turn[v] # None =>
         turn[v].cursor # t /\ turn[v].cursor \in Threads \cup {None}
  BY <1>1, TurnTyped, ThreadsFacts DEF Inv, Named
<1>12. \A c \in Cleaners : cleaner[c] # None =>
         cleaner[c].cursor \in Threads \ {t}
  BY <1>1 DEF Inv, TypeOK, Cleanup, Named
<1>13. Named'
  <2>1. \A u \in Threads : BlankThread(u)'
    BY <1>7, <1>9 DEF Inv, Named, BlankThread
  <2>2. \A v \in Workers : turn'[v] # None /\ turn'[v].cursor # None =>
          thread'[turn'[v].cursor].state # "none"
    BY <1>5, <1>7, <1>8, <1>9, <1>11 DEF Inv, Named
  <2>3. binding' # None => thread'[binding'.cursor].state # "none"
    BY <1>1, <1>9, <1>10 DEF Inv, Named
  <2>4. \A c \in Cleaners : cleaner'[c] # None =>
          thread'[cleaner'[c].cursor].state # "none"
    BY <1>1, <1>9, <1>12 DEF Inv, Named
  <2>5. QED
    BY <2>1, <2>2, <2>3, <2>4 DEF Named
<1>14. ASSUME NEW v \in Workers PROVE OwnThread(v)' /\ Awaits(v)'
  <2>1. CASE v = w
    <3>1. OwnThread(w)'
      <4>1. /\ turn'[w].cursor = t
            /\ thread'[t].state = "live" /\ thread'[t].log = <<>>
            /\ thread'[t].pending = None
        BY <1>5, <1>7, <1>8, <1>9
      <4>2. \A u \in Workers \ {w} : turn'[u] # None => turn'[u].cursor # t
        BY <1>8, <1>11
      <4>3. binding' # None => binding'.cursor # t
        BY <1>1, <1>10
      <4>4. \A c \in Cleaners : cleaner'[c] # None => cleaner'[c].cursor # t
        BY <1>1, <1>12
      <4>5. QED
        BY <4>1, <4>2, <4>3, <4>4 DEF OwnThread
    <3>2. Awaits(w)'
      BY <1>1, <1>5, <1>8 DEF Awaits, Inv, Turns
    <3>3. QED
      BY <2>1, <3>1, <3>2
  <2>2. CASE v # w
    <3>1. OwnThread(v) /\ Awaits(v) /\ turn'[v] = turn[v]
      BY <1>8, <2>2 DEF Inv, Turns
    <3>2. OwnThread(v)'
      <4> SUFFICES ASSUME In(v, {"created"})' PROVE OwnThread(v)'
        BY DEF OwnThread
      <4>1. In(v, {"created"})
        BY <3>1 DEF In
      <4>2. turn[v].cursor # t
        BY <1>11, <4>1 DEF In
      <4>3. \A u \in Workers \ {v} : turn'[u] # None =>
              turn'[u].cursor # turn[v].cursor
        BY <1>5, <1>8, <3>1, <4>1, <4>2 DEF OwnThread
      <4>4. QED
        BY <1>1, <1>9, <3>1, <4>1, <4>2, <4>3 DEF OwnThread
    <3>3. Awaits(v)'
      BY <1>1, <3>1 DEF Awaits
    <3>4. QED
      BY <3>2, <3>3
  <2>3. QED
    BY <2>1, <2>2
<1>15. \A v \in Workers : In(v, Holding)' =>
         /\ v # w /\ In(v, Holding) /\ turn'[v] = turn[v]
         /\ turn[v].cursor \in Threads \ {t}
  <2>1. "created" \notin Holding
    BY DEF Holding, Before, After
  <2>2. \A v \in Workers : In(v, Holding) => turn[v].cursor \in Threads
    BY DEF Inv, Turns, Anchored
  <2>3. QED
    BY <1>5, <1>8, <1>11, <2>1, <2>2 DEF In
<1>16. ASSUME NEW v \in Workers PROVE Anchored(v)'
  <2> SUFFICES ASSUME In(v, Holding)' PROVE Anchored(v)'
    BY DEF Anchored
  <2>1. /\ In(v, Holding) /\ turn'[v] = turn[v] /\ Anchored(v)
        /\ thread'[turn[v].cursor] = thread[turn[v].cursor]
    BY <1>9, <1>15 DEF Inv, Turns
  <2>2. ClaimRecorded(v)' <=> ClaimRecorded(v)
    BY <1>1, <2>1 DEF ClaimRecorded
  <2>3. QED
    BY <1>1, <2>1, <2>2 DEF Anchored
<1>17. ASSUME NEW v \in Workers, NEW r \in Runs
       PROVE  Recorded(v, r)' /\ Unsent(v, r)' /\ Sent(v, r)' /\ Replied(v, r)'
  <2>1. CASE In(v, Holding)'
    <3>1. /\ In(v, Holding) /\ turn'[v] = turn[v]
          /\ thread'[turn[v].cursor] = thread[turn[v].cursor]
      BY <1>9, <1>15, <2>1
    <3>2. Unsent(v, r)' /\ Sent(v, r)' /\ Replied(v, r)'
      BY <1>1, <3>1, Bystander
    <3>3. InputSequence(r)' = InputSequence(r)
      BY <1>1, InputStill
    <3>4. Recorded(v, r)'
      <4>1. ClaimRecorded(v)' => ClaimRecorded(v)
        BY <1>1, <3>1 DEF ClaimRecorded
      <4>2. At(v, r, Holding)' => At(v, r, Holding)
        BY <3>1 DEF At
      <4>3. ASSUME At(v, r, Holding), ClaimRecorded(v)
            PROVE  /\ thread[binding.cursor].state = "live"
                   /\ binding.cursor = turn[v].cursor
                   /\ binding.through + 1 = InputSequence(r)
        BY <4>3 DEF Recorded, Inv, Turns
      <4>4. ASSUME At(v, r, Holding), ClaimRecorded(v)
            PROVE  thread'[binding.cursor].state = "live"
        BY <3>1, <4>3, <4>4
      <4>5. QED
        BY <1>1, <3>1, <3>3, <4>1, <4>2, <4>3, <4>4 DEF Recorded
    <3>5. QED
      BY <3>2, <3>4
  <2>2. CASE ~In(v, Holding)'
    BY <2>2 DEF Recorded, Unsent, Sent, Replied, At, In, Holding
  <2>3. QED
    BY <2>1, <2>2
<1>18. \A u, v \in Workers : Alone(u, v)'
  BY <1>9, <1>15 DEF Alone, Inv, Turns
<1>19. Turns'
  BY <1>14, <1>16, <1>17, <1>18 DEF Turns
<1>20. Swept'
  <2>1. \A c \in Cleaners : Sweeps(c)'
    BY <1>1, <1>9, <1>12 DEF Inv, Swept, Sweeps
  <2>2. QED
    BY <1>1, <1>9, <1>10, <2>1 DEF Inv, Swept
<1>21. Mirror'
  BY <1>1, <1>9, <1>10 DEF Inv, Mirror, Knows
<1>22. ContentNeverOrphaned'
  BY <1>1, <1>7, <1>9 DEF Inv, ContentNeverOrphaned
<1>23. \A v \in Workers : turn'[v] # None => SameLease(v)
  BY <1>1, <1>5, <1>8 DEF SameLease
<1>24. binding' \in Binding \cup {None}
  BY <1>1 DEF Inv, TypeOK
<1>25. QED
  BY <1>1, <1>8, <1>9, <1>13, <1>19, <1>20, <1>21, <1>22, <1>23, <1>24,
     TouchStep

LEMMA ClaimedByType ==
    ASSUME Inv, NEW b \in Binding, NEW w \in Workers, NEW lag \in 0..MaxLag,
           Fenced(w, lag)
    PROVE  LET new == ClaimedBy(b, w, lag)
               l == turn[w].lease
           IN  /\ new \in Binding /\ new.state = "claimed"
               /\ new.cursor = b.cursor /\ new.through = b.through
               /\ new.run = l.run /\ new.gen = l.gen
<1> DEFINE l == turn[w].lease
           e == Least(ClaimTtl - lag, run[l.run].expiry)
           new == [b EXCEPT !.state = "claimed", !.run = l.run, !.gen = l.gen,
                            !.owner = w, !.claimExpiry = e]
<1>1. e \in Ticks
  BY FencedFacts, TicksFacts, LeastFacts
<1>2. l.run \in Runs /\ l.gen \in Nat
  BY FencedFacts, TurnTyped DEF Inv
<1>3. ClaimedBy(b, w, lag) = new
  BY DEF ClaimedBy
<1>4. "claimed" \in BindingStates
  BY DEF BindingStates
<1> HIDE DEF e, l
<1>5. new \in Binding
  BY <1>1, <1>2, <1>4, ZenonT(40) DEF Binding
<1>6. /\ new.state = "claimed" /\ new.cursor = b.cursor
      /\ new.through = b.through /\ new.run = l.run /\ new.gen = l.gen
  BY DEF Binding
<1>7. QED
  BY <1>3, <1>5, <1>6 DEF l

(* Of the other workers, none has the lease that the binding now names.    *)
LEMMA OtherLease ==
    ASSUME Inv, NEW w \in Workers, turn[w] # None,
           binding'.run = turn[w].lease.run, binding'.gen = turn[w].lease.gen,
           NEW v \in Workers \ {w}, turn'[v] = turn[v], turn[v] # None
    PROVE  ~ClaimRecorded(v)'
  BY DEF Inv, Leases, Apart, ClaimRecorded

LEMMA ClaimForRunStep ==
    ASSUME Inv, NEW w \in Workers, NEW lag \in 0..MaxLag, ClaimForRun(w, lag)
    PROVE  Inv'
<1>1. /\ turn[w] # None /\ turn[w].phase = "resume" /\ Fenced(w, lag)
      /\ binding.state = "active" /\ Resumable(binding, turn[w].lease.run)
      /\ binding' = ClaimedBy(binding, w, lag)
      /\ turn' = [turn EXCEPT ![w].phase = "claimed",
                              ![w].cursor = binding.cursor]
      /\ run' = run /\ messages' = messages /\ dispatched' = dispatched
      /\ thread' = thread /\ cleaner' = cleaner
  BY DEF ClaimForRun, In, TurnFenced
<1>2. binding # None /\ binding \in Binding
  BY <1>1 DEF Inv, Turns, Awaits, TypeOK
<1>3. PICK t \in Threads, n \in Nat :
        t = binding.cursor /\ n = binding.through
  BY <1>2 DEF Binding
<1>4. PICK q \in Runs : q = turn[w].lease.run
  BY <1>1, FencedFacts
<1> DEFINE new == [turn[w] EXCEPT !.phase = "claimed", !.cursor = t]
<1>5. turn \in [Workers -> Turn \cup {None}] /\ turn[w] \in Turn
  BY <1>1, TurnTyped DEF Inv, TypeOK
<1>6. turn' = [turn EXCEPT ![w] = new]
  BY <1>1, <1>3, <1>5
<1>7. new \in Turn
  BY <1>5 DEF Turn
<1>8. /\ new.lease = turn[w].lease /\ new.phase = "claimed"
      /\ new.cursor = t /\ new.auth = turn[w].auth
  BY <1>5 DEF Turn
<1> HIDE DEF new
<1>9. /\ turn' \in [Workers -> Turn \cup {None}] /\ turn'[w] = new
      /\ \A v \in Workers \ {w} : turn'[v] = turn[v]
  BY <1>6, <1>7, OneTouched
<1>10. /\ binding' \in Binding /\ binding'.state = "claimed"
       /\ binding'.cursor = t /\ binding'.through = n
       /\ binding'.run = turn[w].lease.run
       /\ binding'.gen = turn[w].lease.gen
  BY <1>1, <1>2, <1>3, ClaimedByType
<1>11. binding' # None
  BY <1>10, BindingAssumption
<1>12. ClaimRecorded(w)'
  BY <1>8, <1>9, <1>10, <1>11 DEF ClaimRecorded
<1>13. \A v \in Workers \ {w} : turn'[v] # None => ~ClaimRecorded(v)'
  BY <1>1, <1>9, <1>10, OtherLease
<1>14. \A v \in Workers : In(v, Holding) =>
         turn[v].cursor \in Threads /\ thread[turn[v].cursor].state = "gone"
  BY <1>1, Unclaimed
<1>15. /\ thread[t].state = "live" /\ thread[t].pending = None
       /\ Knows(t, n)
  BY <1>1, <1>2, <1>3 DEF Inv, Mirror
<1>16. n + 1 = InputSequence(q) /\ InputSequence(q)' = InputSequence(q)
  BY <1>1, <1>3, <1>4, InputStill DEF Resumable
<1>17. Named'
  BY <1>1, <1>3, <1>8, <1>9, <1>10, <1>15 DEF Inv, Named, BlankThread
<1>18. ASSUME NEW v \in Workers
       PROVE  OwnThread(v)' /\ Awaits(v)' /\ Anchored(v)'
  <2>1. Awaits(v)'
    BY <1>11 DEF Awaits
  <2>2. CASE v = w
    <3>1. OwnThread(w)'
      BY <1>8, <1>9 DEF OwnThread, In
    <3>2. Anchored(w)'
      BY <1>8, <1>9, <1>10, <1>11, <1>12 DEF Anchored
    <3>3. QED
      BY <2>1, <2>2, <3>1, <3>2
  <2>3. CASE v # w
    <3>1. OwnThread(v) /\ turn'[v] = turn[v]
      BY <1>9, <2>3 DEF Inv, Turns
    <3>2. OwnThread(v)'
      <4> SUFFICES ASSUME In(v, {"created"})' PROVE OwnThread(v)'
        BY DEF OwnThread
      <4>1. In(v, {"created"})
        BY <3>1 DEF In
      <4>2. turn[v].cursor # t
        BY <1>2, <1>3, <3>1, <4>1 DEF OwnThread
      <4>3. \A u \in Workers \ {v} : turn'[u] # None =>
              turn'[u].cursor # turn[v].cursor
        BY <1>8, <1>9, <3>1, <4>1, <4>2 DEF OwnThread
      <4>4. QED
        BY <1>1, <1>10, <3>1, <4>1, <4>2, <4>3 DEF OwnThread
    <3>3. Anchored(v)'
      BY <1>1, <1>14, <3>1 DEF Anchored, In
    <3>4. QED
      BY <2>1, <3>2, <3>3
  <2>4. QED
    BY <2>2, <2>3
<1>19. ASSUME NEW v \in Workers, NEW r \in Runs
       PROVE  Recorded(v, r)' /\ Unsent(v, r)' /\ Sent(v, r)' /\ Replied(v, r)'
  <2>1. CASE v = w
    <3>1. Sent(w, r)' /\ Replied(w, r)'
      BY <1>8, <1>9 DEF Sent, Replied, At, In, After
    <3>2. At(w, r, Holding)' => r = q
      BY <1>4, <1>8, <1>9 DEF At
    <3>3. At(w, r, Before)' => r = q
      BY <1>4, <1>8, <1>9 DEF At
    <3>4. Recorded(w, r)'
      BY <1>1, <1>8, <1>9, <1>10, <1>15, <1>16, <3>2 DEF Recorded
    <3>5. Unsent(w, r)'
      <4>1. Knows(t, n)'
        BY <1>1, <1>15 DEF Knows
      <4>2. n = InputSequence(q)' - 1
        BY <1>16
      <4>3. QED
        BY <1>1, <1>8, <1>9, <1>15, <3>3, <4>1, <4>2 DEF Unsent
    <3>6. QED
      BY <2>1, <3>1, <3>4, <3>5
  <2>2. CASE v # w
    <3>1. turn'[v] = turn[v]
      BY <1>9, <2>2
    <3>2. Recorded(v, r)'
      BY <1>13, <2>2 DEF Recorded, At, In
    <3>3. QED
      BY <1>1, <3>1, <3>2, Bystander
  <2>3. QED
    BY <2>1, <2>2
<1>20. ASSUME NEW u \in Workers, NEW v \in Workers PROVE Alone(u, v)'
  <2>1. CASE u = w /\ v = w
    BY <2>1 DEF Alone
  <2>2. CASE u # w
    <3>1. turn'[u] = turn[u]
      BY <1>9, <2>2
    <3>2. QED
      BY <1>1, <1>14, <3>1 DEF Alone, In
  <2>3. CASE v # w
    <3>1. turn'[v] = turn[v]
      BY <1>9, <2>3
    <3>2. QED
      BY <1>1, <1>14, <3>1 DEF Alone, In
  <2>4. QED
    BY <2>1, <2>2, <2>3
<1>21. Turns'
  BY <1>18, <1>19, <1>20 DEF Turns
<1>22. Swept'
  <2>1. \A c \in Cleaners : cleaner[c] # None =>
          thread[cleaner[c].cursor].state = "gone"
    BY <1>1, Unswept
  <2>2. \A c \in Cleaners : Sweeps(c)'
    BY <1>1, <1>11, <2>1 DEF Sweeps
  <2>3. QED
    BY <1>10, <2>2 DEF Swept
<1>23. Mirror'
  BY <1>10 DEF Mirror
<1>24. ContentNeverOrphaned'
  BY <1>1, <1>3, <1>10, <1>11 DEF Inv, ContentNeverOrphaned
<1>25. \A v \in Workers : turn'[v] # None => SameLease(v)
  BY <1>1, <1>8, <1>9 DEF SameLease
<1>26. thread' \in [Threads -> Thread]
  BY <1>1 DEF Inv, TypeOK
<1>27. QED
  BY <1>1, <1>9, <1>10, <1>17, <1>21, <1>22, <1>23, <1>24, <1>25, <1>26,
     TouchStep

(* What a worker that binds its thread finds and writes.                   *)
LEMMA BindFacts ==
    ASSUME Inv, NEW w \in Workers, NEW lag \in 0..MaxLag,
           NEW acked \in BOOLEAN, Bind(w, lag, acked)
    PROVE  \E t \in Threads, n \in Nat, q \in Runs :
             /\ t = turn[w].cursor /\ q = turn[w].lease.run
             /\ n + 1 = InputSequence(q) /\ n <= Len(messages)
             /\ turn[w] # None /\ OwnThread(w) /\ In(w, {"created"})
             /\ binding = None \/ binding.state = "deleted"
             /\ binding' \in Binding /\ binding' # None
             /\ binding'.state = "claimed" /\ binding'.cursor = t
             /\ binding'.through = n
             /\ binding'.run = turn[w].lease.run
             /\ binding'.gen = turn[w].lease.gen
             /\ thread' = [thread EXCEPT ![t] =
                   IF acked THEN [thread[t] EXCEPT !.base = n] ELSE Gone]
<1>1. /\ turn[w] # None /\ In(w, {"created"}) /\ Fenced(w, lag)
      /\ MayBind(turn[w].auth)
  BY DEF Bind, In, TurnFenced
<1>2. OwnThread(w) /\ Awaits(w)
  BY DEF Inv, Turns
<1>3. PICK t \in Threads : t = turn[w].cursor
  BY <1>1, <1>2 DEF OwnThread
<1>4. PICK q \in Runs : q = turn[w].lease.run /\ run[q].state # "Absent"
  BY <1>1, FencedFacts
<1>5. InputSequence(q) \in 1..Len(messages) /\ InputSequence(q) \in Nat \ {0}
  BY <1>4, InputFacts DEF Inv
<1>6. PICK n \in Nat : n = InputSequence(q) - 1
  BY <1>5
<1>7. Len(messages) \in Nat
  BY MessageTyped
<1>8. n + 1 = InputSequence(q) /\ n <= Len(messages)
  BY <1>5, <1>6, <1>7
<1>9. binding = None \/ (binding # None /\ binding.state = "deleted")
  BY <1>1, <1>2 DEF MayBind, Awaits
<1> DEFINE cleans == IF binding = None THEN 0 ELSE binding.cleanupGen
           b == FreshBinding(t, n, cleans)
<1>10. cleans \in Nat
  BY DEF Inv, TypeOK, Binding
<1>11. /\ binding' = ClaimedBy(b, w, lag)
       /\ thread' = [thread EXCEPT ![t] =
             IF acked THEN [thread[t] EXCEPT !.base = n] ELSE Gone]
  BY <1>3, <1>4, <1>6 DEF Bind
<1> HIDE DEF cleans
<1>12. b \in Binding
  <2>1. 0 \in 0..(MaxCleanups + 1) /\ "active" \in BindingStates
    BY SessionBoundsAssumption DEF BindingStates
  <2>2. QED
    BY <1>10, <2>1 DEF FreshBinding, Binding
<1>13. b.cursor = t /\ b.through = n
  BY DEF FreshBinding
<1> HIDE DEF b
<1>14. /\ binding' \in Binding /\ binding'.state = "claimed"
       /\ binding'.cursor = t /\ binding'.through = n
       /\ binding'.run = turn[w].lease.run
       /\ binding'.gen = turn[w].lease.gen
  BY <1>1, <1>11, <1>12, <1>13, ClaimedByType
<1>15. binding' # None
  BY <1>14, BindingAssumption
<1>16. QED
  BY <1>1, <1>2, <1>3, <1>4, <1>8, <1>9, <1>11, <1>14, <1>15

(* The rest of a bind, whether or not its worker learns of it.             *)
LEMMA BoundStep ==
    ASSUME Inv, NEW w \in Workers, NEW t \in Threads, NEW n \in Nat,
           NEW q \in Runs,
           t = turn[w].cursor, q = turn[w].lease.run,
           n + 1 = InputSequence(q), n <= Len(messages),
           turn[w] # None, OwnThread(w), In(w, {"created"}),
           binding = None \/ binding.state = "deleted",
           binding' \in Binding, binding' # None,
           binding'.state = "claimed", binding'.cursor = t,
           binding'.through = n, binding'.run = turn[w].lease.run,
           binding'.gen = turn[w].lease.gen,
           thread' \in [Threads -> Thread],
           \A u \in Threads \ {t} : thread'[u] = thread[u],
           turn' \in [Workers -> Turn \cup {None}],
           \A v \in Workers \ {w} : turn'[v] = turn[v],
           turn'[w].lease = turn[w].lease, turn'[w].auth = None,
           thread'[t].log = <<>>, thread'[t].pending = None,
           \/ /\ thread'[t].state = "live" /\ thread'[t].base = n
              /\ turn'[w].phase = "claimed" /\ turn'[w].cursor = t
           \/ /\ thread'[t].state = "gone"
              /\ turn'[w].phase = "failed" /\ turn'[w].cursor = None,
           run' = run, messages' = messages, dispatched' = dispatched,
           cleaner' = cleaner
    PROVE  Inv'
<1>1. /\ turn' \in [Workers -> Turn \cup {None}] 
      /\ \A v \in Workers \ {w} : turn'[v] = turn[v]
  OBVIOUS
<1>2. /\ thread' \in [Threads -> Thread]
      /\ \A u \in Threads \ {t} : thread'[u] = thread[u]
  OBVIOUS
<1>3. /\ thread[t].state = "live"
      /\ \A v \in Workers \ {w} : turn[v] # None => turn[v].cursor # t
      /\ \A c \in Cleaners : cleaner[c] # None => cleaner[c].cursor # t
  BY DEF OwnThread
<1>4. \A v \in Workers : In(v, Holding) =>
        turn[v].cursor \in Threads /\ thread[turn[v].cursor].state = "gone"
  BY Unclaimed
<1>5. \A v \in Workers \ {w} : In(v, Holding)' =>
        /\ In(v, Holding) /\ turn[v].cursor \in Threads \ {t}
        /\ thread'[turn[v].cursor] = thread[turn[v].cursor]
        /\ thread'[turn[v].cursor].state = "gone"
  BY <1>1, <1>2, <1>3, <1>4 DEF In
<1>6. \A v \in Workers \ {w} : turn'[v] # None => ~ClaimRecorded(v)'
  BY <1>1, OtherLease
<1>7. InputSequence(q)' = InputSequence(q)
  BY InputStill
<1>8. turn'[w].phase \notin After \cup {"sent", "created"}
  BY DEF After
<1>9. In(w, Holding)' =>
        turn'[w].phase = "claimed" /\ thread'[t].state = "live"
  BY <1>1 DEF In, Holding, Before, After
<1>10. Named'
  <2>1. \A u \in Threads : BlankThread(u)'
    BY <1>2 DEF Inv, Named, BlankThread
  <2>2. thread'[binding'.cursor].state # "none"
    BY <1>2
  <2>3. \A v \in Workers : turn'[v] # None /\ turn'[v].cursor # None =>
          thread'[turn'[v].cursor].state # "none"
    <3>1. ASSUME NEW v \in Workers \ {w}, turn'[v] # None,
                 turn'[v].cursor # None
          PROVE  thread'[turn'[v].cursor].state # "none"
      <4>1. turn[v].cursor \in Threads \ {t} /\ turn'[v] = turn[v]
        BY <1>1, <1>3, <3>1, TurnTyped DEF Inv
      <4>2. QED
        BY <1>2, <3>1, <4>1 DEF Inv, Named
    <3>2. QED
      BY <1>1, <1>2, <3>1
  <2>4. \A c \in Cleaners : cleaner'[c] # None =>
          thread'[cleaner'[c].cursor].state # "none"
    <3>1. \A c \in Cleaners : cleaner[c] # None =>
            cleaner[c].cursor \in Threads \ {t}
      BY <1>3 DEF Inv, TypeOK, Cleanup
    <3>2. QED
      BY <1>2, <3>1 DEF Inv, Named
  <2>5. QED
    BY <2>1, <2>2, <2>3, <2>4 DEF Named
<1>11. ASSUME NEW v \in Workers
       PROVE  OwnThread(v)' /\ Awaits(v)' /\ Anchored(v)'
  <2>1. Awaits(v)'
    BY DEF Awaits
  <2>2. CASE v = w
    <3>1. OwnThread(w)'
      BY <1>1, <1>8 DEF OwnThread, In
    <3>2. ASSUME In(w, Holding)' PROVE Anchored(w)'
      <4>1. turn'[w].cursor = t
        BY <1>1, <1>9, <3>2
      <4>2. ClaimRecorded(w)'
        BY <1>1 DEF ClaimRecorded
      <4>3. QED
        BY <4>1, <4>2 DEF Anchored
    <3>3. QED
      BY <2>1, <2>2, <3>1, <3>2 DEF Anchored
  <2>3. CASE v # w
    <3>1. OwnThread(v) /\ turn'[v] = turn[v]
      BY <1>1, <2>3 DEF Inv, Turns
    <3>2. OwnThread(v)'
      <4> SUFFICES ASSUME In(v, {"created"})' PROVE OwnThread(v)'
        BY DEF OwnThread
      <4>1. In(v, {"created"})
        BY <3>1 DEF In
      <4>2. turn[v].cursor \in Threads \ {t}
        BY <1>3, <2>3, <3>1, <4>1 DEF OwnThread, In
      <4>3. turn'[w].cursor # turn[v].cursor
        BY <1>1, <4>2, ThreadsFacts
      <4>4. \A u \in Workers \ {v} : turn'[u] # None =>
              turn'[u].cursor # turn[v].cursor
        BY <1>1, <3>1, <4>1, <4>3 DEF OwnThread
      <4>5. QED
        BY <1>2, <3>1, <4>1, <4>2, <4>4 DEF OwnThread
    <3>3. Anchored(v)'
      BY <1>5, <2>3, <3>1 DEF Anchored
    <3>4. QED
      BY <2>1, <3>2, <3>3
  <2>4. QED
    BY <2>2, <2>3
<1>12. ASSUME NEW v \in Workers, NEW r \in Runs
       PROVE  Recorded(v, r)' /\ Unsent(v, r)' /\ Sent(v, r)' /\ Replied(v, r)'
  <2>1. CASE v = w
    <3>1. Sent(w, r)' /\ Replied(w, r)'
      BY <1>1, <1>8 DEF Sent, Replied, At, In
    <3>2. At(w, r, Holding)' =>
            /\ r = q /\ thread'[t].state = "live" /\ thread'[t].base = n
            /\ turn'[w].cursor = t
      BY <1>1, <1>9 DEF At
    <3>3. Recorded(w, r)'
      BY <1>2, <1>7, <3>2 DEF Recorded
    <3>4. Unsent(w, r)'
      <4> SUFFICES ASSUME At(w, r, Before)' PROVE Unsent(w, r)'
        BY DEF Unsent
      <4>1. At(w, r, Holding)'
        BY DEF At, In, Holding
      <4>2. n = InputSequence(r)' - 1
        BY <1>7, <3>2, <4>1
      <4>3. SubSeq(messages, n + 1, n) = <<>>
        BY SubSeqEmpty
      <4>4. Knows(t, n)'
        <5>1. thread'[t].base = n /\ thread'[t].log = <<>>
          BY <3>2, <4>1
        <5>2. n <= n /\ n <= Len(messages')
          OBVIOUS
        <5>3. thread'[t].log = SubSeq(messages', thread'[t].base + 1, n)
          BY <4>3, <5>1
        <5>4. QED
          BY <5>1, <5>2, <5>3 DEF Knows
      <4>5. QED
        BY <1>2, <3>2, <4>1, <4>2, <4>4 DEF Unsent
    <3>5. QED
      BY <2>1, <3>1, <3>3, <3>4
  <2>2. CASE v # w
    <3>1. turn'[v] = turn[v]
      BY <1>1, <2>2
    <3>2. Recorded(v, r)'
      BY <1>6, <2>2 DEF Recorded, At, In
    <3>3. In(v, Holding) =>
            thread'[turn[v].cursor] = thread[turn[v].cursor]
      BY <1>5, <2>2, <3>1 DEF In
    <3>4. QED
      BY <3>1, <3>2, <3>3, Bystander
  <2>3. QED
    BY <2>1, <2>2
<1>13. \A u, v \in Workers : Alone(u, v)'
  <2>1. ASSUME NEW u \in Workers, NEW v \in Workers \ {w} PROVE Alone(u, v)'
    BY <1>1, <1>5 DEF Alone
  <2>2. ASSUME NEW u \in Workers \ {w} PROVE Alone(u, w)'
    BY <1>1, <1>5 DEF Alone
  <2>3. Alone(w, w)'
    BY DEF Alone
  <2>4. QED
    BY <2>1, <2>2, <2>3
<1>14. Turns'
  BY <1>11, <1>12, <1>13 DEF Turns
<1>15. Swept'
  <2>1. \A c \in Cleaners : cleaner[c] # None =>
          /\ thread[cleaner[c].cursor].state = "gone"
          /\ cleaner[c].cursor \in Threads \ {t}
    BY <1>3, Unswept
  <2>2. \A c \in Cleaners : Sweeps(c)'
    BY <1>2, <2>1 DEF Sweeps
  <2>3. QED
    BY <2>2 DEF Swept
<1>16. Mirror'
  BY DEF Mirror
<1>17. ContentNeverOrphaned'
  BY <1>2 DEF Inv, ContentNeverOrphaned
<1>18. \A v \in Workers : turn'[v] # None => SameLease(v)
  BY <1>1 DEF SameLease
<1>19. QED
  BY <1>1, <1>2, <1>10, <1>14, <1>15, <1>16, <1>17, <1>18, TouchStep

LEMMA BindStep ==
    ASSUME Inv, NEW w \in Workers, NEW lag \in 0..MaxLag,
           NEW acked \in BOOLEAN, Bind(w, lag, acked)
    PROVE  Inv'
<1>1. PICK t \in Threads, n \in Nat, q \in Runs :
        /\ t = turn[w].cursor /\ q = turn[w].lease.run
        /\ n + 1 = InputSequence(q) /\ n <= Len(messages)
        /\ turn[w] # None /\ OwnThread(w) /\ In(w, {"created"})
        /\ binding = None \/ binding.state = "deleted"
        /\ binding' \in Binding /\ binding' # None
        /\ binding'.state = "claimed" /\ binding'.cursor = t
        /\ binding'.through = n
        /\ binding'.run = turn[w].lease.run
        /\ binding'.gen = turn[w].lease.gen
        /\ thread' = [thread EXCEPT ![t] =
              IF acked THEN [thread[t] EXCEPT !.base = n] ELSE Gone]
  BY BindFacts
<1>2. /\ run' = run /\ messages' = messages /\ dispatched' = dispatched
      /\ cleaner' = cleaner
      /\ turn' = [turn EXCEPT ![w] =
            IF acked
            THEN [turn[w] EXCEPT !.phase = "claimed", !.auth = None]
            ELSE Bare(turn[w].lease, "failed")]
  BY DEF Bind
<1>3. turn[w] \in Turn /\ turn[w].lease \in AiRunLease
  BY <1>1, TurnTyped DEF Inv
<1>4. /\ thread[t] \in Thread /\ thread[t].state = "live"
      /\ thread[t].log = <<>> /\ thread[t].pending = None
  BY <1>1 DEF OwnThread, Inv, TypeOK
<1>5. CASE acked
  <2> DEFINE base == [thread[t] EXCEPT !.base = n]
             new == [turn[w] EXCEPT !.phase = "claimed", !.auth = None]
  <2>1. base \in Thread
    BY <1>4 DEF Thread
  <2>2. /\ base.state = "live" /\ base.base = n /\ base.log = <<>>
        /\ base.pending = None
    BY <1>4 DEF Thread
  <2>3. new \in Turn
    BY <1>3 DEF Turn
  <2>4. /\ new.lease = turn[w].lease /\ new.auth = None
        /\ new.phase = "claimed" /\ new.cursor = t
    BY <1>1, <1>3 DEF Turn
  <2>5. /\ thread' = [thread EXCEPT ![t] = base]
        /\ turn' = [turn EXCEPT ![w] = new]
    BY <1>1, <1>2, <1>5
  <2> HIDE DEF base, new
  <2>6. /\ thread' \in [Threads -> Thread] /\ thread'[t] = base
        /\ \A u \in Threads \ {t} : thread'[u] = thread[u]
    BY <2>1, <2>5 DEF Inv, TypeOK
  <2>7. /\ turn' \in [Workers -> Turn \cup {None}] /\ turn'[w] = new
        /\ \A v \in Workers \ {w} : turn'[v] = turn[v]
    BY <2>3, <2>5, OneTouched
  <2>8. QED
    BY <1>1, <1>2, <2>2, <2>4, <2>6, <2>7, BoundStep
<1>6. CASE ~acked
  <2> DEFINE new == Bare(turn[w].lease, "failed")
  <2>1. Gone \in Thread
    <3>1. <<>> \in Seq(Message)
      BY EmptySeq
    <3>2. QED
      BY <3>1 DEF Gone, Thread
  <2>2. new \in Turn
    BY <1>3 DEF Turn, Bare
  <2>3. /\ new.lease = turn[w].lease /\ new.auth = None
        /\ new.phase = "failed" /\ new.cursor = None
    BY DEF Bare
  <2>4. /\ thread' = [thread EXCEPT ![t] = Gone]
        /\ turn' = [turn EXCEPT ![w] = new]
    BY <1>1, <1>2, <1>6
  <2> HIDE DEF new
  <2>5. /\ thread' \in [Threads -> Thread] /\ thread'[t] = Gone
        /\ \A u \in Threads \ {t} : thread'[u] = thread[u]
    BY <2>1, <2>4 DEF Inv, TypeOK
  <2>6. /\ turn' \in [Workers -> Turn \cup {None}] /\ turn'[w] = new
        /\ \A v \in Workers \ {w} : turn'[v] = turn[v]
    BY <2>2, <2>4, OneTouched
  <2>7. /\ thread'[t].state = "gone" /\ thread'[t].log = <<>>
        /\ thread'[t].pending = None
    BY <2>5 DEF Gone
  <2>8. QED
    BY <1>1, <1>2, <2>3, <2>5, <2>6, <2>7, BoundStep
<1>7. QED
  BY <1>5, <1>6

(* A worker in the phase it was in, or past the sending of its prompt.     *)
SendsOn(v) ==
    turn'[v] # None =>
        /\ turn[v] # None /\ turn'[v].lease = turn[v].lease
        /\ turn'[v].cursor = turn[v].cursor /\ turn'[v].auth = turn[v].auth
        /\ \/ turn'[v].phase = turn[v].phase
           \/ turn[v].phase \in Before /\ turn'[v].phase = "sent"

(* A prompt or a reply is added to the thread of a binding that is claimed *)
(* or being cleaned up.                                                    *)
LEMMA WriteStep ==
    ASSUME Inv, NEW t \in Threads,
           run' = run, messages' = messages, dispatched' = dispatched,
           binding' = binding, cleaner' = cleaner,
           thread' \in [Threads -> Thread],
           \A u \in Threads \ {t} : thread'[u] = thread[u],
           thread[t].state = "live", thread'[t].state = "live",
           thread'[t].log # <<>>,
           turn' \in [Workers -> Turn \cup {None}],
           \A v \in Workers : SendsOn(v),
           \A v \in Workers : turn[v] # None /\ turn[v].cursor # t =>
             turn'[v] = turn[v],
           \A v \in Workers, r \in Runs :
             turn[v] # None /\ turn[v].cursor = t =>
             Unsent(v, r)' /\ Sent(v, r)' /\ Replied(v, r)',
           \A v \in Workers : In(v, {"created"}) => turn[v].cursor # t,
           binding # None, binding.cursor = t,
           binding.state \notin {"active", "deleted"}
    PROVE  Inv'
<1>1. \A u \in Threads : thread'[u].state = thread[u].state
  OBVIOUS
<1>2. \A v \in Workers : In(v, Holding)' => In(v, Holding)
  BY DEF SendsOn, In, Holding
<1>3. \A v \in Workers : turn'[v] # None =>
        (ClaimRecorded(v)' => ClaimRecorded(v))
  BY DEF ClaimRecorded, SendsOn
<1>4. Named'
  <2>1. \A u \in Threads : BlankThread(u)'
    BY DEF Inv, Named, BlankThread
  <2>2. thread'[binding'.cursor].state # "none"
    OBVIOUS
  <2>3. \A v \in Workers : turn'[v] # None /\ turn'[v].cursor # None =>
          thread'[turn'[v].cursor].state # "none"
    <3>1. ASSUME NEW v \in Workers, turn'[v] # None, turn'[v].cursor # None
          PROVE  thread'[turn'[v].cursor].state # "none"
      <4>1. turn[v] # None /\ turn'[v].cursor = turn[v].cursor
        BY <3>1 DEF SendsOn
      <4>2. turn[v].cursor \in Threads
        BY <3>1, <4>1, TurnTyped DEF Inv
      <4>3. QED
        BY <1>1, <3>1, <4>1, <4>2 DEF Inv, Named
    <3>2. QED
      BY <3>1
  <2>4. \A c \in Cleaners : cleaner'[c] # None =>
          thread'[cleaner'[c].cursor].state # "none"
    <3>1. \A c \in Cleaners : cleaner[c] # None => cleaner[c].cursor \in Threads
      BY DEF Inv, TypeOK, Cleanup
    <3>2. QED
      BY <1>1, <3>1 DEF Inv, Named
  <2>5. QED
    BY <2>1, <2>2, <2>3, <2>4 DEF Named
<1>5. ASSUME NEW v \in Workers
      PROVE  OwnThread(v)' /\ Anchored(v)' /\ Awaits(v)'
  <2>1. Awaits(v)'
    BY DEF Awaits
  <2>2. OwnThread(v)'
    <3> SUFFICES ASSUME In(v, {"created"})' PROVE OwnThread(v)'
      BY DEF OwnThread
    <3>1. In(v, {"created"})
      BY DEF SendsOn, In
    <3>2. turn[v] # None /\ turn[v].cursor # t /\ turn'[v] = turn[v]
      BY <3>1 DEF In
    <3>3. OwnThread(v) /\ turn[v].cursor \in Threads
      BY <3>1 DEF Inv, Turns, OwnThread
    <3>4. \A u \in Workers \ {v} : turn'[u] # None =>
            turn'[u].cursor # turn[v].cursor
      BY <3>1, <3>3 DEF OwnThread, SendsOn
    <3>5. QED
      BY <3>1, <3>2, <3>3, <3>4 DEF OwnThread
  <2>3. Anchored(v)'
    <3> SUFFICES ASSUME In(v, Holding)' PROVE Anchored(v)'
      BY DEF Anchored
    <3>1. In(v, Holding) /\ Anchored(v)
      BY <1>2 DEF Inv, Turns
    <3>2. turn'[v].cursor = turn[v].cursor
      BY DEF SendsOn, In
    <3>3. ClaimRecorded(v) => ClaimRecorded(v)'
      BY DEF ClaimRecorded, SendsOn, In
    <3>4. QED
      BY <1>1, <3>1, <3>2, <3>3 DEF Anchored
  <2>4. QED
    BY <2>1, <2>2, <2>3
<1>6. ASSUME NEW v \in Workers, NEW r \in Runs
      PROVE  Recorded(v, r)' /\ Unsent(v, r)' /\ Sent(v, r)' /\ Replied(v, r)'
  <2>1. Recorded(v, r)'
    <3> SUFFICES ASSUME At(v, r, Holding)', ClaimRecorded(v)'
                 PROVE  Recorded(v, r)'
      BY DEF Recorded
    <3>1. turn'[v] # None /\ In(v, Holding)
      BY <1>2 DEF At, In
    <3>2. ClaimRecorded(v) /\ At(v, r, Holding)
      BY <1>3, <3>1 DEF At, SendsOn
    <3>3. /\ binding.cursor = turn[v].cursor
          /\ binding.through + 1 = InputSequence(r)
      BY <3>2 DEF Inv, Turns, Recorded
    <3>4. turn'[v].cursor = turn[v].cursor
      BY <3>1 DEF SendsOn
    <3>5. InputSequence(r)' = InputSequence(r)
      BY InputStill
    <3>6. QED
      BY <3>3, <3>4, <3>5 DEF Recorded
  <2>2. CASE turn[v] # None /\ turn[v].cursor = t
    BY <2>1, <2>2
  <2>3. CASE turn[v] # None /\ turn[v].cursor # t
    <3>1. turn'[v] = turn[v]
      BY <2>3
    <3>2. In(v, Holding) => thread'[turn[v].cursor] = thread[turn[v].cursor]
      BY <2>3 DEF Inv, Turns, Anchored
    <3>3. QED
      BY <2>1, <3>1, <3>2, Bystander
  <2>4. CASE turn[v] = None
    <3>1. turn'[v] = None
      BY <2>4 DEF SendsOn
    <3>2. QED
      BY <2>1, <3>1 DEF Unsent, Sent, Replied, At, In
  <2>5. QED
    BY <2>2, <2>3, <2>4
<1>7. ASSUME NEW u \in Workers, NEW v \in Workers PROVE Alone(u, v)'
  <2> SUFFICES ASSUME In(u, Holding)', In(v, Holding)',
                      turn'[u].cursor = turn'[v].cursor
               PROVE  u = v \/ thread'[turn'[v].cursor].state = "gone"
    BY DEF Alone
  <2>1. In(u, Holding) /\ In(v, Holding)
    BY <1>2
  <2>2. turn'[u].cursor = turn[u].cursor /\ turn'[v].cursor = turn[v].cursor
    BY DEF SendsOn, In
  <2>3. u = v \/ thread[turn[v].cursor].state = "gone"
    <3>1. Alone(u, v)
      BY DEF Inv, Turns
    <3>2. turn[u].cursor = turn[v].cursor
      BY <2>2
    <3>3. QED
      BY <2>1, <3>1, <3>2 DEF Alone
  <2>4. turn[v].cursor \in Threads
    BY <2>1 DEF Inv, Turns, Anchored
  <2>5. QED
    BY <1>1, <2>2, <2>3, <2>4
<1>8. Turns'
  BY <1>5, <1>6, <1>7 DEF Turns
<1>9. Swept'
  <2>1. \A c \in Cleaners : cleaner[c] # None => cleaner[c].cursor \in Threads
    BY DEF Inv, TypeOK, Cleanup
  <2>2. \A c \in Cleaners : Sweeps(c)'
    BY <1>1, <2>1 DEF Inv, Swept, Sweeps
  <2>3. QED
    BY <2>2 DEF Swept
<1>10. Mirror'
  BY DEF Mirror
<1>11. ContentNeverOrphaned'
  BY DEF Inv, ContentNeverOrphaned
<1>12. \A v \in Workers : turn'[v] # None => SameLease(v)
  BY DEF SameLease, SendsOn
<1>13. binding' \in Binding \cup {None}
  BY DEF Inv, TypeOK
<1>14. QED
  BY <1>4, <1>8, <1>9, <1>10, <1>11, <1>12, <1>13, TouchStep

LEMMA ReplyStep ==
    ASSUME Inv, NEW t \in Threads, Reply(t)
    PROVE  Inv'
<1>1. /\ thread[t] \in Thread /\ thread[t].state = "live"
      /\ thread[t].pending # None
      /\ thread' = [thread EXCEPT ![t].pending = None,
                        ![t].log = Append(@, Answer(thread[t].pending))]
      /\ run' = run /\ messages' = messages /\ dispatched' = dispatched
      /\ binding' = binding /\ turn' = turn /\ cleaner' = cleaner
  BY DEF Reply, Inv, TypeOK
<1>2. PICK r \in Runs : r = thread[t].pending
  BY <1>1 DEF Thread
<1>3. Answer(r) \in Message /\ Answer(r)' = Answer(r)
  BY DEF Answer, Message
<1>4. thread[t].log \in Seq(Message) /\ thread[t].base \in Nat
  BY <1>1 DEF Thread
<1>5. PICK log \in Seq(Message) :
        log = Append(thread[t].log, Answer(r)) /\ log # <<>>
  <2>1. Append(thread[t].log, Answer(r)) \in Seq(Message)
    BY <1>3, <1>4, AppendProperties
  <2>2. Append(thread[t].log, Answer(r)) # <<>>
    BY <1>3, <1>4, AppendProperties
  <2>3. QED
    BY <2>1, <2>2
<1>6. /\ thread' \in [Threads -> Thread]
      /\ \A u \in Threads \ {t} : thread'[u] = thread[u]
      /\ thread'[t] = [thread[t] EXCEPT !.pending = None, !.log = log]
  <2>1. thread \in [Threads -> Thread]
    BY DEF Inv, TypeOK
  <2> DEFINE new == [thread[t] EXCEPT !.pending = None, !.log = log]
  <2>2. thread' = [thread EXCEPT ![t] = new]
    BY <1>1, <1>2, <1>5, <2>1
  <2>3. new \in Thread
    BY <1>1 DEF Thread
  <2> HIDE DEF new
  <2>4. /\ thread' \in [Threads -> Thread] /\ thread'[t] = new
        /\ \A u \in Threads \ {t} : thread'[u] = thread[u]
    BY <2>1, <2>2, <2>3
  <2>5. QED
    BY <2>4 DEF new
<1>7. /\ thread'[t].state = "live" /\ thread'[t].base = thread[t].base
      /\ thread'[t].pending = None /\ thread'[t].log = log
  BY <1>1, <1>6 DEF Thread
<1>8. thread[t].log # <<>>
  BY <1>1 DEF Inv, Named, BlankThread
<1>9. /\ binding # None /\ binding.cursor = t
      /\ binding.state \notin {"active", "deleted"}
  BY <1>1, <1>8 DEF Inv, ContentNeverOrphaned, Mirror
<1>10. \A v \in Workers : In(v, {"created"}) => turn[v].cursor # t
  BY <1>8 DEF Inv, Turns, OwnThread
<1>11. \A v \in Workers : SendsOn(v)
  BY <1>1 DEF SendsOn
<1>12. ASSUME NEW v \in Workers, NEW q \in Runs, turn[v] # None,
              turn[v].cursor = t
       PROVE  Unsent(v, q)' /\ Sent(v, q)' /\ Replied(v, q)'
  <2>1. Unsent(v, q) /\ Sent(v, q) /\ Replied(v, q)
    BY DEF Inv, Turns
  <2>2. ~At(v, q, Before) /\ ~At(v, q, After)
    BY <1>1, <1>12, <2>1 DEF Unsent, Replied
  <2>3. Unsent(v, q)' /\ Replied(v, q)'
    BY <1>1, <2>2 DEF Unsent, Replied, At, In
  <2>4. ASSUME At(v, q, {"sent"})' PROVE Sent(v, q)'
    <3>1. At(v, q, {"sent"})
      BY <1>1, <2>4 DEF At, In
    <3>2. r = q /\ Knows(t, InputSequence(q))
      BY <1>1, <1>2, <1>12, <2>1, <3>1 DEF Sent
    <3>3. InputSequence(q)' = InputSequence(q)
      BY <1>1, InputStill
    <3>4. PICK n : n = InputSequence(q)
      OBVIOUS
    <3>5. Heard(t, n, q)'
      BY <1>1, <1>3, <1>5, <1>7, <3>2, <3>4 DEF Heard, Knows
    <3>6. QED
      BY <1>1, <1>7, <1>12, <3>3, <3>4, <3>5 DEF Sent
  <2>5. QED
    BY <2>3, <2>4 DEF Sent
<1>13. turn' \in [Workers -> Turn \cup {None}]
  BY <1>1 DEF Inv, TypeOK
<1>14. \A v \in Workers : turn[v] # None /\ turn[v].cursor # t =>
         turn'[v] = turn[v]
  BY <1>1
<1>15. thread'[t].log # <<>>
  BY <1>5, <1>7
<1>16. QED
  BY <1>1, <1>6, <1>7, <1>9, <1>10, <1>11, <1>12, <1>13, <1>14, <1>15,
     WriteStep

LEMMA SendPromptStep ==
    ASSUME Inv, NEW w \in Workers, SendPrompt(w)
    PROVE  Inv'
<1>1. /\ turn[w] # None /\ turn[w].phase = "reserved"
      /\ thread[turn[w].cursor].state = "live"
      /\ run' = run /\ messages' = messages /\ dispatched' = dispatched
      /\ binding' = binding /\ cleaner' = cleaner
  BY DEF SendPrompt, In
<1>2. In(w, Holding) /\ In(w, Before)
  BY <1>1 DEF In, Holding, Before
<1>3. PICK t \in Threads : t = turn[w].cursor
  BY <1>2 DEF Inv, Turns, Anchored
<1>4. PICK q \in Runs : q = turn[w].lease.run /\ run[q].state # "Absent"
  BY <1>1, TurnTyped DEF Inv, Leases, LeasePast
<1>5. PICK s \in Nat \ {0} :
        /\ s = InputSequence(q) /\ s \in 1..Len(messages)
        /\ messages[s] = Prompt(q)
  BY <1>4, InputFacts DEF Inv
<1>6. Prompt(q) \in Message /\ Len(messages) \in Nat
  BY <1>5, MessageTyped
<1>7. thread[t].pending = None /\ Knows(t, s - 1)
  BY <1>1, <1>2, <1>3, <1>4, <1>5 DEF Inv, Turns, Unsent, At
<1>8. /\ thread[t] \in Thread /\ thread[t].log \in Seq(Message)
      /\ thread[t].base \in Nat
  BY DEF Inv, TypeOK, Thread
<1>9. PICK log \in Seq(Message) :
        log = Append(thread[t].log, Prompt(q)) /\ log # <<>>
  BY <1>6, <1>8, AppendProperties
<1>10. log = SubSeq(messages, thread[t].base + 1, s)
  <2>1. PICK n \in Nat : n = s - 1
    BY <1>5
  <2>2. /\ thread[t].base <= n /\ n + 1 <= Len(messages)
        /\ thread[t].log = SubSeq(messages, thread[t].base + 1, n)
    BY <1>5, <1>6, <1>7, <2>1 DEF Knows
  <2>3. Append(SubSeq(messages, thread[t].base + 1, n), messages[n + 1]) =
          SubSeq(messages, thread[t].base + 1, n + 1)
    BY <1>8, <2>2, MessageTyped, NextMessage
  <2>4. n + 1 = s
    BY <1>5, <2>1
  <2>5. QED
    BY <1>5, <1>9, <2>2, <2>3, <2>4
<1>11. thread[t].base <= s /\ s <= Len(messages)
  BY <1>5, <1>6, <1>7, <1>8 DEF Knows
<1>12. /\ thread' \in [Threads -> Thread]
       /\ \A u \in Threads \ {t} : thread'[u] = thread[u]
       /\ thread'[t].state = "live" /\ thread'[t].base = thread[t].base
       /\ thread'[t].pending = q /\ thread'[t].log = log
  <2>1. thread \in [Threads -> Thread]
    BY DEF Inv, TypeOK
  <2> DEFINE new == [thread[t] EXCEPT !.log = log, !.pending = q]
  <2>2. thread' = [thread EXCEPT ![t].log = Append(@, Prompt(q)),
                                 ![t].pending = q]
    BY <1>3, <1>4 DEF SendPrompt
  <2>3. thread' = [thread EXCEPT ![t] = new]
    BY <1>9, <2>1, <2>2
  <2>4. new \in Thread
    BY <1>8 DEF Thread
  <2>5. /\ new.state = "live" /\ new.base = thread[t].base
        /\ new.pending = q /\ new.log = log
    BY <1>1, <1>3, <1>8 DEF Thread
  <2> HIDE DEF new
  <2>6. /\ thread' \in [Threads -> Thread] /\ thread'[t] = new
        /\ \A u \in Threads \ {t} : thread'[u] = thread[u]
    BY <2>1, <2>3, <2>4
  <2>7. QED
    BY <2>5, <2>6
<1>13. /\ turn' \in [Workers -> Turn \cup {None}]
       /\ \A v \in Workers \ {w} : turn'[v] = turn[v]
       /\ turn'[w].phase = "sent" /\ turn'[w].lease = turn[w].lease
       /\ turn'[w].cursor = turn[w].cursor /\ turn'[w].auth = turn[w].auth
  <2> DEFINE new == [turn[w] EXCEPT !.phase = "sent"]
  <2>1. turn[w] \in Turn
    BY <1>1, TurnTyped DEF Inv
  <2>2. new \in Turn
    BY <2>1 DEF Turn
  <2>3. /\ new.phase = "sent" /\ new.lease = turn[w].lease
        /\ new.cursor = turn[w].cursor /\ new.auth = turn[w].auth
    BY <2>1 DEF Turn
  <2>4. turn' = [turn EXCEPT ![w] = new]
    BY DEF SendPrompt, Inv, TypeOK
  <2> HIDE DEF new
  <2>5. QED
    BY <2>2, <2>3, <2>4, OneTouched
<1>14. /\ binding # None /\ binding.cursor = t
       /\ binding.state \notin {"active", "deleted"}
  BY <1>1, <1>2, <1>3 DEF Inv, Turns, Anchored, ClaimRecorded, Cleaning
<1>15. \A v \in Workers : In(v, {"created"}) => turn[v].cursor # t
  BY <1>14 DEF Inv, Turns, OwnThread
<1>16. \A v \in Workers : SendsOn(v)
  <2>1. SendsOn(w)
    BY <1>1, <1>2, <1>13 DEF SendsOn, In
  <2>2. ASSUME NEW v \in Workers \ {w} PROVE SendsOn(v)
    BY <1>13 DEF SendsOn
  <2>3. QED
    BY <2>1, <2>2
<1>17. \A v \in Workers : turn[v] # None /\ turn[v].cursor # t =>
         turn'[v] = turn[v]
  BY <1>3, <1>13
<1>18. ASSUME NEW v \in Workers, NEW r \in Runs, turn[v] # None,
              turn[v].cursor = t
       PROVE  Unsent(v, r)' /\ Sent(v, r)' /\ Replied(v, r)'
  <2>1. CASE v = w
    <3>1. Unsent(w, r)' /\ Replied(w, r)'
      BY <1>13 DEF Unsent, Replied, At, In, Before, After
    <3>2. ASSUME At(w, r, {"sent"})' PROVE Sent(w, r)'
      <4>1. r = q
        BY <1>4, <1>13, <3>2 DEF At
      <4>2. InputSequence(r)' = s
        BY <1>1, <1>5, <4>1, InputStill
      <4>3. Knows(t, s)'
        BY <1>1, <1>10, <1>11, <1>12 DEF Knows
      <4>4. QED
        BY <1>3, <1>12, <1>13, <4>1, <4>2, <4>3 DEF Sent
    <3>3. QED
      BY <2>1, <3>1, <3>2 DEF Sent
  <2>2. CASE v # w
    <3>1. ~In(v, Holding)
      BY <1>1, <1>2, <1>3, <1>18, <2>2 DEF Inv, Turns, Alone
    <3>2. turn'[v] = turn[v]
      BY <1>13, <2>2
    <3>3. QED
      BY <3>1, <3>2 DEF Unsent, Sent, Replied, At, In, Holding
  <2>3. QED
    BY <2>1, <2>2
<1>19. thread[t].state = "live" /\ thread'[t].log # <<>>
  BY <1>1, <1>3, <1>9, <1>12
<1>20. QED
  BY <1>1, <1>12, <1>13, <1>14, <1>15, <1>16, <1>17, <1>18, <1>19, WriteStep

(* A worker gives its thread back, trusted as far as the binding says.     *)
LEMMA GivenBackStep ==
    ASSUME Inv, NEW w \in Workers, NEW t \in Threads,
           In(w, Holding), ClaimRecorded(w), t = turn[w].cursor,
           binding' \in Binding, binding' # None,
           binding'.state = "active", binding'.cursor = binding.cursor,
           thread' \in [Threads -> Thread],
           \A u \in Threads \ {t} : thread'[u] = thread[u],
           thread'[t].state = thread[t].state,
           thread'[t].pending = None,
           turn' \in [Workers -> Turn \cup {None}], turn'[w] = None,
           \A v \in Workers \ {w} : turn'[v] = turn[v],
           NEW n, binding'.through = n, Knows(t, n)',
           run' = run, messages' = messages, dispatched' = dispatched,
           cleaner' = cleaner
    PROVE  Inv'
<1>1. /\ binding # None /\ binding.state = "claimed" /\ turn[w] # None
      /\ binding.run = turn[w].lease.run /\ binding.gen = turn[w].lease.gen
  BY DEF ClaimRecorded, In
<1>2. PICK q \in Runs : q = turn[w].lease.run
  BY <1>1, TurnTyped DEF Inv
<1>3. binding.cursor = t /\ thread[t].state = "live"
  BY <1>2 DEF Inv, Turns, Recorded, At
<1>4. \A u \in Threads : thread'[u].state = thread[u].state
  OBVIOUS
<1>5. \A v \in Workers \ {w} : In(v, Holding) =>
        /\ turn[v].cursor \in Threads \ {t}
        /\ thread[turn[v].cursor].state = "gone"
  <2> SUFFICES ASSUME NEW v \in Workers \ {w}, In(v, Holding)
               PROVE  /\ turn[v].cursor \in Threads \ {t}
                      /\ thread[turn[v].cursor].state = "gone"
    OBVIOUS
  <2>1. turn[v].cursor # t
    BY <1>3 DEF Inv, Turns, Alone
  <2>2. QED
    BY <1>3, <2>1 DEF Inv, Turns, Anchored
<1>6. \A c \in Cleaners : cleaner[c] # None =>
        /\ cleaner[c].cursor \in Threads
        /\ thread[cleaner[c].cursor].state = "gone"
  BY <1>1, Unswept
<1>7. \A v \in Workers : turn'[v] # None => v # w /\ turn'[v] = turn[v]
  OBVIOUS
<1>8. Named'
  <2>1. \A u \in Threads : BlankThread(u)'
    BY <1>3 DEF Inv, Named, BlankThread
  <2>2. thread'[binding'.cursor].state # "none"
    BY <1>3
  <2>3. \A v \in Workers : turn'[v] # None /\ turn'[v].cursor # None =>
          thread'[turn'[v].cursor].state # "none"
    <3>1. ASSUME NEW v \in Workers, turn'[v] # None, turn'[v].cursor # None
          PROVE  thread'[turn'[v].cursor].state # "none"
      <4>1. turn'[v] = turn[v]
        BY <1>7, <3>1
      <4>2. turn[v].cursor \in Threads
        BY <3>1, <4>1, TurnTyped DEF Inv
      <4>3. QED
        BY <1>4, <3>1, <4>1, <4>2 DEF Inv, Named
    <3>2. QED
      BY <3>1
  <2>4. \A c \in Cleaners : cleaner'[c] # None =>
          thread'[cleaner'[c].cursor].state # "none"
    BY <1>4, <1>6
  <2>5. QED
    BY <2>1, <2>2, <2>3, <2>4 DEF Named
<1>9. ASSUME NEW v \in Workers
      PROVE  OwnThread(v)' /\ Anchored(v)' /\ Awaits(v)'
  <2>1. Awaits(v)'
    BY DEF Awaits
  <2>2. OwnThread(v)'
    <3> SUFFICES ASSUME In(v, {"created"})' PROVE OwnThread(v)'
      BY DEF OwnThread
    <3>1. turn'[v] = turn[v] /\ In(v, {"created"})
      BY <1>7 DEF In
    <3>2. OwnThread(v) /\ turn[v].cursor \in Threads \ {t}
      BY <1>1, <1>3, <3>1 DEF Inv, Turns, OwnThread
    <3>3. \A u \in Workers \ {v} : turn'[u] # None =>
            turn'[u].cursor # turn[v].cursor
      BY <1>7, <3>1, <3>2 DEF OwnThread
    <3>4. QED
      BY <1>1, <3>1, <3>2, <3>3 DEF OwnThread
  <2>3. Anchored(v)'
    <3> SUFFICES ASSUME In(v, Holding)' PROVE Anchored(v)'
      BY DEF Anchored
    <3>1. turn'[v] = turn[v] /\ v # w /\ In(v, Holding)
      BY <1>7 DEF In
    <3>2. QED
      BY <1>4, <1>5, <3>1 DEF Anchored
  <2>4. QED
    BY <2>1, <2>2, <2>3
<1>10. ASSUME NEW v \in Workers, NEW r \in Runs
       PROVE  Recorded(v, r)' /\ Unsent(v, r)' /\ Sent(v, r)' /\ Replied(v, r)'
  <2>1. Recorded(v, r)'
    BY DEF Recorded, ClaimRecorded
  <2>2. CASE v = w
    <3>1. turn'[v] = None
      BY <2>2
    <3>2. QED
      BY <2>1, <3>1 DEF Unsent, Sent, Replied, At, In
  <2>3. CASE v # w
    <3>1. turn'[v] = turn[v]
      BY <2>3
    <3>2. In(v, Holding) => thread'[turn[v].cursor] = thread[turn[v].cursor]
      BY <1>5, <2>3
    <3>3. QED
      BY <2>1, <3>1, <3>2, Bystander
  <2>4. QED
    BY <2>2, <2>3
<1>11. ASSUME NEW u \in Workers, NEW v \in Workers PROVE Alone(u, v)'
  <2> SUFFICES ASSUME In(u, Holding)', In(v, Holding)'
               PROVE  thread'[turn'[v].cursor].state = "gone"
    BY DEF Alone
  <2>1. v # w /\ turn'[v] = turn[v] /\ In(v, Holding)
    BY <1>7 DEF In
  <2>2. QED
    BY <1>4, <1>5, <2>1
<1>12. Turns'
  BY <1>9, <1>10, <1>11 DEF Turns
<1>13. Swept'
  <2>1. \A c \in Cleaners : Sweeps(c)'
    BY <1>4, <1>6 DEF Sweeps
  <2>2. QED
    BY <2>1 DEF Swept
<1>14. Mirror'
  <2>1. binding'.cursor = t /\ thread'[t].state = "live"
    BY <1>3
  <2>2. QED
    BY <2>1 DEF Mirror
<1>15. ContentNeverOrphaned'
  BY <1>1, <1>3 DEF Inv, ContentNeverOrphaned
<1>16. \A v \in Workers : turn'[v] # None => SameLease(v)
  BY <1>7 DEF SameLease
<1>17. QED
  BY <1>8, <1>12, <1>13, <1>14, <1>15, <1>16, TouchStep

LEMMA ReleasedType ==
    ASSUME NEW b \in Binding, NEW n \in Nat
    PROVE  /\ Released(b, n) \in Binding
           /\ Released(b, n).state = "active" /\ Released(b, n).through = n
           /\ Released(b, n).cursor = b.cursor
<1>1. "active" \in BindingStates /\ b.run \in Runs \cup {None}
  BY DEF BindingStates, Binding
<1>2. PICK last \in Runs \cup {None} : last = b.run
  BY <1>1
<1>3. Released(b, n) =
        [b EXCEPT !.state = "active", !.through = n, !.lastRun = last,
                  !.run = None, !.gen = None, !.owner = None,
                  !.claimExpiry = None]
  BY <1>2 DEF Released
<1>4. Released(b, n) \in Binding
  BY <1>1, <1>3, ZenonT(40) DEF Binding
<1>5. /\ Released(b, n).state = "active" /\ Released(b, n).through = n
      /\ Released(b, n).cursor = b.cursor
  BY <1>3 DEF Binding
<1>6. QED
  BY <1>4, <1>5

LEMMA CommitTurnStep ==
    ASSUME Inv, NEW w \in Workers, NEW lag \in 0..MaxLag, CommitTurn(w, lag)
    PROVE  Inv'
<1>1. /\ turn[w] # None /\ turn[w].phase = "finished" /\ ClaimRecorded(w)
      /\ messages[Len(messages)] = Answer(turn[w].lease.run)
      /\ Len(messages) = binding.through + 2
      /\ binding' = Released(binding, Len(messages))
      /\ turn' = [turn EXCEPT ![w] = None]
      /\ run' = run /\ messages' = messages /\ dispatched' = dispatched
      /\ thread' = thread /\ cleaner' = cleaner
  BY DEF CommitTurn, In, ActiveClaim
<1>2. In(w, Holding) /\ In(w, After)
  BY <1>1 DEF In, Holding, After
<1>3. PICK t \in Threads : t = turn[w].cursor
  BY <1>2 DEF Inv, Turns, Anchored
<1>4. PICK q \in Runs : q = turn[w].lease.run /\ run[q].state # "Absent"
  BY <1>1, TurnTyped DEF Inv, Leases, LeasePast
<1>5. PICK s \in Nat \ {0} : s = InputSequence(q)
  BY <1>4, InputFacts DEF Inv
<1>6. /\ binding \in Binding /\ binding.cursor = t
      /\ thread[t].state = "live" /\ binding.through + 1 = s
  <2>1. binding \in Binding
    BY <1>1 DEF ClaimRecorded, Inv, TypeOK
  <2>2. At(w, q, Holding)
    BY <1>2, <1>4 DEF At
  <2>3. QED
    BY <1>1, <1>3, <1>5, <2>1, <2>2 DEF Inv, Turns, Recorded
<1>7. thread[t].pending = None /\ Heard(t, s, q)
  BY <1>2, <1>3, <1>4, <1>5, <1>6 DEF Inv, Turns, Replied, At
<1>8. Len(messages) \in Nat /\ Len(messages) = s + 1
  <2>1. binding.through \in Nat
    BY <1>6 DEF Binding
  <2>2. QED
    BY <1>1, <1>6, <2>1, MessageTyped
<1>9. thread[t].base \in Nat /\ thread[t].base <= s
  BY <1>7 DEF Heard, Inv, TypeOK, Thread
<1>10. thread[t].log = SubSeq(messages, thread[t].base + 1, s + 1)
  <2>1. messages[s + 1] = Answer(q)
    BY <1>1, <1>4, <1>8
  <2>2. thread[t].log =
          Append(SubSeq(messages, thread[t].base + 1, s), messages[s + 1])
    BY <1>7, <2>1 DEF Heard
  <2>3. messages \in Seq(Message) /\ s + 1 <= Len(messages) /\ s \in Nat
    BY <1>8, MessageTyped
  <2>4. QED
    BY <1>9, <2>2, <2>3, NextMessage
<1>11. PICK n \in Nat : n = s + 1
  OBVIOUS
<1>12. Knows(t, n)'
  BY <1>1, <1>8, <1>9, <1>10, <1>11 DEF Knows
<1>13. /\ binding' \in Binding /\ binding'.state = "active"
       /\ binding'.through = n /\ binding'.cursor = binding.cursor
  BY <1>1, <1>6, <1>8, <1>11, ReleasedType
<1>14. binding' # None
  BY <1>13, BindingAssumption
<1>15. /\ turn' \in [Workers -> Turn \cup {None}] /\ turn'[w] = None
       /\ \A v \in Workers \ {w} : turn'[v] = turn[v]
  BY <1>1, OneTouched
<1>16. /\ thread' \in [Threads -> Thread]
       /\ \A u \in Threads \ {t} : thread'[u] = thread[u]
       /\ thread'[t].state = thread[t].state /\ thread'[t].pending = None
  BY <1>1, <1>7 DEF Inv, TypeOK
<1>17. /\ run' = run /\ messages' = messages /\ dispatched' = dispatched
       /\ cleaner' = cleaner /\ ClaimRecorded(w)
  BY <1>1
<1>18. QED
  BY <1>2, <1>3, <1>12, <1>13, <1>14, <1>15, <1>16, <1>17, GivenBackStep

LEMMA SettleInterruptedTurnStep ==
    ASSUME Inv, NEW w \in Workers, NEW lag \in 0..MaxLag,
           SettleInterruptedTurn(w, lag)
    PROVE  Inv'
<1>1. /\ turn[w] # None /\ turn[w].phase = "sent" /\ InterruptedClaim(w)
      /\ thread[turn[w].cursor].state = "live"
      /\ thread[turn[w].cursor].pending = turn[w].lease.run
      /\ binding' = Released(binding, InputSequence(turn[w].lease.run))
      /\ thread' = [thread EXCEPT ![turn[w].cursor].pending = None]
      /\ turn' = [turn EXCEPT ![w] = None]
      /\ run' = run /\ messages' = messages /\ dispatched' = dispatched
      /\ cleaner' = cleaner
  BY DEF SettleInterruptedTurn, In
<1>2. In(w, Holding) /\ In(w, {"sent"}) /\ ClaimRecorded(w)
  BY <1>1 DEF In, Holding, InterruptedClaim, ClaimRecorded
<1>3. PICK t \in Threads : t = turn[w].cursor
  BY <1>2 DEF Inv, Turns, Anchored
<1>4. PICK q \in Runs : q = turn[w].lease.run /\ run[q].state # "Absent"
  BY <1>1, TurnTyped DEF Inv, Leases, LeasePast
<1>5. PICK s \in Nat : s = InputSequence(q)
  BY <1>4, InputFacts DEF Inv
<1>6. Knows(t, s)
  <2>1. q # None
    BY RunNoneAssumption DEF Runs
  <2>2. thread[t].pending # None
    BY <1>1, <1>3, <1>4, <2>1
  <2>3. QED
    BY <1>1, <1>2, <1>3, <1>4, <1>5, <2>2 DEF Inv, Turns, Sent, At
<1>7. thread[t] \in Thread
  BY DEF Inv, TypeOK
<1>8. /\ thread' \in [Threads -> Thread]
      /\ \A u \in Threads \ {t} : thread'[u] = thread[u]
      /\ thread'[t].state = thread[t].state /\ thread'[t].pending = None
      /\ thread'[t].base = thread[t].base /\ thread'[t].log = thread[t].log
  <2> DEFINE new == [thread[t] EXCEPT !.pending = None]
  <2>1. thread' = [thread EXCEPT ![t] = new]
    BY <1>1, <1>3 DEF Inv, TypeOK
  <2>2. new \in Thread
    BY <1>7 DEF Thread
  <2>3. /\ new.state = thread[t].state /\ new.pending = None
        /\ new.base = thread[t].base /\ new.log = thread[t].log
    BY <1>7 DEF Thread
  <2> HIDE DEF new
  <2>4. /\ thread' \in [Threads -> Thread] /\ thread'[t] = new
        /\ \A u \in Threads \ {t} : thread'[u] = thread[u]
    BY <2>1, <2>2 DEF Inv, TypeOK
  <2>5. QED
    BY <2>3, <2>4
<1>9. Knows(t, s)'
  BY <1>1, <1>6, <1>8 DEF Knows
<1>10. /\ binding' \in Binding /\ binding'.state = "active"
       /\ binding'.through = s /\ binding'.cursor = binding.cursor
  <2>1. binding \in Binding
    BY <1>2 DEF ClaimRecorded, Inv, TypeOK
  <2>2. QED
    BY <1>1, <1>4, <1>5, <2>1, ReleasedType
<1>11. binding' # None
  BY <1>10, BindingAssumption
<1>12. /\ turn' \in [Workers -> Turn \cup {None}] /\ turn'[w] = None
       /\ \A v \in Workers \ {w} : turn'[v] = turn[v]
  BY <1>1, OneTouched
<1>13. /\ run' = run /\ messages' = messages /\ dispatched' = dispatched
       /\ cleaner' = cleaner
  BY <1>1
<1>14. QED
  BY <1>2, <1>3, <1>8, <1>9, <1>10, <1>11, <1>12, <1>13, GivenBackStep

-----------------------------------------------------------------------------
LEMMA InitInv == Init => Inv
<1> SUFFICES ASSUME Init PROVE Inv
  OBVIOUS
<1>1. Absent \in RunRow /\ Absent.state = "Absent"
  BY RunRowsAssumption DEF Absent, RunRow, ErrorCodes
<1>2. <<>> \in Seq(Message) /\ Len(<<>>) = 0
  BY EmptySeq
<1>3. /\ run \in [Runs -> RunRow]
      /\ \A r \in Runs : run[r].state = "Absent"
  BY <1>1 DEF Init
<1>4. /\ thread \in [Threads -> Thread]
      /\ \A t \in Threads : /\ thread[t].state = "none"
                            /\ thread[t].log = <<>>
                            /\ thread[t].pending = None
  BY <1>2 DEF Init, Thread
<1>5. /\ \A w \in Workers : turn[w] = None
      /\ \A c \in Cleaners : cleaner[c] = None
      /\ binding = None /\ messages = <<>> /\ dispatched = {}
  BY DEF Init
<1>6. TypeOK
  BY <1>2, <1>3, <1>4 DEF Init, TypeOK
<1>7. Transcript
  <2>1. \A i \in 1..Len(messages) : FALSE
    BY <1>2, <1>5
  <2>2. QED
    BY <1>3, <2>1 DEF Transcript, OfRuns, Distinct, HasPrompt
<1>8. Leases
  BY <1>5 DEF Leases, LeasePast, Apart
<1>9. Named
  BY <1>4, <1>5 DEF Named, BlankThread
<1>10. Turns
  BY <1>5 DEF Turns, OwnThread, Anchored, Awaits, Recorded, Unsent, Sent,
              Replied, Alone, At, In
<1>11. Swept /\ Mirror
  BY <1>5 DEF Swept, Sweeps, Mirror
<1>12. ContentNeverOrphaned
  BY <1>4 DEF ContentNeverOrphaned
<1>13. QED
  BY <1>6, <1>7, <1>8, <1>9, <1>10, <1>11, <1>12 DEF Inv

LEMMA WorkStep ==
    ASSUME Inv, NEW w \in Workers, NEW lag \in 0..MaxLag, Work(w, lag)
    PROVE  Inv'
<1>1. ASSUME NEW r \in Runs, Claim(w, r, lag) PROVE Inv'
  BY <1>1, ClaimStep
<1>2. ASSUME NEW same \in BOOLEAN, DispositionForRun(w, lag, same) PROVE Inv'
  BY <1>2, DispositionForRunStep
<1>3. ASSUME NEW acked \in BOOLEAN, Bind(w, lag, acked) PROVE Inv'
  BY <1>3, BindStep
<1>4. ASSUME NEW s \in Closing, NEW err \in ErrorCodes, Finish(w, s, err, lag)
      PROVE  Inv'
  BY <1>4, FinishStep
<1>5. CASE ClaimForRun(w, lag)
  BY <1>5, ClaimForRunStep
<1>6. CASE OpenForRun(w, lag)
  BY <1>6, OpenForRunStep
<1>7. CASE HeartbeatClaim(w, lag)
  BY <1>7, HeartbeatClaimStep
<1>8. CASE Reserve(w, lag)
  BY <1>8, ReserveStep
<1>9. CASE ReleaseUnused(w, lag)
  BY <1>9, ReleaseUnusedStep
<1>10. CASE AppendProviderOutput(w, lag)
  BY <1>10, AppendProviderOutputStep
<1>11. CASE ScheduleRetry(w, lag)
  BY <1>11, ScheduleRetryStep
<1>12. CASE CommitTurn(w, lag)
  BY <1>12, CommitTurnStep
<1>13. CASE SettleInterruptedTurn(w, lag)
  BY <1>13, SettleInterruptedTurnStep
<1>14. QED
  BY <1>1, <1>2, <1>3, <1>4, <1>5, <1>6, <1>7, <1>8, <1>9, <1>10, <1>11,
     <1>12, <1>13 DEF Work

LEMMA WorkerStep ==
    ASSUME Inv, NEW w \in Workers, Worker(w)
    PROVE  Inv'
<1>1. ASSUME NEW t \in Threads, CreateThread(w, t) PROVE Inv'
  BY <1>1, CreateThreadStep
<1>2. ASSUME NEW discarded \in BOOLEAN, NEW deferred \in BOOLEAN,
             BindFailed(w, discarded, deferred)
      PROVE  Inv'
  BY <1>2, BindFailedStep
<1>3. ASSUME NEW lag \in 0..MaxLag, Work(w, lag) PROVE Inv'
  BY <1>3, WorkStep
<1>4. CASE Start(w)
  BY <1>4, StartStep
<1>5. CASE Heartbeat(w)
  BY <1>5, HeartbeatStep
<1>6. CASE RequireCleanup(w)
  BY <1>6, RequireCleanupStep
<1>7. CASE SendPrompt(w)
  BY <1>7, SendPromptStep
<1>8. CASE ReceiveReply(w)
  BY <1>8, ReceiveReplyStep
<1>9. CASE RequireCleanupForRun(w)
  BY <1>9, RequireCleanupForRunStep
<1>10. CASE Crash(w)
  BY <1>10, CrashStep
<1>11. QED
  BY <1>1, <1>2, <1>3, <1>4, <1>5, <1>6, <1>7, <1>8, <1>9, <1>10 DEF Worker

LEMMA CleanerStep ==
    ASSUME Inv, NEW c \in Cleaners, Cleaner(c) \/ CrashCleaner(c)
    PROVE  Inv'
<1>1. CASE DeleteThread(c)
  BY <1>1, DeleteThreadStep
<1>2. CASE LoseCleanup(c) \/ CrashCleaner(c)
  BY <1>2, LoseCleanupStep
<1>3. ASSUME NEW lag \in 0..MaxLag, ClaimCleanup(c, lag) PROVE Inv'
  BY <1>3, ClaimCleanupStep
<1>4. ASSUME NEW lag \in 0..MaxLag, OpenForCleanup(c, lag) PROVE Inv'
  BY <1>4, OpenForCleanupStep
<1>5. ASSUME NEW lag \in 0..MaxLag, CompleteCleanup(c, lag) PROVE Inv'
  BY <1>5, CompleteCleanupStep
<1>6. ASSUME NEW lag \in 0..MaxLag, ScheduleCleanupRetry(c, lag) PROVE Inv'
  BY <1>6, ScheduleCleanupRetryStep
<1>7. QED
  BY <1>1, <1>2, <1>3, <1>4, <1>5, <1>6 DEF Cleaner

LEMMA OwnerStep ==
    ASSUME Inv, Owner
    PROVE  Inv'
<1>1. ASSUME NEW r \in Runs, SendMessage(r) PROVE Inv'
  BY <1>1, SendMessageStep
<1>2. ASSUME NEW r \in Runs, RequestCancellation(r) PROVE Inv'
  BY <1>2, RequestCancellationStep
<1>3. ASSUME NEW r \in Runs, NEW q \in Runs, RetryRun(r, q) PROVE Inv'
  BY <1>3, RetryRunStep
<1>4. QED
  BY <1>1, <1>2, <1>3 DEF Owner

LEMMA StepInv == Inv /\ [Next]_vars => Inv'
<1> SUFFICES ASSUME Inv, [Next]_vars PROVE Inv'
  OBVIOUS
<1>1. CASE Owner
  BY <1>1, OwnerStep
<1>2. ASSUME NEW w \in Workers, Worker(w) PROVE Inv'
  BY <1>2, WorkerStep
<1>3. ASSUME NEW r \in Runs, NEW lag \in 0..MaxLag,
             RecoverExpiredLease(r, lag)
      PROVE  Inv'
  BY <1>3, RecoverExpiredLeaseStep
<1>4. ASSUME NEW t \in Threads, Reply(t) PROVE Inv'
  BY <1>4, ReplyStep
<1>5. ASSUME NEW c \in Cleaners, Cleaner(c) \/ CrashCleaner(c) PROVE Inv'
  BY <1>5, CleanerStep
<1>6. CASE Lapse
  BY <1>6, LapseStep
<1>7. CASE Tick
  BY <1>7, TickStep
<1>8. CASE UNCHANGED vars
  <2>1. /\ run' = run /\ messages' = messages
        /\ UNCHANGED <<dispatched, binding, thread, turn, cleaner>>
    BY <1>8 DEF vars
  <2>2. Past
    BY <2>1, PastSame
  <2>3. QED
    BY <2>1, <2>2, RowsOnly
<1>9. QED
  BY <1>1, <1>2, <1>3, <1>4, <1>5, <1>6, <1>7, <1>8 DEF Next

LEMMA Invariant == Spec => []Inv
<1>1. QED
  BY InitInv, StepInv, PTL DEF Spec

(* The binding, the threads and what the workers and the cleaners hold     *)
(* keep the types of persistence.rs and provider_session.rs.               *)
THEOREM TypeCorrect == Spec => []TypeOK
<1>1. Inv => TypeOK
  BY DEF Inv
<1>2. QED
  BY <1>1, Invariant, PTL

(* A binding that disposition_for_run may resume names a thread that holds *)
(* the durable transcript from where it was bound, however many workers,   *)
(* cleaners and runs raced for it: commit_turn and settle_interrupted_turn *)
(* are the only ways back to "active", and each of them proves it.         *)
THEOREM ThreadMirrorsTranscriptHolds == Spec => []ThreadMirrorsTranscript
<1>1. Inv => ThreadMirrorsTranscript
  BY DEF Inv, Mirror, Knows, ThreadMirrorsTranscript
<1>2. QED
  BY <1>1, Invariant, PTL

(* A prompt is sent into exactly the messages before it.  open_for_run is  *)
(* the last fence before the transport: a worker that has lost its lease   *)
(* or its claim since then still writes to a thread nobody else uses.      *)
THEOREM PromptInContextHolds == Spec => []PromptInContext
<1>1. Inv => PromptInContext
  <2> SUFFICES ASSUME Inv, NEW w \in Workers, In(w, {"opened", "reserved"}),
                      thread[turn[w].cursor].state = "live"
               PROVE  thread[turn[w].cursor].log =
                        SubSeq(messages, thread[turn[w].cursor].base + 1,
                               InputSequence(turn[w].lease.run) - 1)
    BY DEF PromptInContext
  <2>1. PICK r \in Runs : r = turn[w].lease.run
    BY TurnTyped DEF Inv, In
  <2>2. At(w, r, Before)
    BY <2>1 DEF At, In, Before
  <2>3. Knows(turn[w].cursor, InputSequence(r) - 1)
    BY <2>2 DEF Inv, Turns, Unsent
  <2>4. QED
    BY <2>1, <2>3 DEF Knows
<1>2. QED
  BY <1>1, Invariant, PTL

(* A thread with content is always named by a binding that is not deleted: *)
(* complete_cleanup forgets a thread only after it is proved absent, and   *)
(* bind_for_run leaves at most an empty one behind.                        *)
THEOREM ContentNeverOrphanedHolds == Spec => []ContentNeverOrphaned
<1>1. Inv => ContentNeverOrphaned
  BY DEF Inv
<1>2. QED
  BY <1>1, Invariant, PTL
=============================================================================
