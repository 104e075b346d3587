--------------------------- MODULE BackupRepository ---------------------------
(***************************************************************************)
(* The backup repository of crates/graphql-orm-backup: a key-value store   *)
(* of blobs that writers (full and incremental backup, compaction, prune,  *)
(* snapshot deletion) change under one advisory lock blob, and that a      *)
(* restore reads without any lock.  Every blob written or deleted is a     *)
(* step of its own, so another process, a crash or a failed call may come  *)
(* between any two of them.                                                *)
(*                                                                         *)
(* A database is a function from rows to the stored object the row refers  *)
(* to; a full payload is such a function and an incremental payload the    *)
(* part of it that changed.  A blob's checksum is its content, so a        *)
(* manifest records what its payload must hold.  Objects are named by      *)
(* their SHA-256: content[o] is "good" when the bytes stored under o's key *)
(* have that hash.  Snapshot ids are ordered like UUIDs and each request   *)
(* mints its own.  A put takes effect before its call ends or not at all;  *)
(* only the deletion of the lock may land later (delete_blob_once).        *)
(***************************************************************************)
EXTENDS Naturals, Sequences, FiniteSets

CONSTANTS
    Snapshots,     \* snapshot ids, a set of naturals
    Writers,       \* processes that may write to the repository
    Rows,          \* primary keys of the database
    Objects,       \* stored objects, by content hash
    Fragile,       \* the objects whose source bytes may be damaged
    Times,         \* created_at values hosts pass, in any order
    Keeps,         \* keep_last values hosts pass
    Operations,    \* the writer operations hosts call
    RestoreModes,  \* the modes restores are called with, {} for no restore
    None,          \* Option::None, an absent blob
    Gone           \* a row that does not exist

ASSUME SnapshotsAssumption == Snapshots \subseteq Nat /\ IsFiniteSet(Snapshots)
ASSUME NoneAssumption == None \notin Snapshots /\ None \notin Writers

VARIABLES
    lock,        \* locks/repository.lock exists
    lateDelete,  \* a deletion of the lock whose answer was lost may still land
    manifest,    \* manifest[s]: snapshots/s/manifest.json, or None
    payload,     \* payload[s]: the database payload blobs of s, or None
    content,     \* content[o]: the blob objects/sha256/o, or None
    db,          \* the application's database
    source,      \* source[o]: the application's own bytes of object o
    writer,      \* writer[w]: the call process w is in
    restore,     \* the restore in progress, or the last one
    minted,      \* snapshot ids requests have used
    exported,    \* exported[s]: the database snapshot s stands for
    doomed       \* snapshots a prune or a deletion has chosen to delete

blobs == <<manifest, payload, content>>
app == <<db, source>>
vars == <<lock, lateDelete, manifest, payload, content, db, source, writer,
          restore, minted, exported, doomed>>

-----------------------------------------------------------------------------
Database == [Rows -> Objects \cup {Gone}]
Empty == [r \in Rows |-> Gone]

\* The objects a database refers to: what a BackupObjectIndex lists.
Referenced(d) == {d[r] : r \in Rows} \ {Gone}

\* The journal's changes from one database to another.
Changes(from, to) == [r \in {q \in Rows : from[q] # to[q]} |-> to[r]]

\* The rows of a table, or the changed ones.
Payload == UNION {[S -> Objects \cup {Gone}] : S \in SUBSET Rows}

\* BackupSnapshotManifest
Manifest ==
    [kind : {"Full", "Incremental", "SyntheticFull"},
     parent : Snapshots \cup {None},
     at : Times,
     data : Payload,
     objects : SUBSET Objects]

ASSUME BlobAssumption ==
    None \notin Manifest \cup Payload \cup {"good", "bad"}

Published == {s \in Snapshots : manifest[s] # None}

\* load_manifest_chain: the chain from the root to s, <<>> when a manifest
\* is missing or an id repeats (more steps than there are ids).
ChainWithin[n \in 0..Cardinality(Snapshots)] ==
    [s \in Snapshots |->
       IF n = 0 \/ manifest[s] = None THEN <<>>
       ELSE IF manifest[s].parent = None
            THEN IF manifest[s].kind = "Incremental" THEN <<>> ELSE <<s>>
            ELSE LET up == ChainWithin[n - 1][manifest[s].parent]
                 IN  IF up = <<>> THEN <<>> ELSE Append(up, s)]

Chain(s) == ChainWithin[Cardinality(Snapshots)][s]
Members(chain) == {chain[i] : i \in DOMAIN chain}

\* What the payload keys of a manifest load: an incremental without changes
\* has no table entry and so nothing to load.
Loaded(m, s) == IF DOMAIN m.data = {} THEN m.data ELSE payload[s]

\* verify_manifest_and_objects
Verified(m, s) ==
    /\ Loaded(m, s) = m.data
    /\ \A o \in m.objects : content[o] = "good"

\* A stage of a restore, and of compaction: rows created, updated, deleted.
ApplyKeepingOld(base, changes) ==
    [r \in Rows |-> IF r \in DOMAIN changes /\ base[r] = Gone
                    THEN changes[r] ELSE base[r]]
Apply(base, changes) ==
    [r \in Rows |-> IF r \in DOMAIN changes THEN changes[r] ELSE base[r]]

\* The database a chain replays to.
Replayed(chain) ==
    LET upTo[i \in 0..Len(chain)] ==
            IF i = 0 THEN Empty
            ELSE Apply(upTo[i - 1], Loaded(manifest[chain[i]], chain[i]))
    IN  upTo[Len(chain)]

\* The rows compaction folds a chain into.
Compacted(chain) == Replayed(chain)

\* compact_object_entries (no tombstone names an object).
ChainObjects(chain) == UNION {manifest[s].objects : s \in Members(chain)}

\* sort_by created_at, then snapshot_id, both descending.
NewerThan(s, t) ==
    \/ manifest[s].at > manifest[t].at
    \/ manifest[s].at = manifest[t].at /\ s > t

Newest(keep) ==
    {s \in Published : Cardinality({t \in Published : NewerThan(t, s)}) < keep}

\* retained_ids
RetainedWithoutParents(keep) == Newest(keep)
Retained(keep) == UNION {Members(Chain(s)) : s \in Newest(keep)}

-----------------------------------------------------------------------------
Idle ==
    [pc |-> "idle", op |-> None, snap |-> None, from |-> None, at |-> 0,
     data |-> <<>>, objects |-> {}, todo |-> {}, open |-> {}, victims |-> {}]

\* Inside the lock: from the conditional put that won to the release.
Working(w) == writer[w].pc \notin {"idle", "acquire"}

Init ==
    /\ lock = FALSE /\ lateDelete = FALSE
    /\ manifest = [s \in Snapshots |-> None]
    /\ payload = [s \in Snapshots |-> None]
    /\ content = [o \in Objects |-> None]
    /\ db = Empty
    /\ source = [o \in Objects |-> "good"]
    /\ writer = [w \in Writers |-> Idle]
    /\ restore = [pc |-> "idle", snap |-> None, mode |-> None, chain |-> <<>>,
                  next |-> 0, phase |-> None, target |-> Empty,
                  before |-> Empty]
    /\ minted = {}
    /\ exported = [s \in Snapshots |-> None]
    /\ doomed = {}

Goto(w, pc) == writer' = [writer EXCEPT ![w].pc = pc]

\* An error in the locked part: pending work is dropped, the lock released.
Fail(w) == Goto(w, "release")

-----------------------------------------------------------------------------
(* Requests.  The host picks a parent, a source or a victim among the      *)
(* snapshots it can see, before the writer holds the lock.                 *)

Request(w, call) ==
    /\ writer[w].pc = "idle"
    /\ call.op \in Operations
    /\ writer' = [writer EXCEPT ![w] = [call EXCEPT !.pc = "acquire"]]
    /\ UNCHANGED <<lock, lateDelete, blobs, app, restore, exported, doomed>>

RequestSnapshot(w, op, s, at) ==
    /\ s \notin minted
    /\ minted' = minted \cup {s}
    /\ \/ /\ op = "full"
          /\ Request(w, [Idle EXCEPT !.op = op, !.snap = s, !.at = at])
       \/ /\ op \in {"incremental", "compact"}
          /\ \E from \in Published :
               Request(w, [Idle EXCEPT !.op = op, !.snap = s,
                                       !.from = from, !.at = at])

RequestRemoval(w) ==
    /\ \/ \E keep \in Keeps :
            Request(w, [Idle EXCEPT !.op = "prune", !.at = keep])
       \/ \E s \in Published :
            Request(w, [Idle EXCEPT !.op = "delete", !.from = s])
    /\ UNCHANGED minted

-----------------------------------------------------------------------------
(* RepositoryLock.                                                         *)

\* The conditional put finds a lock, of whatever age, and the call fails.
AcquireRefused(w) ==
    /\ writer[w].pc = "acquire"
    /\ lock
    /\ writer' = [writer EXCEPT ![w] = Idle]
    /\ UNCHANGED <<lock, lateDelete, blobs, app, restore, minted, exported,
                   doomed>>

Acquire(w) ==
    /\ writer[w].pc = "acquire"
    /\ ~lock
    /\ lock' = TRUE
    /\ Goto(w, "begin")
    /\ UNCHANGED <<lateDelete, blobs, app, restore, minted, exported, doomed>>

\* The conditional put fails; the lock may have been written all the same.
AcquireFails(w) ==
    /\ writer[w].pc = "acquire"
    /\ lock' \in {lock, TRUE}
    /\ writer' = [writer EXCEPT ![w] = Idle]
    /\ UNCHANGED <<lateDelete, blobs, app, restore, minted, exported, doomed>>

\* release: one deletion by key.  When its answer is lost the deletion was
\* never made or may still land.
Release(w) ==
    /\ writer[w].pc = "release"
    /\ writer' = [writer EXCEPT ![w] = Idle]
    /\ \/ lock' = FALSE /\ UNCHANGED lateDelete
       \/ lateDelete' \in {lateDelete, TRUE} /\ UNCHANGED lock
    /\ UNCHANGED <<blobs, app, restore, minted, exported, doomed>>

\* The writer's process stops, or its future is dropped.
Crash(w) ==
    /\ Working(w)
    /\ writer' = [writer EXCEPT ![w] = Idle]
    /\ UNCHANGED <<lock, lateDelete, blobs, app, restore, minted, exported,
                   doomed>>

LateDelete ==
    /\ lateDelete
    /\ lateDelete' = FALSE
    /\ lock' = FALSE
    /\ UNCHANGED <<blobs, app, writer, restore, minted, exported, doomed>>

\* The operator removes the lock after stopping every writer and waiting for
\* every request to end.
RecoverLockAtOnce == lock /\ (\A w \in Writers : writer[w].pc = "idle")
Recoverable ==
    /\ lock
    /\ \A w \in Writers : writer[w].pc = "idle"
    /\ ~lateDelete

RecoverLock ==
    /\ Recoverable
    /\ lock' = FALSE
    /\ UNCHANGED <<lateDelete, blobs, app, writer, restore, minted, exported,
                   doomed>>

-----------------------------------------------------------------------------
(* create_full_backup_inner and create_incremental_backup_inner.           *)

\* export_full, or the journal's changes since the parent.
Export(w) ==
    LET call == writer[w]
        data == IF call.op = "full" THEN db
                ELSE Changes(exported[call.from], db)
    IN  /\ call.pc = "begin" /\ call.op \in {"full", "incremental"}
        /\ writer' = [writer EXCEPT ![w].pc = "list", ![w].data = data]
        /\ exported' = [exported EXCEPT ![call.snap] = db]
        /\ UNCHANGED <<lock, lateDelete, blobs, app, restore, minted, doomed>>

\* The object index is read after the rows, in a snapshot of its own.
ListObjects(w) ==
    LET call == writer[w]
        refs == IF call.op = "full" THEN Referenced(db)
                ELSE Referenced(db) \ Referenced(exported[call.from])
    IN  /\ call.pc = "list"
        /\ writer' = [writer EXCEPT ![w].pc = "payload",
                                    ![w].objects = refs, ![w].todo = refs]
        /\ UNCHANGED <<lock, lateDelete, blobs, app, restore, minted,
                       exported, doomed>>

\* One blob per table that has rows or changes to write.
PutPayload(w) ==
    /\ writer[w].pc = "payload"
    /\ payload' = [payload EXCEPT ![writer[w].snap] =
                     IF DOMAIN writer[w].data = {} THEN @ ELSE writer[w].data]
    /\ Goto(w, "objects")
    /\ UNCHANGED <<lock, lateDelete, manifest, content, app, restore, minted,
                   exported, doomed>>

\* write_object_entries, one object: stream the source to its content key
\* if absent; else both the source and the stored blob must check.
PutObject(w, o) ==
    /\ writer[w].pc = "objects" /\ o \in writer[w].todo
    /\ IF content[o] = None
       THEN /\ content' = [content EXCEPT ![o] = source[o]]
            /\ writer' = [writer EXCEPT ![w].todo = @ \ {o},
                                        ![w].open = @ \cup {o}]
       ELSE /\ UNCHANGED content
            /\ IF source[o] = "good" /\ content[o] = "good"
               THEN writer' = [writer EXCEPT ![w].todo = @ \ {o}]
               ELSE Fail(w)
    /\ UNCHANGED <<lock, lateDelete, manifest, payload, app, restore, minted,
                   exported, doomed>>

\* The hash of what was streamed, and the deletion of a blob that has not
\* the hash it is named by.
CheckObject(w, o) ==
    /\ writer[w].pc = "objects" /\ o \in writer[w].open
    /\ IF content[o] = "good"
       THEN /\ writer' = [writer EXCEPT ![w].open = @ \ {o}]
            /\ UNCHANGED content
       ELSE /\ Fail(w)
            /\ content' = [content EXCEPT ![o] = None]
    /\ UNCHANGED <<lock, lateDelete, manifest, payload, app, restore, minted,
                   exported, doomed>>

\* write_manifest, last; compaction re-checks its objects first.
ReadyToPublishEarly(w) == writer[w].todo = {}
ReadyToPublish(w) == writer[w].todo = {} /\ writer[w].open = {}

ParentOf(call) == IF call.op = "incremental" THEN call.from ELSE None

PutManifest(w) ==
    LET call == writer[w]
        kind == CASE call.op = "full" -> "Full"
                  [] call.op = "incremental" -> "Incremental"
                  [] call.op = "compact" -> "SyntheticFull"
    IN  /\ call.pc = "objects"
        /\ ReadyToPublish(w)
        /\ IF call.op = "compact"
              /\ \E o \in call.objects : content[o] # "good"
           THEN UNCHANGED manifest
           ELSE manifest' = [manifest EXCEPT ![call.snap] =
                    [kind |-> kind, at |-> call.at, data |-> call.data,
                     parent |-> ParentOf(call),
                     objects |-> call.objects]]
        /\ Goto(w, "release")
        /\ UNCHANGED <<lock, lateDelete, payload, content, app, restore,
                       minted, exported, doomed>>

\* compact_chain_inner up to its first write.
CompactLoad(w) ==
    LET call == writer[w]
        chain == Chain(call.from)
    IN  /\ call.pc = "begin" /\ call.op = "compact"
        /\ IF /\ chain # <<>>
              /\ \A s \in Members(chain) : Verified(manifest[s], s)
           THEN /\ writer' = [writer EXCEPT ![w].pc = "payload",
                                            ![w].data = Compacted(chain),
                                            ![w].objects = ChainObjects(chain)]
                /\ exported' = [exported EXCEPT ![call.snap] =
                                                   exported[call.from]]
           ELSE Fail(w) /\ UNCHANGED exported
        /\ UNCHANGED <<lock, lateDelete, blobs, app, restore, minted, doomed>>

-----------------------------------------------------------------------------
(* prune_inner and delete_snapshot_inner: choose, then delete blob by blob.*)

\* The victims, and the objects some kept manifest reaches.
Sweep(w, victims, kept) ==
    /\ writer' = [writer EXCEPT
           ![w].pc = "sweep", ![w].victims = victims,
           ![w].objects = UNION {manifest[s].objects : s \in kept}]
    /\ doomed' = doomed \cup victims

PruneSelect(w) ==
    LET keep == writer[w].at
    IN  /\ writer[w].pc = "begin" /\ writer[w].op = "prune"
        /\ IF \E s \in Newest(keep) : Chain(s) = <<>>
           THEN Fail(w) /\ UNCHANGED doomed
           ELSE Sweep(w, Published \ Retained(keep), Retained(keep))
        /\ UNCHANGED <<lock, lateDelete, blobs, app, restore, minted,
                       exported>>

\* A snapshot that is missing or has a child is not deleted.
DeletableAnyhow(s) == s \in Published
Deletable(s) ==
    /\ s \in Published
    /\ \A t \in Published : manifest[t].parent # s

DeleteSelect(w) ==
    LET s == writer[w].from
    IN  /\ writer[w].pc = "begin" /\ writer[w].op = "delete"
        /\ IF Deletable(s)
           THEN Sweep(w, {s}, Published \ {s})
           ELSE Fail(w) /\ UNCHANGED doomed
        /\ UNCHANGED <<lock, lateDelete, blobs, app, restore, minted,
                       exported>>

\* One blob of the victim being deleted; the victims come in any order and
\* the blobs of each in the order the provider lists them.
SweepBlob(w, s) ==
    /\ writer[w].pc = "sweep"
    /\ s \in writer[w].victims /\ writer[w].snap \in {None, s}
    /\ \/ /\ payload[s] # None
          /\ payload' = [payload EXCEPT ![s] = None]
          /\ UNCHANGED manifest
       \/ /\ manifest[s] # None
          /\ manifest' = [manifest EXCEPT ![s] = None]
          /\ UNCHANGED payload
    /\ writer' = [writer EXCEPT
           ![w].snap = IF manifest'[s] = None /\ payload'[s] = None
                       THEN None ELSE s,
           ![w].victims = IF manifest'[s] = None /\ payload'[s] = None
                          THEN @ \ {s} ELSE @]
    /\ UNCHANGED <<lock, lateDelete, content, app, restore, minted, exported,
                   doomed>>

SweepObject(w, o) ==
    /\ writer[w].pc = "sweep" /\ writer[w].victims = {}
    /\ content[o] # None /\ o \notin writer[w].objects
    /\ content' = [content EXCEPT ![o] = None]
    /\ UNCHANGED <<lock, lateDelete, manifest, payload, app, writer, restore,
                   minted, exported, doomed>>

SweepDone(w) ==
    /\ writer[w].pc = "sweep" /\ writer[w].victims = {}
    /\ \A o \in Objects : content[o] # None => o \in writer[w].objects
    /\ Goto(w, "release")
    /\ UNCHANGED <<lock, lateDelete, blobs, app, restore, minted, exported,
                   doomed>>

\* Any repository, adapter or index call of the locked part may fail.
OperationFails(w) ==
    /\ Working(w) /\ writer[w].pc # "release"
    /\ Fail(w)
    /\ UNCHANGED <<lock, lateDelete, blobs, app, restore, minted, exported,
                   doomed>>

-----------------------------------------------------------------------------
(* The application keeps changing its rows, and its object bytes may be    *)
(* damaged and repaired.                                                   *)
ChangeRow(r) ==
    /\ \E v \in Objects \cup {Gone} :
         v # db[r] /\ db' = [db EXCEPT ![r] = v]
    /\ UNCHANGED <<lock, lateDelete, blobs, source, writer, restore, minted,
                   exported, doomed>>

DamageOrRepair(o) ==
    /\ source' = [source EXCEPT ![o] = IF @ = "good" THEN "bad" ELSE "good"]
    /\ UNCHANGED <<lock, lateDelete, blobs, db, writer, restore, minted,
                   exported, doomed>>

-----------------------------------------------------------------------------
(* restore_snapshot.  It takes no lock: each blob it reads may have been   *)
(* deleted since it read the one before.                                   *)

repository == <<lock, lateDelete, manifest, payload, content, db, source,
                writer, minted, exported, doomed>>

RestoreStart(s, mode) ==
    /\ restore.pc \in {"idle", "ok", "failed"}
    /\ restore' = [restore EXCEPT !.pc = "walk", !.snap = s, !.mode = mode,
                                  !.chain = <<>>, !.next = s, !.phase = None,
                                  !.before = restore.target]
    /\ UNCHANGED repository

\* restore_stage_error; next - 1 stages have completed when the phase is
\* past validation.
Stop(phase) == [restore EXCEPT !.pc = "failed", !.phase = phase]

\* One manifest of load_manifest_chain, from the snapshot up to its root.
RestoreWalk ==
    LET s == restore.next
        m == manifest[s]
    IN  /\ restore.pc = "walk"
        /\ restore' =
             IF m = None \/ (m.parent = None /\ m.kind = "Incremental")
             THEN Stop("Validation")
             ELSE LET chain == <<[id |-> s, m |-> m]>> \o restore.chain
                  IN  IF m.parent = None
                      THEN [restore EXCEPT !.pc = "verify", !.chain = chain,
                                           !.next = 1]
                      ELSE [restore EXCEPT !.chain = chain, !.next = m.parent]
        /\ UNCHANGED repository

\* verify_manifest_and_objects of one manifest; then the target's emptiness.
RestoreVerify ==
    LET entry == restore.chain[restore.next]
    IN  /\ restore.pc = "verify"
        /\ restore' =
             IF restore.next > Len(restore.chain)
             THEN IF restore.mode = "EmptyDatabase" /\ restore.target # Empty
                  THEN Stop("Validation")
                  ELSE [restore EXCEPT !.pc = "stage", !.next = 1]
             ELSE IF Verified(entry.m, entry.id)
                  THEN [restore EXCEPT !.next = @ + 1]
                  ELSE Stop("Validation")
        /\ UNCHANGED repository

\* Load one payload and apply it; the adapter may fail half way.
RestoreStage ==
    LET entry == restore.chain[restore.next]
        changes == Loaded(entry.m, entry.id)
        applied == Apply(restore.target, changes)
    IN  /\ restore.pc = "stage" /\ restore.next <= Len(restore.chain)
        /\ \/ /\ changes = None
              /\ restore' = Stop("Preparation")
           \/ /\ changes # None
              /\ restore' = [restore EXCEPT
                     !.next = @ + 1,
                     !.target = IF restore.mode = "DryRun" THEN @ ELSE applied]
           \/ /\ changes # None /\ restore.mode # "DryRun"
              /\ \E S \in SUBSET Rows :
                   restore' = [Stop("Apply") EXCEPT
                       !.target = [r \in Rows |-> IF r \in S THEN applied[r]
                                                  ELSE restore.target[r]]]
        /\ UNCHANGED repository

RestoreDone ==
    /\ restore.pc = "stage" /\ restore.next > Len(restore.chain)
    /\ restore' = [restore EXCEPT !.pc = "ok"]
    /\ UNCHANGED repository

\* A repository read, the schema check or the emptiness check fails.
RestoreFails ==
    /\ \/ /\ restore.pc \in {"walk", "verify"}
          /\ restore' = Stop("Validation")
       \/ /\ restore.pc = "stage" /\ restore.next <= Len(restore.chain)
          /\ restore' = Stop("Preparation")
    /\ UNCHANGED repository

\* The host throws the staging target away.
DiscardTarget ==
    /\ restore.pc \in {"ok", "failed"} /\ restore.target # Empty
    /\ restore' = [restore EXCEPT !.pc = "idle", !.target = Empty,
                                  !.before = Empty]
    /\ UNCHANGED repository

\* RestoreFailureProgress::target_may_have_changed
OnlyApplyMayHaveChanged == restore.phase = "Apply"
TargetMayHaveChanged ==
    \/ restore.phase = "Apply"
    \/ restore.phase = "Preparation" /\ restore.mode # "DryRun"
       /\ restore.next > 1

-----------------------------------------------------------------------------
Writer(w) ==
    \/ \E op \in Operations, s \in Snapshots, at \in Times :
         RequestSnapshot(w, op, s, at)
    \/ RequestRemoval(w)
    \/ AcquireRefused(w) \/ Acquire(w) \/ AcquireFails(w) \/ Release(w)
    \/ Export(w) \/ ListObjects(w) \/ PutPayload(w) \/ PutManifest(w)
    \/ CompactLoad(w) \/ PruneSelect(w) \/ DeleteSelect(w) \/ SweepDone(w)
    \/ \E o \in Objects :
         PutObject(w, o) \/ CheckObject(w, o) \/ SweepObject(w, o)
    \/ \E s \in Snapshots : SweepBlob(w, s)
    \/ OperationFails(w) \/ Crash(w)

Restorer ==
    \/ \E s \in Published, mode \in RestoreModes : RestoreStart(s, mode)
    \/ RestoreWalk \/ RestoreVerify \/ RestoreStage \/ RestoreDone
    \/ RestoreFails \/ DiscardTarget

Environment ==
    \/ LateDelete \/ RecoverLock
    \/ \E r \in Rows : ChangeRow(r)
    \/ \E o \in Fragile : DamageOrRepair(o)

Next == (\E w \in Writers : Writer(w)) \/ Restorer \/ Environment

Spec == Init /\ [][Next]_vars

-----------------------------------------------------------------------------
(* Blobs have the shapes of manifest.rs: only an incremental has a parent, *)
(* as validate_manifest_chain demands of what the writers publish.         *)
TypeOK ==
    /\ lock \in BOOLEAN /\ lateDelete \in BOOLEAN
    /\ manifest \in [Snapshots -> Manifest \cup {None}]
    /\ \A s \in Published :
         manifest[s].kind = "Incremental" <=> manifest[s].parent # None
    /\ content \in [Objects -> {"good", "bad", None}]
    /\ db \in Database
    /\ DOMAIN payload = Snapshots /\ DOMAIN writer = Writers
    /\ doomed \subseteq minted /\ minted \subseteq Snapshots
    /\ restore.target \in Database

(* The repository has one writer at a time, and while it works its lock is *)
(* there: a lost answer to acquire or release, a crash and an operator's   *)
(* recovery never let a second one in (lock.rs).                           *)
SingleWriter ==
    /\ \A w, v \in Writers : Working(w) /\ Working(v) => w = v
    /\ \A w \in Writers : Working(w) => lock

Restorable(s) ==
    /\ Chain(s) # <<>>
    /\ \A t \in Members(Chain(s)) : Verified(manifest[t], t)

(* A published snapshot whose chain loads and of which no deletion has     *)
(* chosen a member is complete, and replays to the database it was taken   *)
(* of: writers that fail or crash, compaction and the deletion of other    *)
(* snapshots leave it whole.                                               *)
SnapshotsFaithful ==
    \A s \in Published :
        LET chain == Chain(s)
        IN  chain # <<>> /\ Members(chain) \cap doomed = {}
            => Restorable(s) /\ Replayed(chain) = exported[s]

(* No step takes away a snapshot that could be restored, except a prune or *)
(* a deletion that chose that very snapshot: not its parents, nor an       *)
(* object blob that it shares.                                             *)
StaysRestorable ==
    [][\A s \in Snapshots :
         Restorable(s) /\ s \notin doomed' => Restorable(s)']_vars

(* A restore that reports success has put into the target exactly the      *)
(* database the snapshot was taken of, whatever ran beside it.             *)
RestoreExact ==
    restore.pc = "ok" /\ restore.mode = "EmptyDatabase"
    => restore.target = exported[restore.snap]

(* A failed restore that says the target cannot have changed has left it   *)
(* as it was, and a dry run always has.                                    *)
ProgressHonest ==
    (restore.pc = "failed" /\ ~TargetMayHaveChanged)
        \/ restore.mode = "DryRun"
    => restore.target = restore.before

=============================================================================
