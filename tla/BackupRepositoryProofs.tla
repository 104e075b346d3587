----------------------- MODULE BackupRepositoryProofs -----------------------
(***************************************************************************)
(* The safety of the backup repository, for any number of writers,         *)
(* snapshots, rows and objects and chains of any length.  The module has   *)
(* three parts, each with its inductive invariant:                         *)
(*                                                                         *)
(* LockInv.  SingleWriter alone is not inductive: a deletion of the lock   *)
(* that is still under way must find the lock it was sent for, with nobody *)
(* at work, and that is what holds an acquisition and the operator's       *)
(* recovery back until it has landed.                                      *)
(*                                                                         *)
(* RestoreOK, on what a restore reports: it is about its record alone.     *)
(*                                                                         *)
(* BackupInv, on what the snapshots hold: each manifest describes its      *)
(* database by that of its parent, whatever has been deleted meanwhile;    *)
(* each snapshot in the making has one maker; what a sweep leaves is       *)
(* closed under parents and keeps the objects it shares; and a restore has *)
(* read manifests that stay true.                                          *)
(***************************************************************************)
EXTENDS BackupRepository, FiniteSetTheorems, WellFoundedInduction, TLAPS

Fields == {"pc", "op", "snap", "from", "at", "data", "objects", "todo",
           "open", "victims"}

IsCall(c) == c = [f \in Fields |-> c[f]]

\* writer is a function from processes to calls.
Shape == /\ writer = [w \in Writers |-> writer[w]]
         /\ \A w \in Writers : IsCall(writer[w])

LateDeleteFindsItsLock ==
    lateDelete => lock /\ \A w \in Writers : ~Working(w)

LockInv ==
    /\ lock \in BOOLEAN /\ lateDelete \in BOOLEAN
    /\ Shape
    /\ SingleWriter
    /\ LateDeleteFindsItsLock

Outside == {"idle", "acquire"}

LEMMA IdleIsCall == IsCall(Idle) /\ Idle.pc = "idle"
  BY DEF IsCall, Idle, Fields

(* A step that leaves the lock alone, and puts no new writer to work.      *)
LEMMA LockFrame ==
    ASSUME LockInv, NEW w \in Writers, NEW c, IsCall(c),
           writer' = [writer EXCEPT ![w] = c],
           c.pc \notin Outside => Working(w),
           UNCHANGED <<lock, lateDelete>>
    PROVE  LockInv'
  <1>1. /\ \A v \in Writers : writer'[v] = IF v = w THEN c ELSE writer[v]
        /\ writer' = [v \in Writers |-> writer'[v]]
    BY DEF LockInv, Shape
  <1>2. Shape'
    BY <1>1 DEF Shape, LockInv
  <1>3. \A v \in Writers : Working(v)' => Working(v)
    BY <1>1 DEF Working, Outside
  <1>4. QED
    BY <1>2, <1>3 DEF LockInv, SingleWriter, LateDeleteFindsItsLock

(* A step of the writer at work, whatever it does to its call.             *)
LEMMA WorkFrame ==
    ASSUME LockInv, NEW w \in Writers, Working(w),
           writer' = [writer EXCEPT ![w] = writer'[w]], IsCall(writer'[w]),
           UNCHANGED <<lock, lateDelete>>
    PROVE  LockInv'
  BY LockFrame

(* A step that changes neither the lock nor any call.                      *)
LEMMA LockStutter ==
    ASSUME LockInv, UNCHANGED <<lock, lateDelete, writer>>
    PROVE  LockInv'
  BY DEF LockInv, Shape, IsCall, SingleWriter, LateDeleteFindsItsLock, Working

LEMMA RequestStep ==
    ASSUME LockInv, NEW w \in Writers, NEW call, IsCall(call), Request(w, call)
    PROVE  LockInv'
  <1> DEFINE c == [call EXCEPT !.pc = "acquire"]
  <1>1. IsCall(c) /\ c.pc = "acquire"
    BY DEF IsCall, Fields
  <1>2. writer' = [writer EXCEPT ![w] = c] /\ UNCHANGED <<lock, lateDelete>>
    BY DEF Request
  <1> HIDE DEF c
  <1>3. QED
    BY <1>1, <1>2, LockFrame DEF Outside

LEMMA SnapshotIsCall ==
    ASSUME NEW op, NEW s, NEW from, NEW at
    PROVE  /\ IsCall([Idle EXCEPT !.op = op, !.snap = s, !.at = at])
           /\ IsCall([Idle EXCEPT !.op = op, !.snap = s, !.from = from,
                                  !.at = at])
  <1>1. IsCall([Idle EXCEPT !.op = op, !.snap = s, !.at = at])
    BY DEF IsCall, Idle, Fields
  <1>2. IsCall([Idle EXCEPT !.op = op, !.snap = s, !.from = from, !.at = at])
    BY DEF IsCall, Idle, Fields
  <1>3. QED
    BY <1>1, <1>2

LEMMA RemovalIsCall ==
    ASSUME NEW op, NEW from, NEW at
    PROVE  /\ IsCall([Idle EXCEPT !.op = op, !.at = at])
           /\ IsCall([Idle EXCEPT !.op = op, !.from = from])
  <1>1. IsCall([Idle EXCEPT !.op = op, !.at = at])
    BY DEF IsCall, Idle, Fields
  <1>2. IsCall([Idle EXCEPT !.op = op, !.from = from])
    BY DEF IsCall, Idle, Fields
  <1>3. QED
    BY <1>1, <1>2

LEMMA RequestsStep ==
    ASSUME LockInv, NEW w \in Writers,
           \/ \E op \in Operations, s \in Snapshots, at \in Times :
                RequestSnapshot(w, op, s, at)
           \/ RequestRemoval(w)
    PROVE  LockInv'
  <1>1. PICK call : IsCall(call) /\ Request(w, call)
    <2>1. CASE RequestRemoval(w)
      BY <2>1, RemovalIsCall DEF RequestRemoval
    <2>2. CASE \E op \in Operations, s \in Snapshots, at \in Times :
                 RequestSnapshot(w, op, s, at)
      BY <2>2, SnapshotIsCall DEF RequestSnapshot
    <2>3. QED
      BY <2>1, <2>2
  <1>2. QED
    BY <1>1, RequestStep

LEMMA LockStep ==
    ASSUME LockInv, NEW w \in Writers,
           \/ AcquireRefused(w) \/ Acquire(w) \/ AcquireFails(w)
           \/ Release(w) \/ Crash(w)
    PROVE  LockInv'
  <1> USE DEF Outside
  <1>1. CASE AcquireRefused(w) \/ Crash(w)
    BY <1>1, IdleIsCall, LockFrame DEF AcquireRefused, Crash
  <1>2. CASE Acquire(w)
    <2> DEFINE c == [writer[w] EXCEPT !.pc = "begin"]
    <2>1. writer' = [writer EXCEPT ![w] = c] /\ IsCall(c) /\ ~lock /\ lock'
          /\ lateDelete' = lateDelete
      BY <1>2 DEF Acquire, Goto, LockInv, Shape, IsCall, Fields
    <2>2. ~lateDelete /\ \A v \in Writers : ~Working(v)
      BY <2>1 DEF LockInv, SingleWriter, LateDeleteFindsItsLock
    <2> HIDE DEF c
    <2>3. /\ \A v \in Writers : writer'[v] = IF v = w THEN c ELSE writer[v]
          /\ writer' = [v \in Writers |-> writer'[v]]
      BY <2>1 DEF LockInv, Shape
    <2>4. Shape' /\ \A v \in Writers : Working(v)' => v = w
      BY <2>1, <2>2, <2>3 DEF Shape, LockInv, Working
    <2>5. QED
      BY <1>2, <2>1, <2>2, <2>4
      DEF Acquire, LockInv, SingleWriter, LateDeleteFindsItsLock
  <1>3. CASE AcquireFails(w) \/ Release(w)
    <2>1. /\ \A v \in Writers : writer'[v] = IF v = w THEN Idle ELSE writer[v]
          /\ writer' = [v \in Writers |-> writer'[v]]
      BY <1>3 DEF AcquireFails, Release, LockInv, Shape
    <2>2. Shape' /\ ~Working(w)'
          /\ \A v \in Writers : Working(v)' => Working(v) /\ v # w
      BY <2>1, IdleIsCall DEF Shape, LockInv, Working
    <2>3. CASE AcquireFails(w)
      <3>1. lock' \in BOOLEAN /\ (lock => lock') /\ lateDelete' = lateDelete
        BY <2>3 DEF AcquireFails, LockInv
      <3>2. QED
        BY <2>2, <3>1 DEF LockInv, SingleWriter, LateDeleteFindsItsLock
    <2>4. CASE Release(w)
      <3>1. Working(w)
        BY <2>4 DEF Release, Working
      <3>2. lock /\ \A v \in Writers : ~Working(v)'
        BY <2>2, <3>1 DEF LockInv, SingleWriter
      <3>3. ~lateDelete
        BY <3>1 DEF LockInv, LateDeleteFindsItsLock
      <3>4. /\ lock' \in BOOLEAN /\ lateDelete' \in BOOLEAN
            /\ lateDelete' => lock'
        <4>1. lock = TRUE /\ lateDelete = FALSE
          BY <3>2, <3>3 DEF LockInv
        <4>2. CASE lock' = FALSE /\ UNCHANGED lateDelete
          BY <4>1, <4>2
        <4>3. CASE lateDelete' \in {lateDelete, TRUE} /\ UNCHANGED lock
          BY <4>1, <4>3
        <4>4. QED
          BY <2>4, <4>2, <4>3 DEF Release
      <3>5. QED
        BY <2>2, <3>2, <3>4 DEF LockInv, SingleWriter, LateDeleteFindsItsLock
    <2>5. QED
      BY <1>3, <2>3, <2>4
  <1>4. QED
    BY <1>1, <1>2, <1>3

(* The steps of the locked part, one operation after the other.            *)
LEMMA BodyStep ==
    ASSUME LockInv, NEW w \in Writers,
           \/ Export(w) \/ ListObjects(w) \/ PutPayload(w) \/ PutManifest(w)
           \/ CompactLoad(w) \/ PruneSelect(w) \/ DeleteSelect(w)
           \/ SweepDone(w) \/ OperationFails(w)
           \/ \E o \in Objects :
                PutObject(w, o) \/ CheckObject(w, o) \/ SweepObject(w, o)
           \/ \E s \in Snapshots : SweepBlob(w, s)
    PROVE  LockInv'
  <1> DEFINE Progress == /\ Working(w)
                         /\ writer' = [writer EXCEPT ![w] = writer'[w]]
                         /\ IsCall(writer'[w])
  <1>0. UNCHANGED <<lock, lateDelete>>
    BY DEF Export, ListObjects, PutPayload, PutManifest, CompactLoad,
           PruneSelect, DeleteSelect, SweepDone, OperationFails, PutObject,
           CheckObject, SweepObject, SweepBlob
  <1> USE DEF LockInv, Shape, IsCall, Fields, Working
  <1>1. CASE Export(w)
    <2>1. Progress
      BY <1>1 DEF Export
    <2>2. QED
      BY <1>0, <2>1, WorkFrame
  <1>2. CASE ListObjects(w)
    <2>1. Progress
      BY <1>2 DEF ListObjects
    <2>2. QED
      BY <1>0, <2>1, WorkFrame
  <1>3. CASE PutPayload(w)
    <2>1. Progress
      BY <1>3 DEF PutPayload, Goto
    <2>2. QED
      BY <1>0, <2>1, WorkFrame
  <1>4. CASE PutManifest(w)
    <2>1. Progress
      BY <1>4 DEF PutManifest, Goto
    <2>2. QED
      BY <1>0, <2>1, WorkFrame
  <1>5. CASE CompactLoad(w)
    <2>1. Progress
      BY <1>5 DEF CompactLoad, Fail, Goto
    <2>2. QED
      BY <1>0, <2>1, WorkFrame
  <1>6. CASE PruneSelect(w)
    <2>1. Progress
      BY <1>6 DEF PruneSelect, Sweep, Fail, Goto
    <2>2. QED
      BY <1>0, <2>1, WorkFrame
  <1>7. CASE DeleteSelect(w)
    <2>1. Progress
      BY <1>7 DEF DeleteSelect, Sweep, Fail, Goto
    <2>2. QED
      BY <1>0, <2>1, WorkFrame
  <1>8. CASE SweepDone(w)
    <2>1. Progress
      BY <1>8 DEF SweepDone, Goto
    <2>2. QED
      BY <1>0, <2>1, WorkFrame
  <1>9. CASE OperationFails(w)
    <2>1. Progress
      BY <1>9 DEF OperationFails, Fail, Goto
    <2>2. QED
      BY <1>0, <2>1, WorkFrame
  <1>10. ASSUME NEW o \in Objects, PutObject(w, o) PROVE LockInv'
    <2>1. Progress
      BY <1>10, ZenonT(40) DEF PutObject, Fail, Goto
    <2>2. QED
      BY <1>0, <2>1, WorkFrame
  <1>11. ASSUME NEW o \in Objects, CheckObject(w, o) PROVE LockInv'
    <2>1. Progress
      BY <1>11 DEF CheckObject, Fail, Goto
    <2>2. QED
      BY <1>0, <2>1, WorkFrame
  <1>12. ASSUME NEW s \in Snapshots, SweepBlob(w, s) PROVE LockInv'
    <2>1. Progress
      BY <1>12 DEF SweepBlob
    <2>2. QED
      BY <1>0, <2>1, WorkFrame
  <1>13. ASSUME NEW o \in Objects, SweepObject(w, o) PROVE LockInv'
    BY <1>0, <1>13, LockStutter DEF SweepObject
  <1>14. QED
    BY <1>1, <1>2, <1>3, <1>4, <1>5, <1>6, <1>7, <1>8, <1>9, <1>10, <1>11, <1>12, <1>13

LEMMA EnvironmentStep ==
    ASSUME LockInv, Environment \/ Restorer \/ UNCHANGED vars
    PROVE  LockInv'
  <1>1. CASE LateDelete
    <2>1. /\ lock' = FALSE /\ lateDelete' = FALSE /\ UNCHANGED writer
          /\ \A w \in Writers : ~Working(w)
      BY <1>1 DEF LateDelete, LockInv, LateDeleteFindsItsLock
    <2>2. QED
      BY <2>1 DEF LockInv, Shape, IsCall, SingleWriter,
                  LateDeleteFindsItsLock, Working
  <1>2. CASE RecoverLock
    <2>1. /\ lock' = FALSE /\ lateDelete' = FALSE /\ UNCHANGED writer
          /\ \A w \in Writers : ~Working(w)
      BY <1>2 DEF RecoverLock, Recoverable, LockInv, Working
    <2>2. QED
      BY <2>1 DEF LockInv, Shape, IsCall, SingleWriter,
                  LateDeleteFindsItsLock, Working
  <1>3. CASE \/ \E r \in Rows : ChangeRow(r)
             \/ \E o \in Fragile : DamageOrRepair(o)
    BY <1>3, LockStutter DEF ChangeRow, DamageOrRepair
  <1>4. CASE Restorer \/ UNCHANGED vars
    BY <1>4, LockStutter
    DEF Restorer, RestoreStart, RestoreWalk, RestoreVerify, RestoreStage,
        RestoreDone, RestoreFails, DiscardTarget, repository, vars
  <1>5. QED
    BY <1>1, <1>2, <1>3, <1>4 DEF Environment

LEMMA LockInvNext == LockInv /\ [Next]_vars => LockInv'
  <1> SUFFICES ASSUME LockInv, [Next]_vars PROVE LockInv'
    OBVIOUS
  <1>1. ASSUME NEW w \in Writers, Writer(w) PROVE LockInv'
    BY <1>1, RequestsStep, LockStep, BodyStep DEF Writer
  <1>2. QED
    BY <1>1, EnvironmentStep DEF Next

LEMMA LockInvInit == Init => LockInv
  BY IdleIsCall
  DEF Init, LockInv, Shape, SingleWriter, LateDeleteFindsItsLock, Working

(* At most one process is inside a repository operation, and the lock blob *)
(* is there while it is: for any number of writers, with calls whose       *)
(* answers are lost, crashes, and a recovery by the operator.              *)
THEOREM SingleWriterHolds == Spec => []SingleWriter
  <1>1. LockInv => SingleWriter
    BY DEF LockInv
  <1>2. QED
    BY <1>1, LockInvInit, LockInvNext, PTL DEF Spec

-----------------------------------------------------------------------------
(* What a failed restore says about its target.  The report is honest      *)
(* because nothing is applied before the first stage, and next counts the  *)
(* stages applied since.                                                   *)

RestoreFields == {"pc", "snap", "mode", "chain", "next", "phase", "target",
                  "before"}

IsRestore(c) == c = [f \in RestoreFields |-> c[f]]

Untouched(c) == c.target = c.before

RestoreOK(c) ==
    /\ IsRestore(c)
    /\ c.mode = "DryRun" => Untouched(c)
    /\ c.pc \in {"walk", "verify"} => Untouched(c)
    /\ c.pc = "stage" => c.next \in Nat \ {0} /\ (c.next = 1 => Untouched(c))
    /\ c.pc = "failed" =>
         \/ Untouched(c)
         \/ c.phase = "Apply"
         \/ c.phase = "Preparation" /\ c.mode # "DryRun" /\ c.next > 1

LEMMA RestoreInit == Init => RestoreOK(restore)
  BY DEF Init, RestoreOK, IsRestore, RestoreFields, Untouched

LEMMA RestoreStopped ==
    ASSUME RestoreOK(restore)
    PROVE  /\ restore.pc \in {"walk", "verify"}
              => RestoreOK(Stop("Validation"))
           /\ restore.pc = "stage" => RestoreOK(Stop("Preparation"))
  <1>1. ASSUME NEW phase
        PROVE  /\ IsRestore(Stop(phase))
               /\ Stop(phase).pc = "failed" /\ Stop(phase).phase = phase
               /\ Stop(phase).next = restore.next
               /\ Stop(phase).mode = restore.mode
               /\ Stop(phase).target = restore.target
               /\ Stop(phase).before = restore.before
    BY DEF RestoreOK, IsRestore, RestoreFields, Stop
  <1>2. CASE restore.pc \in {"walk", "verify"}
    BY <1>1, <1>2 DEF RestoreOK, Untouched
  <1>3. CASE restore.pc = "stage"
    BY <1>1, <1>3 DEF RestoreOK, Untouched
  <1>4. QED
    BY <1>2, <1>3

LEMMA RestoreStep ==
    ASSUME RestoreOK(restore), Restorer
    PROVE  RestoreOK(restore')
  <1> USE DEF RestoreOK, IsRestore, RestoreFields, Untouched
  <1>1. ASSUME NEW s \in Published, NEW mode \in RestoreModes,
               RestoreStart(s, mode)
        PROVE  RestoreOK(restore')
    BY <1>1 DEF RestoreStart
  <1>2. CASE RestoreWalk
    <2>1. CASE restore' = Stop("Validation")
      BY <1>2, <2>1, RestoreStopped DEF RestoreWalk
    <2>2. CASE restore' # Stop("Validation")
      <3>1. PICK chain, next :
              \/ restore' = [restore EXCEPT !.pc = "verify", !.chain = chain,
                                            !.next = 1]
              \/ restore' = [restore EXCEPT !.chain = chain, !.next = next]
        BY <1>2, <2>2 DEF RestoreWalk
      <3>2. restore.pc = "walk"
        BY <1>2 DEF RestoreWalk
      <3>3. QED
        BY <3>1, <3>2
    <2>3. QED
      BY <2>1, <2>2
  <1>3. CASE RestoreVerify
    <2>1. restore.pc = "verify"
      BY <1>3 DEF RestoreVerify
    <2>2. \/ restore' = Stop("Validation")
          \/ restore' = [restore EXCEPT !.pc = "stage", !.next = 1]
          \/ restore' = [restore EXCEPT !.next = @ + 1]
      BY <1>3 DEF RestoreVerify
    <2>3. CASE restore' = Stop("Validation")
      BY <2>1, <2>3, RestoreStopped
    <2>4. CASE restore' = [restore EXCEPT !.pc = "stage", !.next = 1]
      <3>1. /\ IsRestore(restore') /\ restore'.pc = "stage"
            /\ restore'.next = 1 /\ restore'.target = restore.target
            /\ restore'.before = restore.before
        BY <2>4
      <3>2. QED
        BY <2>1, <3>1
    <2>5. CASE restore' = [restore EXCEPT !.next = @ + 1]
      BY <2>1, <2>5
    <2>6. QED
      BY <2>2, <2>3, <2>4, <2>5
  <1>4. CASE RestoreStage
    <2>1. restore.pc = "stage"
      BY <1>4 DEF RestoreStage
    <2>2. CASE restore' = Stop("Preparation")
      BY <2>1, <2>2, RestoreStopped
    <2>3. ASSUME NEW t,
                 restore' = [restore EXCEPT
                     !.next = @ + 1,
                     !.target = IF restore.mode = "DryRun" THEN @ ELSE t]
          PROVE  RestoreOK(restore')
      <3>1. /\ IsRestore(restore') /\ restore'.pc = "stage"
            /\ restore'.next = restore.next + 1
            /\ restore'.mode = restore.mode
            /\ restore'.before = restore.before
            /\ restore.mode = "DryRun" => restore'.target = restore.target
        BY <2>1, <2>3
      <3>2. restore'.next \in Nat \ {0} /\ restore'.next # 1
        BY <2>1, <3>1
      <3>3. QED
        BY <3>1, <3>2
    <2>4. ASSUME NEW t, restore.mode # "DryRun",
                 restore' = [Stop("Apply") EXCEPT !.target = t]
          PROVE  RestoreOK(restore')
      BY <2>1, <2>4 DEF Stop
    <2>5. QED
      BY <1>4, <2>2, <2>3, <2>4 DEF RestoreStage
  <1>5. CASE RestoreDone
    BY <1>5 DEF RestoreDone
  <1>6. CASE RestoreFails
    BY <1>6, RestoreStopped DEF RestoreFails
  <1>7. CASE DiscardTarget
    BY <1>7 DEF DiscardTarget
  <1>8. QED
    BY <1>1, <1>2, <1>3, <1>4, <1>5, <1>6, <1>7 DEF Restorer

LEMMA RestoreUntouched ==
    ASSUME \/ \E w \in Writers : Writer(w)
           \/ Environment
           \/ UNCHANGED vars
    PROVE  restore' = restore
  <1>1. ASSUME NEW w \in Writers, Writer(w) PROVE restore' = restore
    BY <1>1
    DEF Writer, RequestSnapshot, RequestRemoval, Request, AcquireRefused,
        Acquire, AcquireFails, Release, Export, ListObjects, PutPayload,
        PutManifest, CompactLoad, PruneSelect, DeleteSelect, SweepDone,
        PutObject, CheckObject, SweepObject, SweepBlob, OperationFails, Crash
  <1>2. QED
    BY <1>1
    DEF Environment, LateDelete, RecoverLock, ChangeRow, DamageOrRepair, vars

(* A restore that fails and reports that the target cannot have changed    *)
(* has not changed it, and a dry run never does, for chains of any length. *)
THEOREM ProgressHonestHolds == Spec => []ProgressHonest
  <1>1. RestoreOK(restore) => ProgressHonest
    BY DEF RestoreOK, Untouched, ProgressHonest, TargetMayHaveChanged
  <1>2. RestoreOK(restore) /\ [Next]_vars => RestoreOK(restore)'
    BY RestoreStep, RestoreUntouched DEF Next
  <1> DEFINE Honest == RestoreOK(restore)
  <1>3. Init => Honest
    BY RestoreInit
  <1>4. Honest /\ [Next]_vars => Honest'
    BY <1>2
  <1>5. Honest => ProgressHonest
    BY <1>1
  <1> HIDE DEF Honest
  <1>6. QED
    BY <1>3, <1>4, <1>5, PTL DEF Spec

-----------------------------------------------------------------------------
(***************************************************************************)
(* What a snapshot holds.  A snapshot, once published, is never written    *)
(* again: each id has one maker, and exported keeps what it was made of.   *)
(* So a manifest describes the database of its snapshot by that of its     *)
(* parent for as long as either can be read, deleted or not, and what is   *)
(* left to show is that nobody takes a blob from a snapshot it was not     *)
(* asked to delete.                                                        *)
(***************************************************************************)

Making == {"full", "incremental", "compact"}

\* A call that makes the snapshot snap.
Owning(c) ==
    /\ c.op \in Making
    /\ c.pc \in {"acquire", "begin", "list", "payload", "objects"}

Owns(w) == Owning(writer[w])

\* data, on top of the database of parent, is the database of snapshot s.
Describes(ex, data, parent, s) ==
    /\ data = IF parent = None THEN ex[s] ELSE Changes(ex[parent], ex[s])
    /\ parent # None => parent \in Snapshots /\ ex[parent] # None

Stored ==
    /\ manifest \in [Snapshots -> Manifest \cup {None}]
    /\ payload \in [Snapshots -> Payload \cup {None}]
    /\ content \in [Objects -> {"good", "bad", None}]
    /\ db \in Database
    /\ source \in [Objects -> {"good", "bad"}]
    /\ exported \in [Snapshots -> Database \cup {None}]
    /\ minted \subseteq Snapshots
    /\ doomed \subseteq minted

\* The parts of a snapshot come in the order mint, export, payload, manifest.
Ordered(s) ==
    /\ manifest[s] # None => exported[s] # None
    /\ payload[s] # None => exported[s] # None
    /\ exported[s] # None => s \in minted

Kept(s) ==
    manifest[s] # None =>
        /\ manifest[s].kind = "Incremental" <=> manifest[s].parent # None
        /\ Describes(exported, manifest[s].data, manifest[s].parent, s)
        /\ payload[s] \in {None, manifest[s].data}
        /\ s \notin doomed => Verified(manifest[s], s)

Pending(c) ==
    /\ c.snap \in minted /\ c.at \in Times
    /\ manifest[c.snap] = None
    /\ c.op # "full" => c.from \in Snapshots /\ exported[c.from] # None
    /\ c.pc \in {"acquire", "begin"} => exported[c.snap] = None

Built(c) ==
    c.pc \in {"list", "payload", "objects"} =>
        /\ exported[c.snap] # None /\ c.data \in Payload
        /\ Describes(exported, c.data, ParentOf(c), c.snap)
        /\ payload[c.snap] = IF c.pc # "objects" \/ DOMAIN c.data = {}
                             THEN None ELSE c.data
        /\ c.pc # "list" => c.objects \subseteq Objects
        /\ c.pc # "list" /\ c.op # "compact" =>
             \A o \in c.objects \ (c.todo \cup c.open) : content[o] = "good"

\* Only a maker gets to write blobs.
Phased(c) == c.pc \in {"list", "payload", "objects"} => c.op \in Making

Makers ==
    /\ \A w \in Writers : Phased(writer[w])
    /\ \A w \in Writers : Owns(w) => Pending(writer[w]) /\ Built(writer[w])
    /\ \A w, v \in Writers : Owns(w) /\ Owns(v) /\ w # v
                             => writer[w].snap # writer[v].snap

\* What a sweep leaves is closed: it spares the parents and the objects of
\* all that it spares.
Spares(c) ==
    c.pc = "sweep" =>
        /\ c.victims \subseteq doomed
        /\ \A t \in Published \ c.victims :
             /\ manifest[t].objects \subseteq c.objects
             /\ manifest[t].parent \notin c.victims

Entry == [id : Snapshots, m : Manifest]

\* What a restore has read of a snapshot stays true, deleted or not.
Read(e) ==
    /\ exported[e.id] # None
    /\ Describes(exported, e.m.data, e.m.parent, e.id)
    /\ payload[e.id] \in {None, e.m.data}
    /\ \A w \in Writers : Owns(w) => writer[w].snap # e.id

Walked(r) ==
    /\ r.chain \in Seq(Entry)
    /\ \A i \in 1..Len(r.chain) : Read(r.chain[i])
    /\ \A i \in 2..Len(r.chain) : r.chain[i].m.parent = r.chain[i - 1].id
    /\ r.chain # <<>> => r.chain[Len(r.chain)].id = r.snap

Restores(r) ==
    /\ r.target \in Database
    /\ r.pc = "walk" =>
         /\ Walked(r) /\ r.next \in Snapshots
         /\ IF r.chain = <<>> THEN r.next = r.snap
                              ELSE r.chain[1].m.parent = r.next
    /\ r.pc \in {"verify", "stage"} =>
         /\ Walked(r) /\ r.chain # <<>>
         /\ r.chain[1].m.parent = None
    /\ r.pc = "stage" =>
         /\ r.next \in 1..(Len(r.chain) + 1)
         /\ r.mode = "EmptyDatabase" =>
              r.target = IF r.next = 1 THEN Empty
                         ELSE exported[r.chain[r.next - 1].id]
    /\ r.pc = "ok" /\ r.mode = "EmptyDatabase" =>
         /\ r.snap \in Snapshots /\ exported[r.snap] # None
         /\ r.target = exported[r.snap]

BackupInv ==
    /\ LockInv /\ Stored
    /\ \A s \in Snapshots : Ordered(s) /\ Kept(s)
    /\ Makers
    /\ \A w \in Writers : Spares(writer[w])
    /\ Restores(restore)

-----------------------------------------------------------------------------
(* Chains.  ChainWithin and Replayed are recursive functions; what they    *)
(* compute follows by induction, with the set of the numbers up to which a *)
(* fact holds in the place of a predicate.                                 *)

\* A set of numbers has a least one.
LEMMA LeastNumber ==
    ASSUME NEW T, T \subseteq Nat, T # {}
    PROVE  \E n \in T : \A m \in T : ~ (m < n)
<1>1. PICK n \in T : \A m \in T : ~ (<<m, n>> \in OpToRel(<, Nat))
  BY NatLessThanWellFounded, WFMin, Zenon
<1>2. \A m \in T : ~ (m < n)
  <2> SUFFICES ASSUME NEW m \in T PROVE ~ (m < n)
    OBVIOUS
  <2>1. <<m, n>> \in Nat \X Nat /\ ~ (<<m, n>> \in OpToRel(<, Nat))
    BY <1>1
  <2> QED
    BY <2>1 DEF OpToRel
<1> QED
  BY <1>2

\* Counting up to n.
LEMMA CountInduction ==
    ASSUME NEW n \in Nat, NEW G, 0 \in G,
           \A i \in 0..(n - 1) : i \in G => i + 1 \in G
    PROVE  n \in G
<1> DEFINE T == (0..n) \ G
<1>1. SUFFICES ASSUME T # {} PROVE FALSE
  OBVIOUS
<1>2. PICK k \in T : \A m \in T : ~ (m < k)
  <2>1. T \subseteq Nat
    OBVIOUS
  <2> HIDE DEF T
  <2> QED
    BY <1>1, <2>1, LeastNumber
<1>3. k # 0 /\ k - 1 \in 0..(n - 1) /\ k - 1 \in 0..n /\ k = (k - 1) + 1
  BY <1>2
<1>4. k - 1 \in G
  BY <1>2, <1>3
<1> QED
  BY <1>3, <1>4

Depth == Cardinality(Snapshots)

LEMMA DepthType == Depth \in Nat
  BY SnapshotsAssumption, FS_CardinalityType DEF Depth

\* One more manifest of the chains that mf holds.
Longer(mf, n, below) ==
    [s \in Snapshots |->
       IF n = 0 \/ mf[s] = None THEN <<>>
       ELSE IF mf[s].parent = None
            THEN IF mf[s].kind = "Incremental" THEN <<>> ELSE <<s>>
            ELSE LET up == below[mf[s].parent]
                 IN  IF up = <<>> THEN <<>> ELSE Append(up, s)]

Walks(mf, N, f) == f = [n \in 0..N |-> Longer(mf, n, f[n - 1])]

LEMMA WalksExist ==
    ASSUME NEW mf, NEW N \in Nat
    PROVE  \E f : Walks(mf, N, f)
<1> DEFINE G == {n \in 0..N : \E f : Walks(mf, n, f)}
<1>1. 0 \in G
  <2> DEFINE f == [n \in 0..0 |-> Longer(mf, n, <<>>)]
  <2>1. \A b : Longer(mf, 0, b) = Longer(mf, 0, <<>>)
    BY DEF Longer
  <2>2. Walks(mf, 0, f)
    BY <2>1 DEF Walks
  <2> HIDE DEF f
  <2> QED
    BY <2>2
<1>2. ASSUME NEW i \in 0..(N - 1), i \in G PROVE i + 1 \in G
  <2>1. PICK f : Walks(mf, i, f)
    BY <1>2
  <2> DEFINE g == [n \in 0..(i + 1) |->
                     IF n = i + 1 THEN Longer(mf, n, f[i]) ELSE f[n]]
  <2>2. ASSUME NEW n \in 0..(i + 1) PROVE g[n] = Longer(mf, n, g[n - 1])
    <3>1. CASE n = i + 1
      <4>1. n - 1 = i /\ i \in 0..(i + 1) /\ i # i + 1
        BY <3>1
      <4> QED
        BY <3>1, <4>1
    <3>2. CASE n \in 1..i
      <4>1. n \in 0..i /\ n # i + 1 /\ n - 1 \in 0..(i + 1) /\ n - 1 # i + 1
        BY <3>2
      <4>2. f[n] = Longer(mf, n, f[n - 1])
        BY <2>1, <4>1 DEF Walks
      <4> QED
        BY <4>1, <4>2
    <3>3. CASE n = 0
      <4>1. 0 \in 0..i /\ 0 # i + 1
        OBVIOUS
      <4>2. f[0] = Longer(mf, 0, f[0 - 1])
        BY <2>1, <4>1 DEF Walks
      <4>3. Longer(mf, 0, f[0 - 1]) = Longer(mf, 0, g[0 - 1])
        BY DEF Longer
      <4> QED
        BY <3>3, <4>1, <4>2, <4>3
    <3> QED
      BY <3>1, <3>2, <3>3
  <2>3. Walks(mf, i + 1, g)
    <3>1. g = [n \in 0..(i + 1) |-> g[n]]
      OBVIOUS
    <3> HIDE DEF g
    <3> QED
      BY <2>2, <3>1 DEF Walks
  <2> HIDE DEF g
  <2> QED
    BY <2>3
<1> HIDE DEF G
<1>3. N \in G
  BY <1>1, <1>2, CountInduction
<1> QED
  BY <1>3 DEF G

WalkOf(mf) == CHOOSE f : Walks(mf, Depth, f)

LEMMA WalkOfWalks == ASSUME NEW mf PROVE Walks(mf, Depth, WalkOf(mf))
<1>1. \E f : Walks(mf, Depth, f)
  BY WalksExist, DepthType
<1> QED
  BY <1>1, Zenon DEF WalkOf

LEMMA ChainIs ==
    ASSUME NEW s
    PROVE  /\ Chain(s) = WalkOf(manifest)[Depth][s]
           /\ Chain(s)' = WalkOf(manifest')[Depth][s]
<1>1. Chain(s) = WalkOf(manifest)[Depth][s]
  BY DEF Chain, ChainWithin, WalkOf, Walks, Longer, Depth
<1>2. Chain(s)' = WalkOf(manifest')[Depth][s]
  BY DEF Chain, ChainWithin, WalkOf, Walks, Longer, Depth
<1> QED
  BY <1>1, <1>2

\* ch leads from a root to s.
Leads(mf, ch, s) ==
    /\ ch \in Seq(Snapshots) /\ ch # <<>>
    /\ ch[Len(ch)] = s
    /\ mf[ch[1]].parent = None
    /\ \A i \in 1..Len(ch) : mf[ch[i]] # None
    /\ \A i \in 2..Len(ch) : mf[ch[i]].parent = ch[i - 1]

LEMMA LongerLeads ==
    ASSUME NEW mf \in [Snapshots -> Manifest \cup {None}],
           NEW n \in Nat, NEW below,
           \A s \in Snapshots : below[s] = <<>> \/ Leads(mf, below[s], s),
           NEW s \in Snapshots
    PROVE  \/ Longer(mf, n, below)[s] = <<>>
           \/ Leads(mf, Longer(mf, n, below)[s], s)
<1>1. SUFFICES ASSUME Longer(mf, n, below)[s] # <<>>
               PROVE  Leads(mf, Longer(mf, n, below)[s], s)
  OBVIOUS
<1>2. mf[s] # None /\ mf[s] \in Manifest /\ n # 0
  BY <1>1 DEF Longer
<1>3. CASE mf[s].parent = None
  <2>1. Longer(mf, n, below)[s] = <<s>>
    BY <1>1, <1>2, <1>3 DEF Longer
  <2>2. /\ <<s>> \in Seq(Snapshots) /\ <<s>> # <<>> /\ Len(<<s>>) = 1
        /\ <<s>>[1] = s
    OBVIOUS
  <2>3. 1..1 = {1} /\ 2..1 = {}
    OBVIOUS
  <2> QED
    BY <1>2, <1>3, <2>1, <2>2, <2>3 DEF Leads
<1>4. CASE mf[s].parent # None
  <2> DEFINE p == mf[s].parent
             up == below[p]
             ch == Append(up, s)
  <2>1. p \in Snapshots
    BY <1>2, <1>4 DEF Manifest
  <2>2. Longer(mf, n, below)[s] = ch /\ up # <<>>
    BY <1>1, <1>2, <1>4 DEF Longer
  <2>3. Leads(mf, up, p)
    BY <2>1, <2>2
  <2>4. /\ up \in Seq(Snapshots) /\ Len(up) \in Nat \ {0}
        /\ up[Len(up)] = p
        /\ mf[up[1]].parent = None
        /\ \A i \in 1..Len(up) : mf[up[i]] # None
        /\ \A i \in 2..Len(up) : mf[up[i]].parent = up[i - 1]
    BY <2>3 DEF Leads
  <2>5. p = mf[s].parent
    OBVIOUS
  <2> HIDE DEF p, up
  <2>6. /\ ch \in Seq(Snapshots) /\ Len(ch) = Len(up) + 1
        /\ \A i \in 1..Len(up) : ch[i] = up[i]
        /\ ch[Len(up) + 1] = s
    BY <2>4
  <2> HIDE DEF ch
  <2>7. ch # <<>> /\ ch[Len(ch)] = s /\ ch[1] = up[1]
    BY <2>4, <2>6
  <2>8. ASSUME NEW i \in 1..Len(ch) PROVE mf[ch[i]] # None
    <3>1. CASE i = Len(up) + 1
      BY <1>2, <2>6, <3>1
    <3>2. CASE i # Len(up) + 1
      BY <2>4, <2>6, <3>2
    <3> QED
      BY <3>1, <3>2
  <2>9. ASSUME NEW i \in 2..Len(ch) PROVE mf[ch[i]].parent = ch[i - 1]
    <3>1. CASE i = Len(up) + 1
      <4>1. i - 1 = Len(up) /\ Len(up) \in 1..Len(up)
        BY <2>4, <3>1
      <4> QED
        BY <2>4, <2>5, <2>6, <3>1, <4>1
    <3>2. CASE i # Len(up) + 1
      <4>1. i \in 2..Len(up) /\ i \in 1..Len(up) /\ i - 1 \in 1..Len(up)
        BY <2>4, <2>6, <3>2
      <4> QED
        BY <2>4, <2>6, <4>1
    <3> QED
      BY <3>1, <3>2
  <2>10. Leads(mf, ch, s)
    BY <2>4, <2>6, <2>7, <2>8, <2>9 DEF Leads
  <2> QED
    BY <2>2, <2>10
<1> QED
  BY <1>3, <1>4

LEMMA WalkLeads ==
    ASSUME NEW mf \in [Snapshots -> Manifest \cup {None}], NEW s \in Snapshots
    PROVE  \/ WalkOf(mf)[Depth][s] = <<>>
           \/ Leads(mf, WalkOf(mf)[Depth][s], s)
<1> DEFINE f == WalkOf(mf)
           Good(n) == \A t \in Snapshots : f[n][t] = <<>> \/ Leads(mf, f[n][t], t)
           G == {n \in 0..Depth : Good(n)}
<1>1. \A n \in 0..Depth : f[n] = Longer(mf, n, f[n - 1])
  BY WalkOfWalks DEF Walks
<1> HIDE DEF f
<1>2. 0 \in G
  <2>1. 0 \in 0..Depth
    BY DepthType
  <2>2. \A t \in Snapshots : f[0][t] = <<>>
    BY <1>1, <2>1 DEF Longer
  <2> QED
    BY <2>1, <2>2
<1>3. ASSUME NEW i \in 0..(Depth - 1), i \in G PROVE i + 1 \in G
  <2>1. /\ i + 1 \in 0..Depth /\ i + 1 \in Nat
        /\ f[i + 1] = Longer(mf, i + 1, f[i])
    <3>1. i + 1 \in 0..Depth /\ (i + 1) - 1 = i /\ i + 1 \in Nat
      BY DepthType
    <3> QED
      BY <1>1, <3>1
  <2>2. Good(i)
    BY <1>3
  <2>3. Good(i + 1)
    BY <2>1, <2>2, LongerLeads
  <2> QED
    BY <2>1, <2>3
<1>4. Depth \in G
  <2> HIDE DEF G
  <2> QED
    BY <1>2, <1>3, DepthType, CountInduction
<1> QED
  BY <1>4 DEF f

\* A chain all of whose manifests stay as they are stays.
LEMMA WalkStays ==
    ASSUME NEW mf \in [Snapshots -> Manifest \cup {None}], NEW mg,
           NEW s \in Snapshots, WalkOf(mf)[Depth][s] # <<>>,
           \A t \in Members(WalkOf(mf)[Depth][s]) : mg[t] = mf[t]
    PROVE  WalkOf(mg)[Depth][s] = WalkOf(mf)[Depth][s]
<1> DEFINE f == WalkOf(mf)
           g == WalkOf(mg)
           Good(n) == \A t \in Snapshots :
                        /\ f[n][t] = <<>> \/ Leads(mf, f[n][t], t)
                        /\ /\ f[n][t] # <<>>
                           /\ \A u \in Members(f[n][t]) : mg[u] = mf[u]
                           => g[n][t] = f[n][t]
           G == {n \in 0..Depth : Good(n)}
<1>1. /\ \A n \in 0..Depth : f[n] = Longer(mf, n, f[n - 1])
      /\ \A n \in 0..Depth : g[n] = Longer(mg, n, g[n - 1])
  BY WalkOfWalks DEF Walks
<1> HIDE DEF f, g
<1>2. 0 \in G
  <2>1. 0 \in 0..Depth
    BY DepthType
  <2>2. f[0] = Longer(mf, 0, f[0 - 1])
    BY <1>1, <2>1
  <2>3. \A t \in Snapshots : f[0][t] = <<>>
    BY <2>2 DEF Longer
  <2> QED
    BY <2>1, <2>3
<1>3. ASSUME NEW i \in 0..(Depth - 1), i \in G PROVE i + 1 \in G
  <2>1. /\ i + 1 \in 0..Depth /\ i + 1 \in Nat /\ i + 1 # 0
        /\ f[i + 1] = Longer(mf, i + 1, f[i])
        /\ g[i + 1] = Longer(mg, i + 1, g[i])
    <3>1. i + 1 \in 0..Depth /\ (i + 1) - 1 = i /\ i + 1 \in Nat /\ i + 1 # 0
      BY DepthType
    <3> QED
      BY <1>1, <3>1
  <2>2. Good(i)
    BY <1>3
  <2>3. ASSUME NEW t \in Snapshots
        PROVE  f[i + 1][t] = <<>> \/ Leads(mf, f[i + 1][t], t)
    BY <2>1, <2>2, LongerLeads
  <2>4. ASSUME NEW t \in Snapshots, f[i + 1][t] # <<>>,
               \A u \in Members(f[i + 1][t]) : mg[u] = mf[u]
        PROVE  g[i + 1][t] = f[i + 1][t]
    <3>1. Leads(mf, f[i + 1][t], t)
      BY <2>3, <2>4
    <3>2. t \in Members(f[i + 1][t])
      BY <3>1 DEF Leads, Members
    <3>3. mg[t] = mf[t] /\ mf[t] # None /\ mf[t] \in Manifest
      BY <2>1, <2>4, <3>2, SMTT(20) DEF Longer
    <3>4. CASE mf[t].parent = None
      BY <2>1, <3>3, <3>4 DEF Longer
    <3>5. CASE mf[t].parent # None
      <4> DEFINE p == mf[t].parent
                 up == f[i][p]
      <4>1. p \in Snapshots
        BY <3>3, <3>5 DEF Manifest
      <4>2. f[i + 1][t] = Append(up, t) /\ up # <<>>
        BY <2>1, <2>4, <3>3, <3>5 DEF Longer
      <4>3. up \in Seq(Snapshots)
        BY <2>2, <4>1, <4>2 DEF Leads
      <4>4. Members(up) \subseteq Members(f[i + 1][t])
        <5> HIDE DEF up
        <5>1. /\ Len(Append(up, t)) = Len(up) + 1 /\ Len(up) \in Nat
              /\ \A k \in 1..Len(up) : Append(up, t)[k] = up[k]
              /\ DOMAIN up = 1..Len(up)
              /\ DOMAIN Append(up, t) = 1..(Len(up) + 1)
          BY <4>3
        <5>2. \A k \in DOMAIN up : k \in DOMAIN Append(up, t)
                                   /\ Append(up, t)[k] = up[k]
          BY <5>1
        <5> QED
          BY <4>2, <5>2 DEF Members
      <4>5. g[i][p] = up
        BY <2>2, <2>4, <4>1, <4>2, <4>4
      <4> QED
        BY <2>1, <3>3, <3>5, <4>2, <4>5, SMTT(20) DEF Longer
    <3> QED
      BY <3>4, <3>5
  <2> QED
    BY <2>1, <2>3, <2>4
<1>4. Depth \in G
  <2> HIDE DEF G
  <2> QED
    BY <1>2, <1>3, DepthType, CountInduction
<1> QED
  BY <1>4 DEF f, g

\* A full payload is its database, and the changes lead from one to another.
LEMMA Applied ==
    ASSUME NEW d \in Database, NEW e \in Database
    PROVE  /\ Apply(d, Changes(d, e)) = e
           /\ Apply(Empty, e) = e
  BY DEF Apply, Changes, Empty, Database

LEMMA MembersOf ==
    ASSUME NEW ch \in Seq(Snapshots)
    PROVE  /\ \A i \in 1..Len(ch) : ch[i] \in Members(ch)
           /\ \A t \in Members(ch) :
                t \in Snapshots /\ \E i \in 1..Len(ch) : t = ch[i]
  BY DEF Members

\* A chain whose payloads are there replays to the database of its last.
LEMMA ReplayedIs ==
    ASSUME Stored, \A t \in Snapshots : Ordered(t) /\ Kept(t),
           NEW s \in Snapshots, NEW ch, Leads(manifest, ch, s),
           \A t \in Members(ch) : Verified(manifest[t], t)
    PROVE  Replayed(ch) = exported[s]
<1> DEFINE N == Len(ch)
           Rep(h) == h = [i \in 0..N |->
                            IF i = 0 THEN Empty
                            ELSE Apply(h[i - 1],
                                       Loaded(manifest[ch[i]], ch[i]))]
           g == [i \in 0..N |-> IF i = 0 THEN Empty ELSE exported[ch[i]]]
<1>1. ch \in Seq(Snapshots) /\ N \in Nat \ {0} /\ ch[N] = s
  BY DEF Leads
<1>2. ASSUME NEW i \in 1..N
      PROVE  Apply(g[i - 1], Loaded(manifest[ch[i]], ch[i])) = exported[ch[i]]
  <2>1. ch[i] \in Snapshots /\ manifest[ch[i]] # None
        /\ Verified(manifest[ch[i]], ch[i])
    BY <1>1, MembersOf DEF Leads
  <2>2. /\ exported[ch[i]] \in Database
        /\ Loaded(manifest[ch[i]], ch[i]) = manifest[ch[i]].data
        /\ Describes(exported, manifest[ch[i]].data, manifest[ch[i]].parent,
                     ch[i])
    BY <2>1 DEF Verified, Ordered, Kept, Stored
  <2>3. CASE i = 1
    <3>1. manifest[ch[i]].parent = None
      BY <2>3 DEF Leads
    <3>2. g[i - 1] = Empty
      BY <2>3
    <3> QED
      BY <2>2, <3>1, <3>2, Applied DEF Describes
  <2>4. CASE i # 1
    <3>1. i \in 2..N /\ i - 1 \in 0..N /\ i - 1 # 0 /\ i - 1 \in 1..N
      BY <1>1, <2>4
    <3>2. manifest[ch[i]].parent = ch[i - 1] /\ ch[i - 1] \in Snapshots
      BY <1>1, <3>1 DEF Leads
    <3>3. ch[i - 1] # None
      BY <3>2, NoneAssumption
    <3>4. g[i - 1] = exported[ch[i - 1]]
      BY <3>1
    <3>5. exported[ch[i - 1]] \in Database
      BY <2>2, <3>2, <3>3 DEF Describes, Stored
    <3> HIDE DEF g
    <3> QED
      BY <2>2, <3>2, <3>3, <3>4, <3>5, Applied DEF Describes
  <2> QED
    BY <2>3, <2>4
<1>3. Rep(g)
  <2>1. \A i \in 0..N : g[i] = IF i = 0 THEN Empty
          ELSE Apply(g[i - 1], Loaded(manifest[ch[i]], ch[i]))
    <3>1. \A i \in 0..N : i # 0 => i \in 1..N
      BY <1>1
    <3>2. \A i \in 0..N : g[i] = IF i = 0 THEN Empty ELSE exported[ch[i]]
      OBVIOUS
    <3> HIDE DEF g
    <3> QED
      BY <1>2, <3>1, <3>2
  <2>2. g = [i \in 0..N |-> g[i]]
    OBVIOUS
  <2> HIDE DEF g
  <2> QED
    BY <2>1, <2>2
<1> HIDE DEF g
<1>4. PICK h : Rep(h) /\ Replayed(ch) = h[N]
  <2>1. Replayed(ch) = (CHOOSE h : Rep(h))[N]
    BY DEF Replayed
  <2>2. Rep(CHOOSE h : Rep(h))
    <3> HIDE DEF Rep
    <3> QED
      BY <1>3, Zenon
  <2> HIDE DEF Rep
  <2> QED
    BY <2>1, <2>2
<1> DEFINE G == {i \in 0..N : h[i] = g[i]}
<1>5. 0 \in G
  BY <1>1, <1>3, <1>4
<1>6. ASSUME NEW i \in 0..(N - 1), i \in G PROVE i + 1 \in G
  <2>1. i + 1 \in 0..N /\ i + 1 # 0 /\ (i + 1) - 1 = i
    BY <1>1
  <2>2. /\ h[i + 1] = Apply(h[i], Loaded(manifest[ch[i + 1]], ch[i + 1]))
        /\ g[i + 1] = Apply(g[i], Loaded(manifest[ch[i + 1]], ch[i + 1]))
    BY <1>3, <1>4, <2>1
  <2> QED
    BY <1>6, <2>1, <2>2
<1>7. N \in G
  <2> HIDE DEF G, N
  <2> QED
    BY <1>1, <1>5, <1>6, CountInduction
<1>8. g[N] = exported[s]
  BY <1>1 DEF g
<1> QED
  BY <1>4, <1>7, <1>8

LEMMA ChainLeads ==
    ASSUME Stored, NEW s \in Snapshots, Chain(s) # <<>>
    PROVE  Leads(manifest, Chain(s), s)
  BY ChainIs, WalkLeads DEF Stored

LEMMA FaithfulBecause == BackupInv => SnapshotsFaithful
<1> SUFFICES ASSUME BackupInv, NEW s \in Published, Chain(s) # <<>>,
                    Members(Chain(s)) \cap doomed = {}
             PROVE  Restorable(s) /\ Replayed(Chain(s)) = exported[s]
  BY DEF SnapshotsFaithful
<1>1. s \in Snapshots /\ Stored
      /\ \A t \in Snapshots : Ordered(t) /\ Kept(t)
  BY DEF Published, BackupInv
<1>2. Leads(manifest, Chain(s), s)
  BY <1>1, ChainLeads
<1>3. ASSUME NEW t \in Members(Chain(s)) PROVE Verified(manifest[t], t)
  <2>1. t \in Snapshots /\ manifest[t] # None
    BY <1>2, MembersOf DEF Leads
  <2> QED
    BY <1>1, <1>3, <2>1 DEF Kept
<1> QED
  BY <1>1, <1>2, <1>3, ReplayedIs DEF Restorable

-----------------------------------------------------------------------------
(* How each part of the invariant is kept.                                 *)

\* What was exported stays.
ExportsStay ==
    \A s \in Snapshots : exported[s] # None => exported'[s] = exported[s]

\* A payload is written by the maker of its snapshot and by nobody else.
PayloadsStay ==
    \A s \in Snapshots :
        \/ payload'[s] \in {payload[s], None}
        \/ \E w \in Writers : Owns(w) /\ writer[w].snap = s

\* A call goes on with its snapshot or begins with a new one.
OwnersStay ==
    \A w \in Writers :
        Owns(w)' => \/ Owns(w) /\ writer'[w].snap = writer[w].snap
                    \/ exported[writer'[w].snap] = None

LEMMA DescribesStays ==
    ASSUME ExportsStay, NEW s \in Snapshots, exported[s] # None,
           NEW data, NEW parent, Describes(exported, data, parent, s)
    PROVE  Describes(exported', data, parent, s)
  BY DEF ExportsStay, Describes

LEMMA ReadStays ==
    ASSUME ExportsStay, PayloadsStay, OwnersStay, NEW e \in Entry, Read(e)
    PROVE  Read(e)'
<1>1. e.id \in Snapshots /\ exported[e.id] # None
  BY DEF Entry, Read
<1>2. exported'[e.id] # None
  BY <1>1 DEF ExportsStay
<1>3. Describes(exported', e.m.data, e.m.parent, e.id)
  BY <1>1, DescribesStays DEF Read
<1>4. payload'[e.id] \in {None, e.m.data}
  BY <1>1 DEF PayloadsStay, Read
<1>5. \A w \in Writers : Owns(w)' => writer'[w].snap # e.id
  BY <1>1 DEF OwnersStay, Read
<1> QED
  BY <1>2, <1>3, <1>4, <1>5 DEF Read

LEMMA WalkedStays ==
    ASSUME ExportsStay, PayloadsStay, OwnersStay, NEW r, Walked(r)
    PROVE  Walked(r)'
<1>1. \A i \in 1..Len(r.chain) : r.chain[i] \in Entry
  BY DEF Walked
<1>2. \A i \in 1..Len(r.chain) : Read(r.chain[i])'
  BY <1>1, ReadStays DEF Walked
<1> QED
  BY <1>2 DEF Walked

\* The last snapshot read so far has its database.
LEMMA WalkedExported ==
    ASSUME NEW r, Walked(r)
    PROVE  /\ \A i \in 1..Len(r.chain) :
                r.chain[i].id \in Snapshots /\ exported[r.chain[i].id] # None
           /\ r.chain # <<>> =>
                r.snap \in Snapshots /\ exported[r.snap] # None
<1>1. \A i \in 1..Len(r.chain) :
        r.chain[i].id \in Snapshots /\ exported[r.chain[i].id] # None
  <2>1. \A i \in 1..Len(r.chain) : r.chain[i] \in Entry /\ Read(r.chain[i])
    BY DEF Walked
  <2> QED
    BY <2>1 DEF Read, Entry
<1>2. ASSUME r.chain # <<>>
      PROVE  r.snap \in Snapshots /\ exported[r.snap] # None
  <2>1. Len(r.chain) \in 1..Len(r.chain) /\ r.chain[Len(r.chain)].id = r.snap
    BY <1>2 DEF Walked
  <2> QED
    BY <1>1, <2>1
<1> QED
  BY <1>1, <1>2

LEMMA RestoresStays ==
    ASSUME ExportsStay, PayloadsStay, OwnersStay, NEW r, Restores(r)
    PROVE  Restores(r)'
<1>1. Walked(r) => Walked(r)'
  BY WalkedStays
<1>2. CASE r.pc = "stage"
  <2>1. Walked(r) /\ r.next \in 1..(Len(r.chain) + 1) /\ Len(r.chain) \in Nat
    BY <1>2 DEF Restores, Walked
  <2>2. r.next # 1 => r.next - 1 \in 1..Len(r.chain)
    BY <2>1
  <2>3. r.next # 1 => exported'[r.chain[r.next - 1].id]
                      = exported[r.chain[r.next - 1].id]
    BY <2>1, <2>2, WalkedExported DEF ExportsStay
  <2> QED
    BY <1>1, <1>2, <2>3 DEF Restores
<1>3. CASE r.pc = "ok"
  BY <1>1, <1>3 DEF Restores, ExportsStay
<1>4. CASE r.pc \notin {"stage", "ok"}
  BY <1>1, <1>4 DEF Restores
<1> QED
  BY <1>2, <1>3, <1>4

\* While a writer is at work the others wait.
LEMMA OthersWait ==
    ASSUME LockInv, NEW w \in Writers, Working(w), NEW v \in Writers, v # w
    PROVE  writer[v].pc \in {"idle", "acquire"}
  BY DEF LockInv, SingleWriter, Working

\* The calls of the others, and the one of w.
LEMMA MakersStep ==
    ASSUME BackupInv, NEW w \in Writers, NEW c,
           writer' = [writer EXCEPT ![w] = c],
           \A v \in Writers \ {w} :
               Owns(v) => Pending(writer[v])' /\ Built(writer[v])',
           Phased(c),
           Owning(c) =>
               /\ Pending(c)' /\ Built(c)'
               /\ \/ Owns(w) /\ c.snap = writer[w].snap
                  \/ c.snap \notin minted
    PROVE  Makers'
<1>1. /\ writer'[w] = c
      /\ \A v \in Writers \ {w} : writer'[v] = writer[v]
  BY DEF BackupInv, LockInv, Shape
<1>2. ASSUME NEW v \in Writers, Owns(v)'
      PROVE  (Pending(writer[v]) /\ Built(writer[v]))'
  <2>1. CASE v = w
    BY <1>1, <1>2, <2>1 DEF Owns, Pending, Built
  <2>2. CASE v # w
    <3>1. Owns(v) /\ writer'[v] = writer[v]
      BY <1>1, <1>2, <2>2 DEF Owns
    <3>2. Pending(writer[v])' /\ Built(writer[v])'
      BY <2>2, <3>1
    <3> QED
      BY <3>1, <3>2
  <2> QED
    BY <2>1, <2>2
<1>3. \A v \in Writers : Owns(v) => writer[v].snap \in minted
  BY DEF BackupInv, Makers, Pending
<1>4. ASSUME NEW u \in Writers, NEW v \in Writers, Owns(u)', Owns(v)', u # v
      PROVE  writer'[u].snap # writer'[v].snap
  <2>1. CASE u = w
    <3>1. Owns(v) /\ writer'[v] = writer[v] /\ writer'[u] = c /\ Owning(c)
      BY <1>1, <1>4, <2>1 DEF Owns
    <3> QED
      BY <1>3, <1>4, <2>1, <3>1 DEF BackupInv, Makers
  <2>2. CASE v = w
    <3>1. Owns(u) /\ writer'[u] = writer[u] /\ writer'[v] = c /\ Owning(c)
      BY <1>1, <1>4, <2>2 DEF Owns
    <3> QED
      BY <1>3, <1>4, <2>2, <3>1 DEF BackupInv, Makers
  <2>3. CASE u # w /\ v # w
    BY <1>1, <1>4, <2>3 DEF Owns, BackupInv, Makers
  <2> QED
    BY <2>1, <2>2, <2>3
<1>5. ASSUME NEW v \in Writers PROVE Phased(writer'[v])
  BY <1>1 DEF BackupInv, Makers
<1> QED
  BY <1>2, <1>4, <1>5 DEF Makers, Phased

LEMMA OwnersStep ==
    ASSUME BackupInv, NEW w \in Writers, NEW c,
           writer' = [writer EXCEPT ![w] = c],
           Owning(c) => \/ Owns(w) /\ c.snap = writer[w].snap
                        \/ c.snap \in Snapshots \ minted
    PROVE  OwnersStay
<1>1. /\ writer'[w] = c
      /\ \A v \in Writers \ {w} : writer'[v] = writer[v]
  BY DEF BackupInv, LockInv, Shape
<1>2. \A s \in Snapshots \ minted : exported[s] = None
  BY DEF BackupInv, Ordered
<1> QED
  BY <1>1, <1>2 DEF OwnersStay, Owns

\* A step that only moves the call of w, and may mint an id for it.
LEMMA CallStep ==
    ASSUME BackupInv, LockInv', NEW w \in Writers, NEW c,
           writer' = [writer EXCEPT ![w] = c],
           UNCHANGED <<manifest, payload, content, db, source, exported,
                       doomed, restore>>,
           minted \subseteq minted', minted' \subseteq Snapshots,
           Owning(c) =>
               /\ Pending(c)' /\ Built(c)
               /\ \/ Owns(w) /\ c.snap = writer[w].snap
                  \/ c.snap \in Snapshots \ minted,
           Phased(c), Spares(c)
    PROVE  BackupInv'
<1>1. /\ writer'[w] = c
      /\ \A v \in Writers \ {w} : writer'[v] = writer[v]
  BY DEF BackupInv, LockInv, Shape
<1>2. Stored'
  BY DEF BackupInv, Stored
<1>3. \A s \in Snapshots : Ordered(s)' /\ Kept(s)'
  BY DEF BackupInv, Ordered, Kept, Verified, Loaded
<1>4. \A d : Built(d) => Built(d)'
  BY DEF Built
<1>5. \A v \in Writers \ {w} :
        Owns(v) => Pending(writer[v])' /\ Built(writer[v])'
  <2> SUFFICES ASSUME NEW v \in Writers \ {w}, Owns(v)
               PROVE  Pending(writer[v])' /\ Built(writer[v])'
    OBVIOUS
  <2>1. PICK d : d = writer[v] /\ d = writer'[v]
    BY <1>1
  <2>2. Pending(d) /\ Built(d)
    BY <2>1 DEF BackupInv, Makers
  <2>3. Pending(d)' /\ Built(d)'
    BY <1>4, <2>2 DEF Pending
  <2> QED
    BY <2>1, <2>3
<1>6. Makers'
  BY <1>4, <1>5, MakersStep
<1>7. ASSUME NEW v \in Writers PROVE Spares(writer[v])'
  <2>1. PICK d : d = writer'[v] /\ Spares(d)
    BY <1>1 DEF BackupInv
  <2>2. Spares(d)'
    BY <2>1 DEF Spares, Published
  <2> QED
    BY <2>1, <2>2
<1>8. Restores(restore)'
  <2>1. ExportsStay /\ PayloadsStay
    BY DEF ExportsStay, PayloadsStay
  <2>2. OwnersStay
    BY OwnersStep
  <2>3. PICK r : r = restore /\ r = restore'
    OBVIOUS
  <2>4. Restores(r)
    BY <2>3 DEF BackupInv
  <2>5. Restores(r)'
    BY <2>1, <2>2, <2>4, RestoresStays
  <2> QED
    BY <2>3, <2>5
<1> QED
  BY <1>2, <1>3, <1>6, <1>7, <1>8 DEF BackupInv

-----------------------------------------------------------------------------
(* The steps of the writers that change no blob.                           *)

\* A call ends, or has only its lock to give back.
LEMMA LeaveStep ==
    ASSUME BackupInv, LockInv', NEW w \in Writers, NEW c,
           writer' = [writer EXCEPT ![w] = c], c.pc \in {"idle", "release"},
           UNCHANGED <<manifest, payload, content, db, source, exported,
                       doomed, restore, minted>>
    PROVE  BackupInv'
<1>1. ~Owning(c) /\ Phased(c) /\ Spares(c)
  BY DEF Owning, Phased, Spares
<1>2. minted' = minted /\ minted' \subseteq Snapshots
  BY DEF BackupInv, Stored
<1> QED
  BY <1>1, <1>2, CallStep

LEMMA CallOf ==
    ASSUME BackupInv, NEW w \in Writers
    PROVE  /\ IsCall(writer[w])
           /\ writer' = [writer EXCEPT ![w] = writer'[w]] =>
                \A v \in Writers \ {w} : writer'[v] = writer[v]
           /\ Owns(w) => Pending(writer[w]) /\ Built(writer[w])
           /\ Owns(w) => writer[w].snap \in Snapshots
           /\ Phased(writer[w]) /\ Spares(writer[w])
  BY DEF BackupInv, LockInv, Shape, Makers, Pending, Stored

LEMMA FailStep ==
    ASSUME BackupInv, LockInv', NEW w \in Writers, Fail(w),
           UNCHANGED <<manifest, payload, content, db, source, exported,
                       doomed, restore, minted>>
    PROVE  BackupInv'
<1> DEFINE c == [writer[w] EXCEPT !.pc = "release"]
<1>1. writer' = [writer EXCEPT ![w] = c]
  BY DEF Fail, Goto
<1>2. c.pc = "release"
  BY CallOf DEF IsCall, Fields
<1> HIDE DEF c
<1> QED
  BY <1>1, <1>2, LeaveStep

LEMMA LeavesStep ==
    ASSUME BackupInv, LockInv', NEW w \in Writers,
           \/ AcquireRefused(w) \/ AcquireFails(w) \/ Release(w) \/ Crash(w)
           \/ OperationFails(w) \/ SweepDone(w)
    PROVE  BackupInv'
<1>1. CASE AcquireRefused(w) \/ AcquireFails(w) \/ Release(w) \/ Crash(w)
  <2>1. /\ writer' = [writer EXCEPT ![w] = Idle]
        /\ UNCHANGED <<manifest, payload, content, db, source, exported,
                       doomed, restore, minted>>
    BY <1>1 DEF AcquireRefused, AcquireFails, Release, Crash, blobs, app
  <2> QED
    BY <2>1, IdleIsCall, LeaveStep
<1>2. CASE OperationFails(w) \/ SweepDone(w)
  <2>1. /\ Fail(w)
        /\ UNCHANGED <<manifest, payload, content, db, source, exported,
                       doomed, restore, minted>>
    BY <1>2 DEF OperationFails, SweepDone, Fail, blobs, app
  <2> QED
    BY <2>1, FailStep
<1> QED
  BY <1>1, <1>2

LEMMA AcquireStep ==
    ASSUME BackupInv, LockInv', NEW w \in Writers, Acquire(w)
    PROVE  BackupInv'
<1>1. PICK d : d = writer[w]
  OBVIOUS
<1> DEFINE c == [d EXCEPT !.pc = "begin"]
<1>2. /\ writer' = [writer EXCEPT ![w] = c] /\ d.pc = "acquire"
      /\ UNCHANGED <<manifest, payload, content, db, source, exported,
                     doomed, restore, minted>>
  BY <1>1 DEF Acquire, Goto, blobs, app
<1>3. /\ c.pc = "begin" /\ c.op = d.op /\ c.snap = d.snap /\ c.at = d.at
      /\ c.from = d.from
  BY <1>1, CallOf DEF IsCall, Fields
<1> HIDE DEF c
<1>4. Phased(c) /\ Spares(c) /\ Built(c)
  BY <1>3 DEF Phased, Spares, Built
<1>5. ASSUME Owning(c)
      PROVE  Pending(c)' /\ Owns(w) /\ c.snap = writer[w].snap
  <2>1. Owning(d)
    BY <1>2, <1>3, <1>5 DEF Owning
  <2>2. Pending(d)
    BY <1>1, <2>1, CallOf DEF Owns
  <2> QED
    BY <1>1, <1>2, <1>3, <2>1, <2>2 DEF Pending, Owns
<1>6. minted' = minted /\ minted' \subseteq Snapshots
  BY <1>2 DEF BackupInv, Stored
<1> QED
  BY <1>2, <1>4, <1>5, <1>6, CallStep

\* An id is minted, for a snapshot nobody else makes or has made.
LEMMA RequestSnapshotStep ==
    ASSUME BackupInv, LockInv', NEW w \in Writers, NEW op \in Operations,
           NEW s \in Snapshots, NEW at \in Times, RequestSnapshot(w, op, s, at)
    PROVE  BackupInv'
<1>1. /\ s \notin minted /\ minted' = minted \cup {s}
      /\ manifest[s] = None /\ exported[s] = None
      /\ minted' \subseteq Snapshots
  BY DEF RequestSnapshot, BackupInv, Ordered, Stored
<1>2. PICK c : /\ writer' = [writer EXCEPT ![w] = c]
               /\ UNCHANGED <<manifest, payload, content, db, source,
                              exported, doomed, restore>>
               /\ c.pc = "acquire" /\ c.snap = s /\ c.at = at
               /\ c.op = op
               /\ op = "full" \/ c.from \in Published
  <2>1. CASE op = "full" /\
             Request(w, [Idle EXCEPT !.op = op, !.snap = s, !.at = at])
    <3> DEFINE c == [[Idle EXCEPT !.op = op, !.snap = s, !.at = at]
                       EXCEPT !.pc = "acquire"]
    <3>1. c.pc = "acquire" /\ c.snap = s /\ c.at = at /\ c.op = op
      BY DEF Idle
    <3>2. /\ writer' = [writer EXCEPT ![w] = c]
          /\ UNCHANGED <<manifest, payload, content, db, source,
                         exported, doomed, restore>>
      BY <2>1 DEF Request, blobs, app
    <3> HIDE DEF c
    <3> QED
      BY <2>1, <3>1, <3>2
  <2>2. ASSUME NEW from \in Published,
               Request(w, [Idle EXCEPT !.op = op, !.snap = s, !.from = from,
                                       !.at = at])
        PROVE  \E c : /\ writer' = [writer EXCEPT ![w] = c]
                      /\ UNCHANGED <<manifest, payload, content, db, source,
                                     exported, doomed, restore>>
                      /\ c.pc = "acquire" /\ c.snap = s /\ c.at = at
                      /\ c.op = op
                      /\ op = "full" \/ c.from \in Published
    <3> DEFINE c == [[Idle EXCEPT !.op = op, !.snap = s, !.from = from,
                                  !.at = at] EXCEPT !.pc = "acquire"]
    <3>1. c.pc = "acquire" /\ c.snap = s /\ c.at = at /\ c.op = op
          /\ c.from = from
      BY DEF Idle
    <3>2. /\ writer' = [writer EXCEPT ![w] = c]
          /\ UNCHANGED <<manifest, payload, content, db, source,
                         exported, doomed, restore>>
      BY <2>2 DEF Request, blobs, app
    <3> HIDE DEF c
    <3> QED
      BY <3>1, <3>2
  <2> QED
    BY <2>1, <2>2 DEF RequestSnapshot
<1>3. Phased(c) /\ Spares(c) /\ Built(c)
  BY <1>2 DEF Phased, Spares, Built
<1>4. Pending(c)'
  <2>1. op # "full" => c.from \in Snapshots /\ exported[c.from] # None
    BY <1>2 DEF Published, BackupInv, Ordered
  <2> QED
    BY <1>1, <1>2, <2>1 DEF Pending
<1> QED
  BY <1>1, <1>2, <1>3, <1>4, CallStep

LEMMA RequestRemovalStep ==
    ASSUME BackupInv, LockInv', NEW w \in Writers, RequestRemoval(w)
    PROVE  BackupInv'
<1>1. PICK c : /\ writer' = [writer EXCEPT ![w] = c]
               /\ UNCHANGED <<manifest, payload, content, db, source,
                              exported, doomed, restore, minted>>
               /\ c.pc = "acquire" /\ c.op \in {"prune", "delete"}
  <2>1. ASSUME NEW keep \in Keeps,
               Request(w, [Idle EXCEPT !.op = "prune", !.at = keep])
        PROVE  \E c : /\ writer' = [writer EXCEPT ![w] = c]
                      /\ UNCHANGED <<manifest, payload, content, db, source,
                                     exported, doomed, restore, minted>>
                      /\ c.pc = "acquire" /\ c.op \in {"prune", "delete"}
    <3> DEFINE c == [[Idle EXCEPT !.op = "prune", !.at = keep]
                       EXCEPT !.pc = "acquire"]
    <3>1. c.pc = "acquire" /\ c.op = "prune"
      BY DEF Idle
    <3>2. /\ writer' = [writer EXCEPT ![w] = c]
          /\ UNCHANGED <<manifest, payload, content, db, source,
                         exported, doomed, restore, minted>>
      BY <2>1 DEF Request, RequestRemoval, blobs, app
    <3> HIDE DEF c
    <3> QED
      BY <3>1, <3>2
  <2>2. ASSUME NEW s \in Published,
               Request(w, [Idle EXCEPT !.op = "delete", !.from = s])
        PROVE  \E c : /\ writer' = [writer EXCEPT ![w] = c]
                      /\ UNCHANGED <<manifest, payload, content, db, source,
                                     exported, doomed, restore, minted>>
                      /\ c.pc = "acquire" /\ c.op \in {"prune", "delete"}
    <3> DEFINE c == [[Idle EXCEPT !.op = "delete", !.from = s]
                       EXCEPT !.pc = "acquire"]
    <3>1. c.pc = "acquire" /\ c.op = "delete"
      BY DEF Idle
    <3>2. /\ writer' = [writer EXCEPT ![w] = c]
          /\ UNCHANGED <<manifest, payload, content, db, source,
                         exported, doomed, restore, minted>>
      BY <2>2 DEF Request, RequestRemoval, blobs, app
    <3> HIDE DEF c
    <3> QED
      BY <3>1, <3>2
  <2> QED
    BY <2>1, <2>2 DEF RequestRemoval
<1>2. ~Owning(c) /\ Phased(c) /\ Spares(c)
  BY <1>1 DEF Owning, Making, Phased, Spares
<1>3. minted' = minted /\ minted' \subseteq Snapshots
  BY <1>1 DEF BackupInv, Stored
<1> QED
  BY <1>1, <1>2, <1>3, CallStep

\* The objects a database refers to are objects.
LEMMA ReferencedType ==
    ASSUME NEW d \in Database PROVE Referenced(d) \subseteq Objects
  BY DEF Referenced, Database

LEMMA ListObjectsStep ==
    ASSUME BackupInv, LockInv', NEW w \in Writers, ListObjects(w)
    PROVE  BackupInv'
<1>1. PICK d : d = writer[w] /\ d = [f \in Fields |-> d[f]]
  BY CallOf DEF IsCall
<1>2. PICK refs : /\ refs \subseteq Objects
                  /\ writer' = [writer EXCEPT ![w] =
                       [d EXCEPT !.pc = "payload", !.objects = refs,
                                 !.todo = refs]]
                  /\ d.pc = "list"
                  /\ UNCHANGED <<manifest, payload, content, db, source,
                                 exported, doomed, restore, minted>>
  <2>1. Referenced(db) \subseteq Objects
    BY ReferencedType DEF BackupInv, Stored
  <2> DEFINE refs == IF d.op = "full" THEN Referenced(db)
                     ELSE Referenced(db) \ Referenced(exported[d.from])
  <2>2. refs \subseteq Objects
    BY <2>1
  <2>3. /\ writer' = [writer EXCEPT ![w] =
                       [d EXCEPT !.pc = "payload", !.objects = refs,
                                 !.todo = refs]]
        /\ d.pc = "list"
        /\ UNCHANGED <<manifest, payload, content, db, source,
                       exported, doomed, restore, minted>>
    BY <1>1 DEF ListObjects, blobs, app
  <2> HIDE DEF refs
  <2> QED
    BY <2>2, <2>3
<1> DEFINE c == [d EXCEPT !.pc = "payload", !.objects = refs, !.todo = refs]
<1>3. /\ c.pc = "payload" /\ c.op = d.op /\ c.snap = d.snap /\ c.at = d.at
      /\ c.from = d.from /\ c.data = d.data /\ c.objects = refs
      /\ c.todo = refs
  BY <1>1 DEF Fields
<1>4. writer' = [writer EXCEPT ![w] = c]
  BY <1>2
<1> HIDE DEF c
<1>5. Phased(c) /\ Spares(c)
  BY <1>1, <1>2, <1>3, CallOf DEF Phased, Spares
<1>6. ASSUME Owning(c)
      PROVE  Pending(c)' /\ Built(c) /\ Owns(w) /\ c.snap = writer[w].snap
  <2>1. Owning(d)
    BY <1>2, <1>3, <1>6 DEF Owning
  <2>2. Pending(d) /\ Built(d)
    BY <1>1, <2>1, CallOf DEF Owns
  <2>3. Pending(c)'
    BY <1>2, <1>3, <2>2 DEF Pending
  <2>4. ParentOf(c) = ParentOf(d)
    BY <1>3 DEF ParentOf
  <2>5. Built(c)
    BY <1>2, <1>3, <2>2, <2>4 DEF Built
  <2> QED
    BY <1>1, <1>3, <2>1, <2>3, <2>5 DEF Owns
<1>7. minted' = minted /\ minted' \subseteq Snapshots
  BY <1>2 DEF BackupInv, Stored
<1> QED
  BY <1>2, <1>4, <1>5, <1>6, <1>7, CallStep

-----------------------------------------------------------------------------
(* The steps of the writer that holds the lock.                            *)

\* Snapshot s is not the one that w makes.
Foreign(w, s) == ~(Owns(w) /\ s = writer[w].snap)

LEMMA WorkStep ==
    ASSUME BackupInv, LockInv', NEW w \in Writers, NEW c, Working(w),
           writer' = [writer EXCEPT ![w] = c],
           UNCHANGED <<restore, minted>>,
           Stored', \A s \in Snapshots : Ordered(s)' /\ Kept(s)',
           ExportsStay, PayloadsStay,
           \A s \in Snapshots : Foreign(w, s) =>
               /\ manifest[s] = None => manifest'[s] = None
               /\ exported[s] = None => exported'[s] = None,
           Owning(c) =>
               Pending(c)' /\ Built(c)' /\ Owns(w) /\ c.snap = writer[w].snap,
           Phased(c), Spares(c)'
    PROVE  BackupInv'
<1>1. /\ writer'[w] = c
      /\ \A v \in Writers \ {w} : writer'[v] = writer[v]
  BY DEF BackupInv, LockInv, Shape
<1>2. ASSUME NEW v \in Writers \ {w}, Owns(v)
      PROVE  Pending(writer[v])' /\ Built(writer[v])'
  <2>1. PICK d : d = writer[v] /\ d = writer'[v]
    BY <1>1
  <2>2. Pending(d) /\ d.pc = "acquire" /\ d.snap \in Snapshots
    BY <1>2, <2>1, CallOf, OthersWait DEF Owns, Owning, BackupInv
  <2>3. Foreign(w, d.snap)
    BY <1>2, <2>1 DEF BackupInv, Makers, Foreign
  <2>4. d.op # "full" => d.from \in Snapshots /\ exported'[d.from] # None
    BY <2>2 DEF Pending, ExportsStay
  <2>5. Pending(d)'
    BY <2>2, <2>3, <2>4 DEF Pending
  <2>6. Built(d)'
    BY <2>2 DEF Built
  <2> QED
    BY <2>1, <2>5, <2>6
<1>3. Makers'
  BY <1>2, MakersStep
<1>4. ASSUME NEW v \in Writers PROVE Spares(writer[v])'
  <2>1. CASE v = w
    BY <1>1, <2>1 DEF Spares, Published
  <2>2. CASE v # w
    <3>1. writer'[v].pc # "sweep"
      BY <1>1, <2>2, OthersWait DEF BackupInv
    <3> QED
      BY <3>1 DEF Spares
  <2> QED
    BY <2>1, <2>2
<1>5. Restores(restore)'
  <2>1. OwnersStay
    BY OwnersStep
  <2>2. PICK r : r = restore /\ r = restore'
    OBVIOUS
  <2>3. Restores(r)
    BY <2>2 DEF BackupInv
  <2>4. Restores(r)'
    BY <2>1, <2>3, RestoresStays
  <2> QED
    BY <2>2, <2>4
<1> QED
  BY <1>3, <1>4, <1>5 DEF BackupInv

LEMMA DatabaseIsPayload ==
    /\ Database \subseteq Payload
    /\ None \notin Database
    /\ \A d, e \in Database : Changes(d, e) \in Payload
<1>1. Rows \in SUBSET Rows
  OBVIOUS
<1>2. Database \subseteq Payload
  BY <1>1 DEF Database, Payload
<1>3. ASSUME NEW d \in Database, NEW e \in Database
      PROVE  Changes(d, e) \in Payload
  <2> DEFINE S == {q \in Rows : d[q] # e[q]}
  <2>1. S \in SUBSET Rows /\ Changes(d, e) \in [S -> Objects \cup {Gone}]
    BY DEF Changes, Database
  <2> HIDE DEF S
  <2> QED
    BY <2>1 DEF Payload
<1> QED
  BY <1>2, <1>3, BlobAssumption

\* Snapshots that nobody writes keep what is true of them.
LEMMA KeptStays ==
    ASSUME BackupInv, NEW s \in Snapshots, ExportsStay,
           UNCHANGED <<manifest[s], payload[s]>>, doomed \subseteq doomed',
           \A o \in Objects :
               manifest[s] # None /\ o \in manifest[s].objects
               /\ content[o] = "good" => content'[o] = "good",
           minted' = minted, exported[s] = None => exported'[s] = None
    PROVE  Ordered(s)' /\ Kept(s)'
<1>1. Ordered(s) /\ Kept(s) /\ manifest[s] \in Manifest \cup {None}
  BY DEF BackupInv, Stored
<1>2. Ordered(s)'
  BY <1>1 DEF Ordered, ExportsStay
<1>3. ASSUME manifest'[s] # None
      PROVE  /\ manifest'[s].kind = "Incremental"
                  <=> manifest'[s].parent # None
             /\ Describes(exported', manifest'[s].data, manifest'[s].parent, s)
             /\ payload'[s] \in {None, manifest'[s].data}
             /\ s \notin doomed' => Verified(manifest[s], s)'
  <2>1. manifest[s] # None /\ manifest[s] \in Manifest /\ exported[s] # None
    BY <1>1, <1>3 DEF Ordered
  <2>2. Describes(exported', manifest[s].data, manifest[s].parent, s)
    BY <1>1, <2>1, DescribesStays DEF Kept
  <2>3. s \notin doomed' => Verified(manifest[s], s)'
    BY <1>1, <2>1 DEF Kept, Verified, Loaded, Manifest
  <2> QED
    BY <1>1, <2>1, <2>2, <2>3 DEF Kept
<1> QED
  BY <1>2, <1>3 DEF Kept

LEMMA ExportStep ==
    ASSUME BackupInv, LockInv', NEW w \in Writers, Export(w)
    PROVE  BackupInv'
<1>1. PICK d : d = writer[w] /\ d = [f \in Fields |-> d[f]]
  BY CallOf DEF IsCall
<1>0. PICK data, c :
        /\ data = IF d.op = "full" THEN db ELSE Changes(exported[d.from], db)
        /\ c = [d EXCEPT !.pc = "list", !.data = data]
  OBVIOUS
<1>2. /\ d.pc = "begin" /\ d.op \in {"full", "incremental"}
      /\ writer' = [writer EXCEPT ![w] = c]
      /\ exported' = [exported EXCEPT ![d.snap] = db]
      /\ UNCHANGED <<manifest, payload, content, db, source, doomed, restore,
                     minted>>
  BY <1>0, <1>1 DEF Export, blobs, app
<1>3. /\ Owns(w) /\ Working(w) /\ Pending(d) /\ d.snap \in Snapshots
  BY <1>1, <1>2, CallOf DEF Owns, Owning, Making, Working
<1>4. db \in Database /\ Stored
  BY DEF BackupInv, Stored
<1>5. /\ exported[d.snap] = None /\ exported'[d.snap] = db /\ db # None
      /\ \A s \in Snapshots \ {d.snap} : exported'[s] = exported[s]
  BY <1>2, <1>3, <1>4, DatabaseIsPayload DEF Pending, Stored
<1>6. ExportsStay /\ PayloadsStay
  BY <1>2, <1>5 DEF ExportsStay, PayloadsStay
<1>7. Stored'
  BY <1>2, <1>3, <1>4 DEF Stored
<1>8. ASSUME NEW s \in Snapshots PROVE Ordered(s)' /\ Kept(s)'
  <2>1. CASE s = d.snap
    <3>1. manifest'[s] = None /\ s \in minted'
      BY <1>2, <1>3, <2>1 DEF Pending
    <3>2. exported'[s] # None
      BY <1>5, <2>1
    <3> QED
      BY <3>1, <3>2 DEF Ordered, Kept
  <2>2. CASE s # d.snap
    BY <1>2, <1>5, <1>6, <2>2, KeptStays
  <2> QED
    BY <2>1, <2>2
<1>9. /\ c.pc = "list" /\ c.op = d.op /\ c.snap = d.snap /\ c.at = d.at
      /\ c.from = d.from /\ c.data = data
  BY <1>0, <1>1 DEF Fields
<1>10. d.op # "full" => /\ d.from \in Snapshots /\ exported[d.from] \in Database
                        /\ d.from # d.snap /\ d.from # None
  BY <1>3, <1>4, <1>5, NoneAssumption DEF Pending, Stored
<1>11. data \in Payload
  BY <1>0, <1>2, <1>4, <1>10, DatabaseIsPayload
<1>12. Describes(exported', data, ParentOf(c), d.snap)
  <2>1. CASE d.op = "full"
    BY <1>0, <1>5, <1>9, <2>1 DEF ParentOf, Describes
  <2>2. CASE d.op = "incremental"
    <3>1. exported'[d.from] = exported[d.from] /\ exported[d.from] # None
      BY <1>5, <1>10, <2>2, DatabaseIsPayload
    <3>2. ParentOf(c) = d.from
      BY <1>9, <2>2 DEF ParentOf
    <3> QED
      BY <1>0, <1>5, <1>10, <2>2, <3>1, <3>2 DEF Describes
  <2> QED
    BY <1>2, <2>1, <2>2
<1>13. Phased(c) /\ Spares(c)'
  BY <1>2, <1>9 DEF Phased, Spares, Making
<1>14. Pending(c)'
  <2>1. d.op # "full" => exported'[d.from] # None
    BY <1>5, <1>10, DatabaseIsPayload
  <2> QED
    BY <1>2, <1>3, <1>9, <2>1 DEF Pending
<1>15. Built(c)'
  <2>1. payload'[d.snap] = None
    BY <1>2, <1>3, <1>5 DEF BackupInv, Ordered
  <2> QED
    BY <1>5, <1>9, <1>11, <1>12, <2>1 DEF Built
<1>16. \A s \in Snapshots : Foreign(w, s) =>
         /\ manifest[s] = None => manifest'[s] = None
         /\ exported[s] = None => exported'[s] = None
  BY <1>1, <1>2, <1>3, <1>5 DEF Foreign
<1>17. c.snap = writer[w].snap
  BY <1>1, <1>9
<1> QED
  BY <1>2, <1>3, <1>6, <1>7, <1>8, <1>13, <1>14, <1>15, <1>16, <1>17, WorkStep

LEMMA CompactLoadStep ==
    ASSUME BackupInv, LockInv', NEW w \in Writers, CompactLoad(w)
    PROVE  BackupInv'
<1>1. PICK d : d = writer[w] /\ d = [f \in Fields |-> d[f]]
  BY CallOf DEF IsCall
<1>0. PICK chain, objects, data, c :
        /\ chain = Chain(d.from)
        /\ objects = ChainObjects(chain)
        /\ data = Compacted(chain)
        /\ c = [d EXCEPT !.pc = "payload", !.data = data, !.objects = objects]
  OBVIOUS
<1>2. CASE Fail(w) /\ UNCHANGED exported
  <2>1. UNCHANGED <<manifest, payload, content, db, source, exported,
                    doomed, restore, minted>>
    BY <1>2 DEF CompactLoad, blobs, app
  <2> QED
    BY <1>2, <2>1, FailStep
<1>3. CASE ~(Fail(w) /\ UNCHANGED exported)
  <2>1. /\ d.pc = "begin" /\ d.op = "compact"
        /\ chain # <<>>
        /\ \A s \in Members(chain) : Verified(manifest[s], s)
        /\ writer' = [writer EXCEPT ![w] = c]
        /\ exported' = [exported EXCEPT ![d.snap] = exported[d.from]]
        /\ UNCHANGED <<manifest, payload, content, db, source, doomed,
                       restore, minted>>
    BY <1>0, <1>1, <1>3 DEF CompactLoad, blobs, app
  <2>2. Owns(w) /\ Working(w) /\ Pending(d) /\ d.snap \in Snapshots
    BY <1>1, <2>1, CallOf DEF Owns, Owning, Making, Working
  <2>3. Stored /\ \A s \in Snapshots : Ordered(s) /\ Kept(s)
    BY DEF BackupInv
  <2>4. d.from \in Snapshots /\ exported[d.from] \in Database
        /\ exported[d.from] # None
    BY <2>1, <2>2, <2>3 DEF Pending, Stored
  <2>5. Leads(manifest, chain, d.from)
    BY <1>0, <2>1, <2>3, <2>4, ChainLeads
  <2>6. data = exported[d.from]
    BY <1>0, <2>1, <2>3, <2>4, <2>5, ReplayedIs DEF Compacted
  <2>7. objects \subseteq Objects
    <3>1. \A s \in Members(chain) : manifest[s].objects \subseteq Objects
      <4>1. \A s \in Members(chain) : s \in Snapshots /\ manifest[s] # None
        BY <2>5, MembersOf DEF Leads
      <4> QED
        BY <2>3, <4>1 DEF Stored, Manifest
    <3> QED
      BY <1>0, <3>1 DEF ChainObjects
  <2>8. /\ exported[d.snap] = None /\ exported'[d.snap] = exported[d.from]
        /\ \A s \in Snapshots \ {d.snap} : exported'[s] = exported[s]
    BY <2>1, <2>2, <2>3 DEF Pending, Stored
  <2>9. ExportsStay /\ PayloadsStay
    BY <2>1, <2>8 DEF ExportsStay, PayloadsStay
  <2>10. Stored'
    BY <2>1, <2>2, <2>3, <2>4 DEF Stored
  <2>11. ASSUME NEW s \in Snapshots PROVE Ordered(s)' /\ Kept(s)'
    <3>1. CASE s = d.snap
      <4>1. manifest'[s] = None /\ s \in minted'
        BY <2>1, <2>2, <3>1 DEF Pending
      <4>2. exported'[s] # None
        BY <2>4, <2>8, <3>1
      <4> QED
        BY <4>1, <4>2 DEF Ordered, Kept
    <3>2. CASE s # d.snap
      BY <2>1, <2>8, <2>9, <3>2, KeptStays
    <3> QED
      BY <3>1, <3>2
  <2>12. /\ c.pc = "payload" /\ c.op = "compact" /\ c.snap = d.snap
         /\ c.at = d.at /\ c.from = d.from /\ c.data = data
         /\ c.objects = objects
    BY <1>0, <1>1, <2>1 DEF Fields
  <2>13. Phased(c) /\ Spares(c)'
    BY <2>12 DEF Phased, Spares, Making
  <2>14. Pending(c)'
    <3>1. d.from # d.snap
      BY <2>4, <2>8
    <3> QED
      BY <2>1, <2>2, <2>4, <2>8, <2>12, <3>1 DEF Pending
  <2>15. Built(c)'
    <3>1. payload'[d.snap] = None
      BY <2>1, <2>2, <2>3, <2>8 DEF Ordered
    <3>2. ParentOf(c) = None
      BY <2>12 DEF ParentOf
    <3>3. Describes(exported', data, None, d.snap)
      BY <2>6, <2>8 DEF Describes
    <3>4. data \in Payload /\ exported'[d.snap] # None
      BY <2>4, <2>6, <2>8, DatabaseIsPayload
    <3> QED
      BY <2>7, <2>12, <3>1, <3>2, <3>3, <3>4 DEF Built
  <2>16. \A s \in Snapshots : Foreign(w, s) =>
           /\ manifest[s] = None => manifest'[s] = None
           /\ exported[s] = None => exported'[s] = None
    BY <1>1, <2>1, <2>2, <2>8 DEF Foreign
  <2>17. c.snap = writer[w].snap
    BY <1>1, <2>12
  <2> QED
    BY <2>1, <2>2, <2>9, <2>10, <2>11, <2>13, <2>14, <2>15, <2>16, <2>17,
       WorkStep
<1> QED
  BY <1>2, <1>3

LEMMA MakerOf ==
    ASSUME BackupInv, NEW w \in Writers,
           writer[w].pc \in {"list", "payload", "objects"}
    PROVE  /\ Owns(w) /\ Working(w) /\ writer[w].op \in Making
           /\ Pending(writer[w]) /\ Built(writer[w])
           /\ writer[w].snap \in Snapshots
<1>1. writer[w].op \in Making
  BY CallOf DEF Phased
<1>2. Owns(w) /\ Working(w)
  BY <1>1 DEF Owns, Owning, Working
<1> QED
  BY <1>1, <1>2, CallOf

LEMMA PutPayloadStep ==
    ASSUME BackupInv, LockInv', NEW w \in Writers, PutPayload(w)
    PROVE  BackupInv'
<1>1. PICK d : d = writer[w] /\ d = [f \in Fields |-> d[f]]
  BY CallOf DEF IsCall
<1>0. PICK data, c : /\ data = IF DOMAIN d.data = {} THEN None ELSE d.data
                     /\ c = [d EXCEPT !.pc = "objects"]
  OBVIOUS
<1>2. /\ d.pc = "payload"
      /\ writer' = [writer EXCEPT ![w] = c]
      /\ payload' = [payload EXCEPT ![d.snap] =
                       IF DOMAIN d.data = {} THEN @ ELSE d.data]
      /\ UNCHANGED <<manifest, content, db, source, exported, doomed, restore,
                     minted>>
  BY <1>0, <1>1 DEF PutPayload, Goto, app
<1>3. /\ Owns(w) /\ Working(w) /\ Pending(d) /\ Built(d)
      /\ d.snap \in Snapshots
  BY <1>1, <1>2, MakerOf
<1>4. Stored
  BY DEF BackupInv
<1>5. /\ payload[d.snap] = None /\ manifest[d.snap] = None
      /\ exported[d.snap] # None /\ d.data \in Payload
  BY <1>2, <1>3 DEF Built, Pending
<1>6. /\ payload'[d.snap] = data
      /\ \A s \in Snapshots \ {d.snap} : payload'[s] = payload[s]
  BY <1>0, <1>2, <1>3, <1>4, <1>5 DEF Stored
<1>7. ExportsStay /\ PayloadsStay
  BY <1>1, <1>2, <1>3, <1>6 DEF ExportsStay, PayloadsStay
<1>8. Stored'
  BY <1>2, <1>3, <1>4, <1>5 DEF Stored
<1>9. ASSUME NEW s \in Snapshots PROVE Ordered(s)' /\ Kept(s)'
  <2>1. CASE s = d.snap
    <3>1. s \in minted
      BY <1>3, <2>1 DEF Pending
    <3> QED
      BY <1>2, <1>5, <2>1, <3>1 DEF Ordered, Kept
  <2>2. CASE s # d.snap
    BY <1>2, <1>6, <1>7, <2>2, KeptStays
  <2> QED
    BY <2>1, <2>2
<1>10. /\ c.pc = "objects" /\ c.op = d.op /\ c.snap = d.snap /\ c.at = d.at
       /\ c.from = d.from /\ c.data = d.data /\ c.objects = d.objects
       /\ c.todo = d.todo /\ c.open = d.open
  BY <1>0, <1>1 DEF Fields
<1>11. Phased(c) /\ Spares(c)'
  BY <1>1, <1>2, <1>10, MakerOf DEF Phased, Spares
<1>12. Pending(c)'
  BY <1>2, <1>3, <1>10 DEF Pending
<1>13. Built(c)'
  <2>1. ParentOf(c) = ParentOf(d)
    BY <1>10 DEF ParentOf
  <2> QED
    BY <1>0, <1>2, <1>3, <1>6, <1>10, <2>1 DEF Built
<1>14. c.snap = writer[w].snap
  BY <1>1, <1>10
<1> QED
  BY <1>2, <1>3, <1>7, <1>8, <1>9, <1>11, <1>12, <1>13, <1>14, WorkStep

\* An object is written or checked: those that were good stay good.
LEMMA ObjectsStep ==
    ASSUME BackupInv, LockInv', NEW w \in Writers, NEW c,
           writer[w].pc = "objects",
           writer' = [writer EXCEPT ![w] = c],
           \/ c.pc = "release"
           \/ /\ c.pc = "objects"
              /\ \A f \in {"op", "snap", "at", "from", "data", "objects"} :
                   c[f] = writer[w][f]
              /\ \A o \in writer[w].objects \ (c.todo \cup c.open) :
                   \/ o \notin writer[w].todo \cup writer[w].open
                   \/ content'[o] = "good",
           content' \in [Objects -> {"good", "bad", None}],
           \A o \in Objects : content[o] = "good" => content'[o] = "good",
           UNCHANGED <<manifest, payload, db, source, exported, doomed,
                       restore, minted>>
    PROVE  BackupInv'
<1>1. PICK d : d = writer[w]
  OBVIOUS
<1>2. /\ Owns(w) /\ Working(w) /\ Pending(d) /\ Built(d)
      /\ d.op \in Making /\ d.pc = "objects"
  BY <1>1, MakerOf
<1>3. Stored'
  BY DEF BackupInv, Stored
<1>4. ExportsStay /\ PayloadsStay
  BY DEF ExportsStay, PayloadsStay
<1>5. \A s \in Snapshots : Ordered(s)' /\ Kept(s)'
  BY <1>4, KeptStays
<1>6. \A s \in Snapshots : Foreign(w, s) =>
        /\ manifest[s] = None => manifest'[s] = None
        /\ exported[s] = None => exported'[s] = None
  OBVIOUS
<1>7. CASE c.pc = "release"
  <2>1. ~Owning(c) /\ Phased(c) /\ Spares(c)'
    BY <1>7 DEF Owning, Phased, Spares
  <2> QED
    BY <1>2, <1>3, <1>4, <1>5, <1>6, <2>1, WorkStep
<1>8. CASE c.pc # "release"
  <2>1. /\ c.pc = "objects" /\ c.op = d.op /\ c.snap = d.snap /\ c.at = d.at
        /\ c.from = d.from /\ c.data = d.data /\ c.objects = d.objects
        /\ \A o \in d.objects \ (c.todo \cup c.open) :
             o \notin d.todo \cup d.open \/ content'[o] = "good"
    BY <1>1, <1>8
  <2>2. Phased(c) /\ Spares(c)'
    BY <1>2, <2>1 DEF Phased, Spares
  <2>3. Pending(c)'
    BY <1>2, <2>1 DEF Pending
  <2>4. Built(c)'
    <3>1. ParentOf(c) = ParentOf(d)
      BY <2>1 DEF ParentOf
    <3>2. d.op # "compact" =>
            \A o \in d.objects \ (d.todo \cup d.open) : content[o] = "good"
      BY <1>2 DEF Built
    <3>3. d.objects \subseteq Objects
      BY <1>2 DEF Built
    <3>4. d.op # "compact" =>
            \A o \in d.objects \ (c.todo \cup c.open) : content'[o] = "good"
      BY <2>1, <3>2, <3>3
    <3> QED
      BY <1>2, <2>1, <3>1, <3>3, <3>4 DEF Built
  <2>5. c.snap = writer[w].snap
    BY <1>1, <2>1
  <2> QED
    BY <1>2, <1>3, <1>4, <1>5, <1>6, <2>2, <2>3, <2>4, <2>5, WorkStep
<1> QED
  BY <1>7, <1>8

LEMMA PutObjectStep ==
    ASSUME BackupInv, LockInv', NEW w \in Writers, NEW o \in Objects,
           PutObject(w, o)
    PROVE  BackupInv'
<1>1. PICK d : d = writer[w] /\ d = [f \in Fields |-> d[f]]
  BY CallOf DEF IsCall
<1>2. /\ d.pc = "objects" /\ o \in d.todo
      /\ UNCHANGED <<manifest, payload, db, source, exported, doomed,
                     restore, minted>>
  BY <1>1 DEF PutObject, app
<1>3. /\ content \in [Objects -> {"good", "bad", None}]
      /\ source \in [Objects -> {"good", "bad"}]
      /\ None # "good"
  BY BlobAssumption DEF BackupInv, Stored
<1>4. CASE content[o] = None
  <2>1. PICK c : c = [d EXCEPT !.todo = @ \ {o}, !.open = @ \cup {o}]
    OBVIOUS
  <2>2. /\ writer' = [writer EXCEPT ![w] = c]
        /\ content' = [content EXCEPT ![o] = source[o]]
    BY <1>1, <1>4, <2>1 DEF PutObject
  <2>3. /\ c.pc = "objects" /\ c.todo = d.todo \ {o}
        /\ c.open = d.open \cup {o}
        /\ \A f \in {"op", "snap", "at", "from", "data", "objects"} :
             c[f] = d[f]
    BY <1>1, <1>2, <2>1 DEF Fields
  <2>4. /\ content' \in [Objects -> {"good", "bad", None}]
        /\ \A p \in Objects : content[p] = "good" => content'[p] = "good"
    BY <1>3, <1>4, <2>2
  <2>5. \A p \in d.objects \ (c.todo \cup c.open) :
          p \notin d.todo \cup d.open \/ content'[p] = "good"
    BY <2>3
  <2> QED
    BY <1>1, <1>2, <2>2, <2>3, <2>4, <2>5, ObjectsStep
<1>5. CASE content[o] # None /\ source[o] = "good" /\ content[o] = "good"
  <2>1. PICK c : c = [d EXCEPT !.todo = @ \ {o}]
    OBVIOUS
  <2>2. writer' = [writer EXCEPT ![w] = c] /\ content' = content
    BY <1>1, <1>5, <2>1 DEF PutObject
  <2>3. /\ c.pc = "objects" /\ c.todo = d.todo \ {o}
        /\ c.open = d.open
        /\ \A f \in {"op", "snap", "at", "from", "data", "objects"} :
             c[f] = d[f]
    BY <1>1, <1>2, <2>1 DEF Fields
  <2>4. \A p \in d.objects \ (c.todo \cup c.open) :
          p \notin d.todo \cup d.open \/ content'[p] = "good"
    BY <1>5, <2>2, <2>3
  <2> QED
    BY <1>1, <1>2, <1>3, <2>2, <2>3, <2>4, ObjectsStep
<1>6. CASE content[o] # None /\ ~(source[o] = "good" /\ content[o] = "good")
  <2>1. Fail(w) /\ content' = content
    BY <1>6 DEF PutObject
  <2> QED
    BY <1>2, <2>1, FailStep
<1> QED
  BY <1>4, <1>5, <1>6

LEMMA CheckObjectStep ==
    ASSUME BackupInv, LockInv', NEW w \in Writers, NEW o \in Objects,
           CheckObject(w, o)
    PROVE  BackupInv'
<1>1. PICK d : d = writer[w] /\ d = [f \in Fields |-> d[f]]
  BY CallOf DEF IsCall
<1>2. /\ d.pc = "objects" /\ o \in d.open
      /\ UNCHANGED <<manifest, payload, db, source, exported, doomed,
                     restore, minted>>
  BY <1>1 DEF CheckObject, app
<1>3. content \in [Objects -> {"good", "bad", None}]
  BY DEF BackupInv, Stored
<1>4. CASE content[o] = "good"
  <2>1. PICK c : c = [d EXCEPT !.open = @ \ {o}]
    OBVIOUS
  <2>2. writer' = [writer EXCEPT ![w] = c] /\ content' = content
    BY <1>1, <1>4, <2>1 DEF CheckObject
  <2>3. /\ c.pc = "objects" /\ c.todo = d.todo
        /\ c.open = d.open \ {o}
        /\ \A f \in {"op", "snap", "at", "from", "data", "objects"} :
             c[f] = d[f]
    BY <1>1, <1>2, <2>1 DEF Fields
  <2>4. \A p \in d.objects \ (c.todo \cup c.open) :
          p \notin d.todo \cup d.open \/ content'[p] = "good"
    BY <1>4, <2>2, <2>3
  <2> QED
    BY <1>1, <1>2, <1>3, <2>2, <2>3, <2>4, ObjectsStep
<1>5. CASE content[o] # "good"
  <2>1. PICK c : c = [d EXCEPT !.pc = "release"]
    OBVIOUS
  <2>2. /\ writer' = [writer EXCEPT ![w] = c]
        /\ content' = [content EXCEPT ![o] = None]
    BY <1>1, <1>5, <2>1 DEF CheckObject, Fail, Goto
  <2>3. c.pc = "release"
    BY <1>1, <2>1 DEF Fields
  <2>4. /\ content' \in [Objects -> {"good", "bad", None}]
        /\ \A p \in Objects : content[p] = "good" => content'[p] = "good"
    BY <1>3, <1>5, <2>2
  <2> QED
    BY <1>1, <1>2, <2>2, <2>3, <2>4, ObjectsStep
<1> QED
  BY <1>4, <1>5

LEMMA PutManifestStep ==
    ASSUME BackupInv, LockInv', NEW w \in Writers, PutManifest(w)
    PROVE  BackupInv'
<1>1. PICK d : d = writer[w] /\ d = [f \in Fields |-> d[f]]
  BY CallOf DEF IsCall
<1>2. /\ d.pc = "objects" /\ d.todo = {} /\ d.open = {} /\ Fail(w)
      /\ UNCHANGED <<payload, content, db, source, exported, doomed,
                     restore, minted>>
  BY <1>1 DEF PutManifest, ReadyToPublish, Fail, app
<1>3. CASE manifest' = manifest
  BY <1>2, <1>3, FailStep
<1>4. CASE manifest' # manifest
  <2>1. PICK kind, parent, m, c :
          /\ kind = CASE d.op = "full" -> "Full"
                      [] d.op = "incremental" -> "Incremental"
                      [] d.op = "compact" -> "SyntheticFull"
          /\ parent = ParentOf(d)
          /\ m = [kind |-> kind, at |-> d.at, data |-> d.data,
                  parent |-> parent, objects |-> d.objects]
          /\ c = [d EXCEPT !.pc = "release"]
    OBVIOUS
  <2>2. /\ manifest' = [manifest EXCEPT ![d.snap] = m]
        /\ d.op = "compact" => \A o \in d.objects : content[o] = "good"
    BY <1>1, <1>4, <2>1 DEF PutManifest
  <2>3. /\ writer' = [writer EXCEPT ![w] = c] /\ c.pc = "release"
    BY <1>1, <1>2, <2>1 DEF Fail, Goto, Fields
  <2>4. /\ Owns(w) /\ Working(w) /\ Pending(d) /\ Built(d)
        /\ d.snap \in Snapshots /\ d.op \in Making
    BY <1>1, <1>2, MakerOf
  <2>5. Stored
    BY DEF BackupInv
  <2>6. /\ exported[d.snap] # None /\ d.data \in Payload
        /\ Describes(exported, d.data, parent, d.snap)
        /\ payload[d.snap] = IF DOMAIN d.data = {} THEN None ELSE d.data
        /\ d.objects \subseteq Objects
        /\ \A o \in d.objects : content[o] = "good"
    BY <1>2, <2>1, <2>2, <2>4 DEF Built
  <2>7. /\ parent \in Snapshots \cup {None}
        /\ kind \in {"Full", "Incremental", "SyntheticFull"}
        /\ kind = "Incremental" <=> parent # None
    <3>1. CASE d.op = "incremental"
      <4>1. parent = d.from /\ d.from \in Snapshots /\ kind = "Incremental"
        BY <2>1, <2>4, <3>1 DEF ParentOf, Pending
      <4> QED
        BY <4>1, NoneAssumption
    <3>2. CASE d.op = "full"
      BY <2>1, <3>2 DEF ParentOf
    <3>3. CASE d.op = "compact"
      BY <2>1, <3>3 DEF ParentOf
    <3> QED
      BY <2>4, <3>1, <3>2, <3>3 DEF Making
  <2>8. /\ m.kind = kind /\ m.parent = parent /\ m.data = d.data
        /\ m.objects = d.objects
        /\ m \in Manifest
    <3>1. d.at \in Times
      BY <2>4 DEF Pending
    <3> QED
      BY <2>1, <2>6, <2>7, <3>1 DEF Manifest
  <2>9. Stored'
    BY <1>2, <2>2, <2>4, <2>5, <2>8 DEF Stored
  <2>10. /\ manifest'[d.snap] = m
         /\ \A s \in Snapshots \ {d.snap} : manifest'[s] = manifest[s]
    BY <2>2, <2>4, <2>5 DEF Stored
  <2>11. ExportsStay /\ PayloadsStay
    BY <1>2 DEF ExportsStay, PayloadsStay
  <2>12. ASSUME NEW s \in Snapshots PROVE Ordered(s)' /\ Kept(s)'
    <3>1. CASE s = d.snap
      <4>1. s \in minted
        BY <2>4, <3>1 DEF Pending
      <4>2. Ordered(s)'
        BY <1>2, <2>6, <3>1, <4>1 DEF Ordered
      <4>3. Verified(m, s)'
        BY <1>2, <2>6, <2>8, <3>1 DEF Verified, Loaded
      <4>4. manifest'[s] = m
        BY <2>10, <3>1
      <4>5. Describes(exported', m.data, m.parent, s)
            /\ payload'[s] \in {None, m.data}
        BY <1>2, <2>6, <2>8, <3>1
      <4>6. Verified(manifest[s], s)'
        BY <4>3, <4>4 DEF Verified, Loaded
      <4> QED
        BY <2>7, <2>8, <4>2, <4>4, <4>5, <4>6 DEF Kept
    <3>2. CASE s # d.snap
      BY <1>2, <2>10, <2>11, <3>2, KeptStays
    <3> QED
      BY <3>1, <3>2
  <2>13. ~Owning(c) /\ Phased(c) /\ Spares(c)'
    BY <2>3 DEF Owning, Phased, Spares
  <2>14. \A s \in Snapshots : Foreign(w, s) =>
           /\ manifest[s] = None => manifest'[s] = None
           /\ exported[s] = None => exported'[s] = None
    BY <1>1, <1>2, <2>4, <2>10 DEF Foreign
  <2> QED
    BY <1>2, <2>3, <2>4, <2>9, <2>11, <2>12, <2>13, <2>14, WorkStep
<1> QED
  BY <1>3, <1>4

\* What is chosen to be deleted leaves a closed rest.
LEMMA SweepStep ==
    ASSUME BackupInv, LockInv', NEW w \in Writers, NEW victims, NEW kept,
           Working(w), Sweep(w, victims, kept),
           victims \subseteq Published, Published \ victims \subseteq kept,
           \A t \in Published \ victims : manifest[t].parent \notin victims,
           UNCHANGED <<manifest, payload, content, db, source, exported,
                       restore, minted>>
    PROVE  BackupInv'
<1>1. PICK d : d = writer[w] /\ d = [f \in Fields |-> d[f]]
  BY CallOf DEF IsCall
<1>2. PICK objects, c :
        /\ objects = UNION {manifest[s].objects : s \in kept}
        /\ c = [d EXCEPT !.pc = "sweep", !.victims = victims,
                         !.objects = objects]
  OBVIOUS
<1>3. /\ writer' = [writer EXCEPT ![w] = c]
      /\ doomed' = doomed \cup victims
  BY <1>1, <1>2 DEF Sweep
<1>4. c.pc = "sweep" /\ c.victims = victims /\ c.objects = objects
  BY <1>1, <1>2 DEF Fields
<1>5. Published \subseteq minted
  BY DEF Published, BackupInv, Ordered
<1>6. Stored'
  BY <1>3, <1>5 DEF BackupInv, Stored
<1>7. ExportsStay /\ PayloadsStay
  BY DEF ExportsStay, PayloadsStay
<1>8. \A s \in Snapshots : Ordered(s)' /\ Kept(s)'
  BY <1>3, <1>7, KeptStays
<1>9. ~Owning(c) /\ Phased(c)
  BY <1>4 DEF Owning, Phased
<1>10. Spares(c)'
  <2>1. \A t \in Published \ victims : manifest[t].objects \subseteq objects
    BY <1>2
  <2>2. Published' = Published
    BY DEF Published
  <2> QED
    BY <1>3, <1>4, <2>1, <2>2 DEF Spares
<1> QED
  BY <1>3, <1>6, <1>7, <1>8, <1>9, <1>10, WorkStep

\* A chain holds the parents of its members.
LEMMA ChainClosed ==
    ASSUME Stored, NEW s \in Snapshots, Chain(s) # <<>>,
           NEW t \in Members(Chain(s))
    PROVE  /\ t \in Published
           /\ manifest[t].parent = None
              \/ manifest[t].parent \in Members(Chain(s))
<1>1. PICK ch : ch = Chain(s)
  OBVIOUS
<1>2. Leads(manifest, ch, s)
  BY <1>1, ChainLeads
<1>3. ch \in Seq(Snapshots)
  BY <1>2 DEF Leads
<1>4. PICK i \in 1..Len(ch) : t = ch[i]
  BY <1>1, <1>3, MembersOf
<1>5. t \in Published
  BY <1>2, <1>3, <1>4 DEF Leads, Published
<1>6. CASE i = 1
  BY <1>2, <1>4, <1>5, <1>6 DEF Leads
<1>7. CASE i # 1
  <2>1. i \in 2..Len(ch) /\ i - 1 \in 1..Len(ch)
    BY <1>3, <1>7
  <2>2. manifest[t].parent = ch[i - 1]
    BY <1>2, <1>4, <2>1 DEF Leads
  <2> QED
    BY <1>1, <1>3, <1>5, <2>1, <2>2, MembersOf
<1> QED
  BY <1>6, <1>7, <1>5

LEMMA PruneSelectStep ==
    ASSUME BackupInv, LockInv', NEW w \in Writers, PruneSelect(w)
    PROVE  BackupInv'
<1>1. UNCHANGED <<manifest, payload, content, db, source, exported,
                  restore, minted>>
  BY DEF PruneSelect, blobs, app
<1>2. CASE Fail(w) /\ UNCHANGED doomed
  BY <1>1, <1>2, FailStep
<1>3. CASE ~(Fail(w) /\ UNCHANGED doomed)
  <2>1. PICK keep, kept, victims :
          /\ keep = writer[w].at
          /\ kept = Retained(keep)
          /\ victims = Published \ kept
    OBVIOUS
  <2>2. /\ \A s \in Newest(keep) : Chain(s) # <<>>
        /\ Sweep(w, victims, kept) /\ Working(w)
    BY <1>3, <2>1 DEF PruneSelect, Working
  <2>3. Stored
    BY DEF BackupInv
  <2>4. ASSUME NEW t \in Published \ victims
        PROVE  manifest[t].parent \notin victims
    <3>1. t \in kept
      BY <2>1, <2>4
    <3>2. PICK s \in Newest(keep) : t \in Members(Chain(s))
      BY <2>1, <3>1 DEF Retained
    <3>3. s \in Snapshots /\ Chain(s) # <<>>
      BY <2>2, <3>2 DEF Newest, Published
    <3>4. manifest[t].parent = None \/ manifest[t].parent \in Members(Chain(s))
      BY <2>3, <3>2, <3>3, ChainClosed
    <3>5. manifest[t].parent \in Members(Chain(s)) =>
            manifest[t].parent \in kept
      BY <2>1, <3>2 DEF Retained
    <3>6. None \notin Published
      BY NoneAssumption DEF Published
    <3> QED
      BY <2>1, <3>4, <3>5, <3>6
  <2> QED
    BY <1>1, <2>1, <2>2, <2>4, SweepStep
<1> QED
  BY <1>2, <1>3

LEMMA DeleteSelectStep ==
    ASSUME BackupInv, LockInv', NEW w \in Writers, DeleteSelect(w)
    PROVE  BackupInv'
<1>1. UNCHANGED <<manifest, payload, content, db, source, exported,
                  restore, minted>>
  BY DEF DeleteSelect, blobs, app
<1>2. CASE Fail(w) /\ UNCHANGED doomed
  BY <1>1, <1>2, FailStep
<1>3. CASE ~(Fail(w) /\ UNCHANGED doomed)
  <2>1. PICK s, kept : s = writer[w].from /\ kept = Published \ {s}
    OBVIOUS
  <2>2. Deletable(s) /\ Sweep(w, {s}, kept) /\ Working(w)
    BY <1>3, <2>1 DEF DeleteSelect, Working
  <2>3. /\ {s} \subseteq Published /\ Published \ {s} \subseteq kept
        /\ \A t \in Published \ {s} : manifest[t].parent \notin {s}
    BY <2>1, <2>2 DEF Deletable
  <2> QED
    BY <1>1, <2>2, <2>3, SweepStep
<1> QED
  BY <1>2, <1>3

LEMMA SweepBlobStep ==
    ASSUME BackupInv, LockInv', NEW w \in Writers, NEW s \in Snapshots,
           SweepBlob(w, s)
    PROVE  BackupInv'
<1>1. PICK d : d = writer[w] /\ d = [f \in Fields |-> d[f]]
  BY CallOf DEF IsCall
<1>2. PICK snap, victims, c :
        /\ snap = IF manifest'[s] = None /\ payload'[s] = None
                  THEN None ELSE s
        /\ victims = IF manifest'[s] = None /\ payload'[s] = None
                     THEN d.victims \ {s} ELSE d.victims
        /\ c = [d EXCEPT !.snap = snap, !.victims = victims]
  OBVIOUS
<1>3. /\ d.pc = "sweep" /\ s \in d.victims
      /\ writer' = [writer EXCEPT ![w] = c]
      /\ UNCHANGED <<content, db, source, exported, doomed, restore, minted>>
  BY <1>1, <1>2 DEF SweepBlob, app
<1>4. Stored
  BY DEF BackupInv
<1>5. /\ \A t \in Snapshots \ {s} :
           manifest'[t] = manifest[t] /\ payload'[t] = payload[t]
      /\ manifest'[s] \in {manifest[s], None}
      /\ payload'[s] \in {payload[s], None}
      /\ manifest' \in [Snapshots -> Manifest \cup {None}]
      /\ payload' \in [Snapshots -> Payload \cup {None}]
  BY <1>4 DEF SweepBlob, Stored
<1>6. c.pc = "sweep" /\ c.victims = victims /\ c.objects = d.objects
  BY <1>1, <1>2, <1>3 DEF Fields
<1>7. Working(w) /\ Spares(d)
  BY <1>1, <1>3, CallOf DEF Working
<1>8. Stored'
  BY <1>3, <1>4, <1>5 DEF Stored
<1>9. ExportsStay /\ PayloadsStay
  BY <1>3, <1>5 DEF ExportsStay, PayloadsStay
<1>10. s \in doomed
  BY <1>3, <1>7 DEF Spares
<1>11. ASSUME NEW t \in Snapshots PROVE Ordered(t)' /\ Kept(t)'
  <2>1. CASE t = s
    <3>1. Ordered(s) /\ Kept(s)
      BY DEF BackupInv
    <3>2. Ordered(s)'
      BY <1>3, <1>5, <3>1 DEF Ordered
    <3>3. Kept(s)'
      BY <1>3, <1>5, <1>10, <3>1 DEF Kept
    <3> QED
      BY <2>1, <3>2, <3>3
  <2>2. CASE t # s
    BY <1>3, <1>5, <1>9, <2>2, KeptStays
  <2> QED
    BY <2>1, <2>2
<1>12. ~Owning(c) /\ Phased(c)
  BY <1>6 DEF Owning, Phased
<1>13. Spares(c)'
  <2>1. victims \subseteq doomed' /\ victims \subseteq d.victims
    BY <1>2, <1>3, <1>7 DEF Spares
  <2>2. ASSUME NEW t \in Published' \ victims
        PROVE  /\ t \in Published \ d.victims
               /\ manifest'[t] = manifest[t]
    <3>1. t \in Snapshots /\ manifest'[t] # None
      BY DEF Published
    <3>2. manifest'[t] = manifest[t]
      BY <1>5, <3>1
    <3>3. t \notin d.victims
      BY <1>2, <2>2, <3>1
    <3> QED
      BY <3>1, <3>2, <3>3 DEF Published
  <2> QED
    BY <1>3, <1>6, <1>7, <2>1, <2>2 DEF Spares
<1>14. \A t \in Snapshots : Foreign(w, t) =>
         /\ manifest[t] = None => manifest'[t] = None
         /\ exported[t] = None => exported'[t] = None
  BY <1>3, <1>5
<1> QED
  BY <1>3, <1>7, <1>8, <1>9, <1>11, <1>12, <1>13, <1>14, WorkStep

LEMMA SweepObjectStep ==
    ASSUME BackupInv, LockInv', NEW w \in Writers, NEW o \in Objects,
           SweepObject(w, o)
    PROVE  BackupInv'
<1>1. PICK c : c = writer[w]
  OBVIOUS
<1>2. /\ c.pc = "sweep" /\ c.victims = {} /\ o \notin c.objects
      /\ content' = [content EXCEPT ![o] = None]
      /\ UNCHANGED <<manifest, payload, db, source, writer, exported, doomed,
                     restore, minted>>
  BY <1>1 DEF SweepObject, app
<1>3. writer' = [writer EXCEPT ![w] = c]
  BY <1>1, <1>2 DEF BackupInv, LockInv, Shape
<1>4. Working(w) /\ Spares(c) /\ Stored
  BY <1>1, <1>2, CallOf DEF Working, BackupInv
<1>5. Stored'
  BY <1>2, <1>4 DEF Stored
<1>6. ExportsStay /\ PayloadsStay
  BY <1>2 DEF ExportsStay, PayloadsStay
<1>7. ASSUME NEW s \in Snapshots PROVE Ordered(s)' /\ Kept(s)'
  <2>1. manifest[s] # None => o \notin manifest[s].objects
    BY <1>2, <1>4 DEF Spares, Published
  <2>2. \A p \in Objects : p # o => content'[p] = content[p]
    BY <1>2, <1>4 DEF Stored
  <2> QED
    BY <1>2, <1>6, <2>1, <2>2, KeptStays
<1>8. ~Owning(c) /\ Phased(c)
  BY <1>2 DEF Owning, Phased
<1>9. Spares(c)'
  BY <1>2, <1>4 DEF Spares, Published
<1> QED
  BY <1>2, <1>3, <1>4, <1>5, <1>6, <1>7, <1>8, <1>9, WorkStep

-----------------------------------------------------------------------------
(* The steps of the restore and of the application.                        *)

\* The repository and the calls stay as they are.
LEMMA AsideStep ==
    ASSUME BackupInv, LockInv', NEW r, r = restore', Restores(r),
           UNCHANGED <<manifest, payload, content, writer, minted, exported,
                       doomed>>,
           db' \in Database, source' \in [Objects -> {"good", "bad"}]
    PROVE  BackupInv'
<1>1. Stored'
  BY DEF BackupInv, Stored
<1>2. \A s \in Snapshots : Ordered(s)' /\ Kept(s)'
  BY DEF BackupInv, Ordered, Kept, Verified, Loaded
<1>3. Makers'
  BY DEF BackupInv, Makers, Owns, Pending, Built
<1>4. \A w \in Writers : Spares(writer[w])'
  BY DEF BackupInv, Spares, Published
<1>5. Restores(restore)'
  <2>1. ExportsStay /\ PayloadsStay
    BY DEF ExportsStay, PayloadsStay
  <2>2. OwnersStay
    BY DEF OwnersStay, Owns
  <2>3. Restores(r)'
    BY <2>1, <2>2, RestoresStays
  <2> QED
    BY <2>3
<1> QED
  BY <1>1, <1>2, <1>3, <1>4, <1>5 DEF BackupInv

LEMMA EnvironmentKeeps ==
    ASSUME BackupInv, LockInv', Environment \/ UNCHANGED vars
    PROVE  BackupInv'
<1>1. PICK r : r = restore /\ Restores(r)
  BY DEF BackupInv
<1>2. db \in Database /\ source \in [Objects -> {"good", "bad"}]
  BY DEF BackupInv, Stored
<1>3. /\ r = restore'
      /\ UNCHANGED <<manifest, payload, content, writer, minted, exported,
                     doomed>>
  BY <1>1 DEF Environment, LateDelete, RecoverLock, ChangeRow, DamageOrRepair,
              blobs, app, vars
<1>4. db' \in Database /\ source' \in [Objects -> {"good", "bad"}]
  <2>1. CASE LateDelete \/ RecoverLock \/ UNCHANGED vars
    BY <1>2, <2>1 DEF LateDelete, RecoverLock, app, vars
  <2>2. ASSUME NEW row \in Rows, ChangeRow(row) PROVE <1>4!:
    BY <1>2, <2>2 DEF ChangeRow, Database
  <2>3. ASSUME NEW o \in Fragile, DamageOrRepair(o) PROVE <1>4!:
    BY <1>2, <2>3 DEF DamageOrRepair
  <2> QED
    BY <2>1, <2>2, <2>3 DEF Environment
<1> QED
  BY <1>1, <1>3, <1>4, AsideStep

LEMMA AppliedType ==
    ASSUME NEW d \in Database, NEW p \in Payload PROVE Apply(d, p) \in Database
<1>1. \A q \in DOMAIN p : p[q] \in Objects \cup {Gone}
  BY DEF Payload
<1> QED
  BY <1>1 DEF Apply, Database

\* A restore that has ended, or has yet to begin.
LEMMA Ended ==
    ASSUME NEW r, r.target \in Database, r.pc \in {"idle", "failed"}
    PROVE  Restores(r)
  BY DEF Restores

LEMMA StopEnds ==
    ASSUME BackupInv, RestoreOK(restore), NEW phase
    PROVE  Restores(Stop(phase))
<1>1. /\ Stop(phase).pc = "failed" /\ Stop(phase).target = restore.target
  BY DEF Stop, RestoreOK, IsRestore, RestoreFields
<1> QED
  BY <1>1, Ended DEF BackupInv, Restores

\* One more manifest, in front of what was read.
LEMMA WalkedFurther ==
    ASSUME NEW q, Walked(q), NEW e \in Entry, Read(e),
           IF q.chain = <<>> THEN e.id = q.snap
                             ELSE q.chain[1].m.parent = e.id,
           NEW r, r.chain = <<e>> \o q.chain, r.snap = q.snap
    PROVE  Walked(r) /\ r.chain # <<>> /\ r.chain[1] = e
<1>1. q.chain \in Seq(Entry) /\ Len(q.chain) \in Nat
  BY DEF Walked
<1>2. /\ r.chain \in Seq(Entry) /\ Len(r.chain) = Len(q.chain) + 1
      /\ r.chain[1] = e
      /\ \A i \in 2..Len(r.chain) : r.chain[i] = q.chain[i - 1]
  BY <1>1
<1>3. \A i \in 2..Len(r.chain) : i - 1 \in 1..Len(q.chain)
  BY <1>1, <1>2
<1>4. \A i \in 1..Len(r.chain) : Read(r.chain[i])
  <2>1. \A i \in 1..Len(r.chain) : i = 1 \/ i \in 2..Len(r.chain)
    BY <1>1, <1>2
  <2> QED
    BY <1>2, <1>3, <2>1 DEF Walked
<1>5. ASSUME NEW i \in 2..Len(r.chain)
      PROVE  r.chain[i].m.parent = r.chain[i - 1].id
  <2>1. CASE i = 2
    <3>1. q.chain # <<>> /\ r.chain[2] = q.chain[1] /\ i - 1 = 1
      BY <1>1, <1>2, <2>1
    <3> QED
      BY <1>2, <2>1, <3>1
  <2>2. CASE i # 2
    <3>1. i - 1 \in 2..Len(r.chain) /\ i - 1 \in 2..Len(q.chain)
      BY <1>1, <1>2, <2>2
    <3>2. r.chain[i] = q.chain[i - 1] /\ r.chain[i - 1] = q.chain[(i - 1) - 1]
      BY <1>2, <3>1
    <3> QED
      BY <3>1, <3>2 DEF Walked
  <2> QED
    BY <2>1, <2>2
<1>6. r.chain[Len(r.chain)].id = r.snap
  <2>1. CASE q.chain = <<>>
    BY <1>1, <1>2, <2>1
  <2>2. CASE q.chain # <<>>
    <3>1. Len(r.chain) \in 2..Len(r.chain) /\ Len(r.chain) - 1 = Len(q.chain)
      BY <1>1, <1>2, <2>2
    <3> QED
      BY <1>2, <2>2, <3>1 DEF Walked
  <2> QED
    BY <2>1, <2>2
<1> QED
  BY <1>1, <1>2, <1>4, <1>5, <1>6 DEF Walked

\* A manifest that is there may be read.
LEMMA ReadBegins ==
    ASSUME BackupInv, NEW s \in Snapshots, manifest[s] # None
    PROVE  /\ [id |-> s, m |-> manifest[s]] \in Entry
           /\ Read([id |-> s, m |-> manifest[s]])
<1>1. manifest[s] \in Manifest
  BY DEF BackupInv, Stored
<1>2. [id |-> s, m |-> manifest[s]] \in Entry
  BY <1>1 DEF Entry
<1>3. Ordered(s) /\ Kept(s)
  BY DEF BackupInv
<1>4. \A w \in Writers : Owns(w) => writer[w].snap # s
  BY CallOf DEF Pending
<1> QED
  BY <1>2, <1>3, <1>4 DEF Read, Ordered, Kept

LEMMA RestoreWalkStep ==
    ASSUME BackupInv, RestoreOK(restore), RestoreWalk, NEW r, r = restore'
    PROVE  Restores(r)
<1>1. PICK q : q = restore /\ q = [f \in RestoreFields |-> q[f]]
  BY DEF RestoreOK, IsRestore
<1>2. /\ q.pc = "walk" /\ Restores(q)
      /\ Walked(q) /\ q.next \in Snapshots /\ q.target \in Database
      /\ IF q.chain = <<>> THEN q.next = q.snap
                           ELSE q.chain[1].m.parent = q.next
  BY <1>1 DEF RestoreWalk, BackupInv, Restores
<1>3. CASE r = Stop("Validation")
  BY <1>3, StopEnds
<1>4. CASE r # Stop("Validation")
  <2>1. PICK m, e, chain : /\ m = manifest[q.next]
                           /\ e = [id |-> q.next, m |-> m]
                           /\ chain = <<e>> \o q.chain
    OBVIOUS
  <2>2. /\ m # None
        /\ r = IF m.parent = None
               THEN [q EXCEPT !.pc = "verify", !.chain = chain, !.next = 1]
               ELSE [q EXCEPT !.chain = chain, !.next = m.parent]
    BY <1>1, <1>4, <2>1 DEF RestoreWalk
  <2>3. m \in Manifest
    BY <1>2, <2>1, <2>2 DEF BackupInv, Stored
  <2>4. e \in Entry /\ Read(e) /\ e.id = q.next /\ e.m = m
    BY <1>2, <2>1, <2>2, ReadBegins
  <2>5. /\ r.chain = chain /\ r.snap = q.snap /\ r.target = q.target
        /\ IF m.parent = None THEN r.pc = "verify"
                              ELSE r.pc = "walk" /\ r.next = m.parent
    BY <1>1, <1>2, <2>2 DEF RestoreFields
  <2>6. Walked(r) /\ r.chain # <<>> /\ r.chain[1] = e
    BY <1>2, <2>1, <2>4, <2>5, WalkedFurther
  <2>7. m.parent # None => m.parent \in Snapshots
    BY <2>3 DEF Manifest
  <2> QED
    BY <1>2, <2>4, <2>5, <2>6, <2>7 DEF Restores
<1> QED
  BY <1>3, <1>4

LEMMA WalkedLength ==
    ASSUME NEW q, Walked(q)
    PROVE  q.chain \in Seq(Entry) /\ Len(q.chain) \in Nat
  BY DEF Walked

LEMMA RestoreVerifyStep ==
    ASSUME BackupInv, RestoreOK(restore), RestoreVerify, NEW r, r = restore'
    PROVE  Restores(r)
<1>1. PICK q : q = restore /\ q = [f \in RestoreFields |-> q[f]]
  BY DEF RestoreOK, IsRestore
<1>2. /\ q.pc = "verify"
      /\ Walked(q) /\ q.target \in Database /\ q.chain # <<>>
      /\ q.chain[1].m.parent = None /\ Len(q.chain) \in Nat
  <2>1. /\ q.pc = "verify"
        /\ Walked(q) /\ q.target \in Database /\ q.chain # <<>>
        /\ q.chain[1].m.parent = None
    BY <1>1 DEF RestoreVerify, BackupInv, Restores
  <2> QED
    BY <2>1, WalkedLength
<1>3. CASE r = Stop("Validation")
  BY <1>3, StopEnds
<1>4. CASE r # Stop("Validation")
  <2>1. \/ /\ r = [q EXCEPT !.pc = "stage", !.next = 1]
           /\ ~(q.mode = "EmptyDatabase" /\ q.target # Empty)
        \/ r = [q EXCEPT !.next = @ + 1]
    BY <1>1, <1>4 DEF RestoreVerify
  <2>2. /\ r.chain = q.chain /\ r.snap = q.snap /\ r.target = q.target
        /\ r.mode = q.mode
        /\ \/ /\ r.pc = "stage" /\ r.next = 1
              /\ ~(q.mode = "EmptyDatabase" /\ q.target # Empty)
           \/ r.pc = "verify"
    BY <1>1, <1>2, <2>1 DEF RestoreFields
  <2>3. Walked(r)
    BY <1>2, <2>2 DEF Walked
  <2>4. 1 \in 1..(Len(q.chain) + 1)
    BY <1>2
  <2> QED
    BY <1>2, <2>2, <2>3, <2>4 DEF Restores
<1> QED
  BY <1>3, <1>4

LEMMA RestoreStageStep ==
    ASSUME BackupInv, RestoreOK(restore), RestoreStage, NEW r, r = restore'
    PROVE  Restores(r)
<1>1. PICK q : q = restore /\ q = [f \in RestoreFields |-> q[f]]
  BY DEF RestoreOK, IsRestore
<1>2. /\ q.pc = "stage" /\ q.next \in 1..Len(q.chain)
      /\ Walked(q) /\ q.target \in Database /\ q.chain # <<>>
      /\ q.chain[1].m.parent = None /\ Len(q.chain) \in Nat
      /\ q.mode = "EmptyDatabase" =>
           q.target = IF q.next = 1 THEN Empty
                      ELSE exported[q.chain[q.next - 1].id]
  <2>1. /\ q.pc = "stage" /\ q.next <= Len(q.chain)
        /\ q.next \in 1..(Len(q.chain) + 1)
        /\ Walked(q) /\ q.target \in Database /\ q.chain # <<>>
        /\ q.chain[1].m.parent = None
        /\ q.mode = "EmptyDatabase" =>
             q.target = IF q.next = 1 THEN Empty
                        ELSE exported[q.chain[q.next - 1].id]
    BY <1>1 DEF RestoreStage, BackupInv, Restores
  <2>2. Len(q.chain) \in Nat
    BY <2>1, WalkedLength
  <2>3. q.next \in 1..Len(q.chain)
    BY <2>1, <2>2
  <2> QED
    BY <2>1, <2>2, <2>3
<1>3. PICK e, changes, applied :
        /\ e = q.chain[q.next]
        /\ changes = Loaded(e.m, e.id)
        /\ applied = Apply(q.target, changes)
  OBVIOUS
<1>4. /\ e \in Entry /\ Read(e) /\ e.id \in Snapshots /\ e.m.data \in Payload
      /\ exported[e.id] \in Database
  <2>1. e \in Entry /\ Read(e)
    BY <1>2, <1>3 DEF Walked
  <2>2. e.id \in Snapshots /\ e.m.data \in Payload
    BY <2>1 DEF Entry, Manifest
  <2> QED
    BY <2>1, <2>2 DEF Read, BackupInv, Stored
<1>5. changes # None => changes = e.m.data /\ applied \in Database
  <2>1. changes \in {None, e.m.data}
    BY <1>3, <1>4 DEF Loaded, Read
  <2> QED
    BY <1>2, <1>3, <1>4, <2>1, AppliedType
<1>6. CASE r = Stop("Preparation")
  BY <1>6, StopEnds
<1>7. ASSUME NEW S \in SUBSET Rows, changes # None,
             r = [Stop("Apply") EXCEPT
                    !.target = [x \in Rows |-> IF x \in S THEN applied[x]
                                               ELSE q.target[x]]]
      PROVE  Restores(r)
  <2>1. [x \in Rows |-> IF x \in S THEN applied[x] ELSE q.target[x]]
          \in Database
    BY <1>2, <1>5, <1>7 DEF Database
  <2>2. /\ r.pc = "failed"
        /\ r.target = [x \in Rows |-> IF x \in S THEN applied[x]
                                      ELSE q.target[x]]
    BY <1>1, <1>7 DEF Stop, RestoreFields
  <2> QED
    BY <2>1, <2>2, Ended
<1>8. ASSUME changes # None,
             r = [q EXCEPT !.next = @ + 1,
                           !.target = IF q.mode = "DryRun" THEN @ ELSE applied]
      PROVE  Restores(r)
  <2>1. /\ r.chain = q.chain /\ r.snap = q.snap /\ r.mode = q.mode
        /\ r.pc = "stage" /\ r.next = q.next + 1
        /\ r.target = IF q.mode = "DryRun" THEN q.target ELSE applied
    BY <1>1, <1>2, <1>8 DEF RestoreFields
  <2>2. /\ r.next \in 1..(Len(r.chain) + 1) /\ r.next # 1
        /\ r.next - 1 = q.next
    BY <1>2, <2>1
  <2>3. r.target \in Database
    BY <1>2, <1>5, <1>8, <2>1
  <2>4. q.mode = "EmptyDatabase" => applied = exported[e.id]
    <3> SUFFICES ASSUME q.mode = "EmptyDatabase"
                 PROVE  applied = exported[e.id]
      OBVIOUS
    <3>1. Describes(exported, changes, e.m.parent, e.id)
      BY <1>4, <1>5, <1>8 DEF Read
    <3>2. CASE q.next = 1
      <4>1. e.m.parent = None /\ q.target = Empty
        BY <1>2, <1>3, <3>2
      <4>2. changes = exported[e.id]
        BY <3>1, <4>1 DEF Describes
      <4> QED
        BY <1>3, <1>4, <4>1, <4>2, Applied
    <3>3. CASE q.next # 1
      <4>1. q.next \in 2..Len(q.chain) /\ q.next - 1 \in 1..Len(q.chain)
        BY <1>2, <3>3
      <4>2. e.m.parent = q.chain[q.next - 1].id
        BY <1>2, <1>3, <4>1 DEF Walked
      <4>3. e.m.parent \in Snapshots /\ exported[e.m.parent] # None
        BY <1>2, <4>1, <4>2, WalkedExported
      <4>4. e.m.parent # None /\ exported[e.m.parent] \in Database
        BY <4>3, NoneAssumption DEF BackupInv, Stored
      <4>5. q.target = exported[e.m.parent]
        BY <1>2, <3>3, <4>2
      <4>6. changes = Changes(exported[e.m.parent], exported[e.id])
        BY <3>1, <4>4 DEF Describes
      <4> QED
        BY <1>3, <1>4, <4>4, <4>5, <4>6, Applied
    <3> QED
      BY <3>2, <3>3
  <2>5. r.mode = "EmptyDatabase" => r.target = exported[r.chain[r.next - 1].id]
    BY <1>3, <2>1, <2>2, <2>4
  <2>6. Walked(r)
    BY <1>2, <2>1 DEF Walked
  <2> QED
    BY <1>2, <2>1, <2>2, <2>3, <2>5, <2>6 DEF Restores
<1> QED
  BY <1>1, <1>3, <1>6, <1>7, <1>8 DEF RestoreStage

LEMMA RestoreEnds ==
    ASSUME BackupInv, RestoreOK(restore), NEW r, r = restore',
           \/ \E s \in Published, mode \in RestoreModes : RestoreStart(s, mode)
           \/ RestoreDone \/ RestoreFails \/ DiscardTarget
    PROVE  Restores(r)
<1>1. PICK q : q = restore /\ q = [f \in RestoreFields |-> q[f]]
  BY DEF RestoreOK, IsRestore
<1>2. Restores(q) /\ q.target \in Database
  BY <1>1 DEF BackupInv, Restores
<1>3. ASSUME NEW s \in Published, NEW mode \in RestoreModes,
             RestoreStart(s, mode)
      PROVE  Restores(r)
  <2>1. /\ r.pc = "walk" /\ r.snap = s /\ r.next = s /\ r.chain = <<>>
        /\ r.target = q.target
    BY <1>1, <1>3 DEF RestoreStart, RestoreFields
  <2>2. <<>> \in Seq(Entry) /\ Len(<<>>) = 0 /\ 1..0 = {} /\ 2..0 = {}
    OBVIOUS
  <2>3. Walked(r)
    BY <2>1, <2>2 DEF Walked
  <2> QED
    BY <1>2, <2>1, <2>3 DEF Restores, Published
<1>4. CASE RestoreDone
  <2>1. /\ q.pc = "stage" /\ q.next > Len(q.chain) /\ Walked(q)
        /\ q.next \in 1..(Len(q.chain) + 1) /\ Len(q.chain) \in Nat
        /\ q.chain # <<>>
        /\ q.mode = "EmptyDatabase" =>
             q.target = IF q.next = 1 THEN Empty
                        ELSE exported[q.chain[q.next - 1].id]
    <3>1. /\ q.pc = "stage" /\ q.next > Len(q.chain) /\ Walked(q)
          /\ q.next \in 1..(Len(q.chain) + 1)
          /\ q.chain # <<>>
          /\ q.mode = "EmptyDatabase" =>
               q.target = IF q.next = 1 THEN Empty
                          ELSE exported[q.chain[q.next - 1].id]
      BY <1>1, <1>2, <1>4 DEF RestoreDone, Restores
    <3> QED
      BY <3>1, WalkedLength
  <2>2. q.next - 1 = Len(q.chain) /\ q.next # 1
    BY <2>1 DEF Walked
  <2>3. /\ q.chain[Len(q.chain)].id = q.snap
        /\ q.snap \in Snapshots /\ exported[q.snap] # None
    BY <2>1, WalkedExported DEF Walked
  <2>4. /\ r.pc = "ok" /\ r.snap = q.snap /\ r.mode = q.mode
        /\ r.target = q.target
    BY <1>1, <1>4 DEF RestoreDone, RestoreFields
  <2> QED
    BY <1>2, <2>1, <2>2, <2>3, <2>4 DEF Restores
<1>5. CASE RestoreFails
  <2>1. r = Stop("Validation") \/ r = Stop("Preparation")
    BY <1>5 DEF RestoreFails
  <2> QED
    BY <2>1, StopEnds
<1>6. CASE DiscardTarget
  <2>1. Empty \in Database
    BY DEF Empty, Database
  <2>2. r.pc = "idle" /\ r.target = Empty
    BY <1>1, <1>6 DEF DiscardTarget, RestoreFields
  <2> QED
    BY <2>1, <2>2, Ended
<1> QED
  BY <1>3, <1>4, <1>5, <1>6

LEMMA RestorerKeeps ==
    ASSUME BackupInv, LockInv', RestoreOK(restore), Restorer
    PROVE  BackupInv'
<1>1. PICK r : r = restore'
  OBVIOUS
<1>2. Restores(r)
  BY <1>1, RestoreWalkStep, RestoreVerifyStep, RestoreStageStep, RestoreEnds
  DEF Restorer
<1>3. UNCHANGED <<manifest, payload, content, writer, minted, exported,
                  doomed, db, source>>
  BY DEF Restorer, RestoreStart, RestoreWalk, RestoreVerify, RestoreStage,
         RestoreDone, RestoreFails, DiscardTarget, repository
<1>4. db' \in Database /\ source' \in [Objects -> {"good", "bad"}]
  BY <1>3 DEF BackupInv, Stored
<1> QED
  BY <1>1, <1>2, <1>3, <1>4, AsideStep

-----------------------------------------------------------------------------
LEMMA WriterKeeps ==
    ASSUME BackupInv, LockInv', NEW w \in Writers, Writer(w)
    PROVE  BackupInv'
  BY RequestSnapshotStep, RequestRemovalStep, LeavesStep, AcquireStep,
     ExportStep, ListObjectsStep, PutPayloadStep, PutManifestStep,
     CompactLoadStep, PruneSelectStep, DeleteSelectStep, PutObjectStep,
     CheckObjectStep, SweepObjectStep, SweepBlobStep
  DEF Writer

LEMMA BackupInvNext ==
    BackupInv /\ RestoreOK(restore) /\ [Next]_vars => BackupInv'
<1> SUFFICES ASSUME BackupInv, RestoreOK(restore), [Next]_vars
             PROVE  BackupInv'
  OBVIOUS
<1>1. LockInv'
  BY LockInvNext DEF BackupInv
<1> QED
  BY <1>1, WriterKeeps, RestorerKeeps, EnvironmentKeeps DEF Next

LEMMA BackupInvInit == Init => BackupInv
<1> SUFFICES ASSUME Init PROVE BackupInv
  OBVIOUS
<1>1. LockInv
  BY LockInvInit
<1>2. Empty \in Database
  BY DEF Empty, Database
<1>3. Stored
  BY <1>2 DEF Init, Stored
<1>4. \A s \in Snapshots : Ordered(s) /\ Kept(s)
  BY DEF Init, Ordered, Kept
<1>5. \A w \in Writers : writer[w].pc = "idle"
  BY IdleIsCall DEF Init
<1>6. Makers /\ \A w \in Writers : Spares(writer[w])
  BY <1>5 DEF Makers, Phased, Owns, Owning, Spares
<1>7. restore.pc = "idle" /\ restore.target \in Database
  BY <1>2 DEF Init
<1>8. Restores(restore)
  BY <1>7, Ended
<1> QED
  BY <1>1, <1>3, <1>4, <1>6, <1>8 DEF BackupInv

LEMMA BackupInvHolds == Spec => [](BackupInv /\ RestoreOK(restore))
<1> DEFINE Both == BackupInv /\ RestoreOK(restore)
<1>1. Init => Both
  BY BackupInvInit, RestoreInit
<1>2. Both /\ [Next]_vars => Both'
  BY BackupInvNext, RestoreStep, RestoreUntouched DEF Next
<1> HIDE DEF Both
<1>3. Spec => []Both
  BY <1>1, <1>2, PTL DEF Spec
<1> QED
  BY <1>3 DEF Both

(* Every published snapshot whose chain loads, and of which no deletion    *)
(* has chosen a member, is complete and replays to the database it was     *)
(* taken of: for chains of any length, any number of writers that fail or  *)
(* crash between two blobs, and any mix of compaction, pruning and         *)
(* deletion beside it.                                                     *)
THEOREM SnapshotsFaithfulHolds == Spec => []SnapshotsFaithful
<1>1. BackupInv /\ RestoreOK(restore) => SnapshotsFaithful
  BY FaithfulBecause
<1> QED
  BY <1>1, BackupInvHolds, PTL

(* A restore into an empty database that reports success has put exactly   *)
(* the database of the snapshot there, although it holds no lock while     *)
(* others write, compact and delete.                                       *)
THEOREM RestoreExactHolds == Spec => []RestoreExact
<1>1. BackupInv /\ RestoreOK(restore) => RestoreExact
  BY DEF BackupInv, Restores, RestoreExact
<1> QED
  BY <1>1, BackupInvHolds, PTL

(* The blobs have their shapes, and only an incremental has a parent.      *)
THEOREM TypeCorrect == Spec => []TypeOK
<1>1. BackupInv /\ RestoreOK(restore) => TypeOK
  <2> SUFFICES ASSUME BackupInv PROVE TypeOK
    OBVIOUS
  <2>1. DOMAIN payload = Snapshots /\ DOMAIN writer = Writers
    BY DEF BackupInv, Stored, LockInv, Shape
  <2>2. \A s \in Published :
          manifest[s].kind = "Incremental" <=> manifest[s].parent # None
    BY DEF BackupInv, Kept, Published
  <2> QED
    BY <2>1, <2>2 DEF BackupInv, Stored, LockInv, Restores, TypeOK
<1> QED
  BY <1>1, BackupInvHolds, PTL

-----------------------------------------------------------------------------
(* Nothing is taken from a snapshot but by a deletion that chose it.       *)

\* t keeps its blobs and its objects.
Whole(t) ==
    /\ UNCHANGED <<manifest[t], payload[t]>>
    /\ \A o \in manifest[t].objects : content[o] = "good" => content'[o] = "good"

\* A sweep is at work that has chosen t.
Swept(t) ==
    \E w \in Writers : /\ writer[w].pc = "sweep" /\ t \in writer[w].victims
                       /\ doomed' = doomed

LEMMA ObjectsOf ==
    ASSUME BackupInv, NEW t \in Published
    PROVE  /\ t \in Snapshots /\ manifest[t] # None
           /\ manifest[t].objects \subseteq Objects
           /\ \A w \in Writers : Owns(w) => writer[w].snap # t
  BY CallOf DEF Published, BackupInv, Stored, Manifest, Pending

LEMMA WholeUnlessSwept ==
    ASSUME BackupInv, [Next]_vars, NEW t \in Published
    PROVE  Whole(t) \/ Swept(t)
<1>1. /\ t \in Snapshots /\ manifest[t] # None
      /\ manifest[t].objects \subseteq Objects
      /\ \A w \in Writers : Owns(w) => writer[w].snap # t
  BY ObjectsOf
<1>2. Stored
  BY DEF BackupInv
<1>3. UNCHANGED <<manifest, payload, content>> => Whole(t)
  BY DEF Whole
<1>4. ASSUME NEW w \in Writers, PutPayload(w) PROVE Whole(t)
  <2>1. writer[w].snap # t
    BY <1>1, <1>4, MakerOf DEF PutPayload
  <2> QED
    BY <1>1, <1>2, <1>4, <2>1 DEF PutPayload, Whole, Stored
<1>5. ASSUME NEW w \in Writers, PutManifest(w) PROVE Whole(t)
  <2>1. writer[w].snap # t
    BY <1>1, <1>5, MakerOf DEF PutManifest
  <2>2. manifest'[t] = manifest[t]
    BY <1>1, <1>2, <1>5, <2>1 DEF PutManifest, Stored
  <2> QED
    BY <1>5, <2>2 DEF PutManifest, Whole
<1>6. ASSUME NEW w \in Writers, NEW o \in Objects, PutObject(w, o)
      PROVE  Whole(t)
  <2>1. \A p \in Objects : content[p] = "good" => content'[p] = "good"
    BY <1>2, <1>6, BlobAssumption DEF PutObject, Stored
  <2> QED
    BY <1>1, <1>6, <2>1 DEF PutObject, Whole
<1>7. ASSUME NEW w \in Writers, NEW o \in Objects, CheckObject(w, o)
      PROVE  Whole(t)
  <2>1. \A p \in Objects : content[p] = "good" => content'[p] = "good"
    BY <1>2, <1>7 DEF CheckObject, Stored
  <2> QED
    BY <1>1, <1>7, <2>1 DEF CheckObject, Whole
<1>8. ASSUME NEW w \in Writers, NEW o \in Objects, SweepObject(w, o)
      PROVE  Whole(t)
  <2>1. o \notin manifest[t].objects
    BY <1>1, <1>8, CallOf DEF SweepObject, Spares
  <2>2. \A p \in Objects : p # o => content'[p] = content[p]
    BY <1>2, <1>8 DEF SweepObject, Stored
  <2> QED
    BY <1>1, <1>8, <2>1, <2>2 DEF SweepObject, Whole
<1>9. ASSUME NEW w \in Writers, NEW s \in Snapshots, SweepBlob(w, s)
      PROVE  Whole(t) \/ Swept(t)
  <2>1. CASE s = t
    BY <1>9, <2>1 DEF SweepBlob, Swept
  <2>2. CASE s # t
    <3>1. manifest'[t] = manifest[t] /\ payload'[t] = payload[t]
      BY <1>1, <1>2, <1>9, <2>2 DEF SweepBlob, Stored
    <3> QED
      BY <1>9, <3>1 DEF SweepBlob, Whole
  <2> QED
    BY <2>1, <2>2
<1>10. ASSUME NEW w \in Writers, Writer(w) PROVE Whole(t) \/ Swept(t)
  <2>1. ASSUME \/ \E op \in Operations, s \in Snapshots, at \in Times :
                    RequestSnapshot(w, op, s, at)
               \/ RequestRemoval(w)
        PROVE  UNCHANGED <<manifest, payload, content>>
    BY <2>1 DEF RequestSnapshot, RequestRemoval, Request, blobs
  <2>2. ASSUME \/ AcquireRefused(w) \/ Acquire(w) \/ AcquireFails(w)
               \/ Release(w) \/ Export(w) \/ ListObjects(w) \/ CompactLoad(w)
               \/ PruneSelect(w) \/ DeleteSelect(w) \/ SweepDone(w)
               \/ OperationFails(w) \/ Crash(w)
        PROVE  UNCHANGED <<manifest, payload, content>>
    BY <2>2
    DEF AcquireRefused, Acquire, AcquireFails, Release, Export, ListObjects,
        CompactLoad, PruneSelect, DeleteSelect, SweepDone, OperationFails,
        Crash, blobs
  <2> QED
    BY <1>3, <1>4, <1>5, <1>6, <1>7, <1>8, <1>9, <1>10, <2>1, <2>2
    DEF Writer
<1>11. ASSUME Restorer \/ Environment \/ UNCHANGED vars
       PROVE  UNCHANGED <<manifest, payload, content>>
  BY <1>11
  DEF Restorer, RestoreStart, RestoreWalk, RestoreVerify, RestoreStage,
      RestoreDone, RestoreFails, DiscardTarget, repository, Environment,
      LateDelete, RecoverLock, ChangeRow, DamageOrRepair, blobs, vars
<1> QED
  BY <1>3, <1>10, <1>11 DEF Next

\* A sweep that spares a snapshot spares its chain, from child to parent.
LEMMA SparesChain ==
    ASSUME BackupInv, NEW w \in Writers, writer[w].pc = "sweep",
           NEW s \in Snapshots, s \notin doomed, Chain(s) # <<>>,
           NEW t \in Members(Chain(s))
    PROVE  t \notin writer[w].victims
<1>1. PICK ch, victims : ch = Chain(s) /\ victims = writer[w].victims
  OBVIOUS
<1>2. Leads(manifest, ch, s)
  BY <1>1, ChainLeads DEF BackupInv
<1>3. /\ ch \in Seq(Snapshots) /\ Len(ch) \in Nat \ {0} /\ ch[Len(ch)] = s
      /\ \A i \in 1..Len(ch) : ch[i] \in Published
  BY <1>2 DEF Leads, Published
<1>4. /\ s \notin victims
      /\ \A u \in Published \ victims : manifest[u].parent \notin victims
  BY <1>1, CallOf DEF Spares
<1>5. PICK i \in 1..Len(ch) : t = ch[i]
  BY <1>1, <1>3, MembersOf
<1> DEFINE N == Len(ch) - i
           G == {n \in 0..N : ch[Len(ch) - n] \notin victims}
<1>6. N \in Nat /\ 0 \in G
  BY <1>3, <1>4
<1>7. ASSUME NEW n \in 0..(N - 1), n \in G PROVE n + 1 \in G
  <2>1. PICK k : k = Len(ch) - n
    OBVIOUS
  <2>2. /\ n + 1 \in 0..N /\ k \in 2..Len(ch) /\ k \in 1..Len(ch)
        /\ Len(ch) - (n + 1) = k - 1
    BY <1>3, <1>6, <2>1
  <2>3. ch[k] \in Published \ victims
    BY <1>3, <1>7, <2>1, <2>2
  <2>4. manifest[ch[k]].parent = ch[k - 1]
    BY <1>2, <2>2 DEF Leads
  <2> QED
    BY <1>4, <2>2, <2>3, <2>4
<1>8. N \in G
  <2> HIDE DEF N, G
  <2> QED
    BY <1>6, <1>7, CountInduction
<1>9. Len(ch) - N = i
  BY <1>3
<1> QED
  BY <1>1, <1>5, <1>8, <1>9

LEMMA RestorableStays ==
    ASSUME BackupInv, [Next]_vars, NEW s \in Snapshots, Restorable(s),
           s \notin doomed'
    PROVE  Restorable(s)'
<1>1. PICK ch : ch = Chain(s) /\ ch # <<>>
  BY DEF Restorable
<1>2. /\ manifest \in [Snapshots -> Manifest \cup {None}]
      /\ ch = WalkOf(manifest)[Depth][s]
  BY <1>1, ChainIs DEF BackupInv, Stored
<1>3. ASSUME NEW t \in Members(ch) PROVE t \in Published /\ Whole(t)
  <2>1. t \in Published
    BY <1>1, ChainClosed DEF BackupInv
  <2>2. ~Swept(t)
    BY <1>1, SparesChain DEF Swept
  <2> QED
    BY <2>1, <2>2, WholeUnlessSwept
<1>4. Chain(s)' = ch
  <2>1. \A t \in Members(ch) : manifest'[t] = manifest[t]
    BY <1>3 DEF Whole
  <2>2. WalkOf(manifest')[Depth][s] = ch
    BY <1>1, <1>2, <2>1, WalkStays
  <2> QED
    BY <2>2, ChainIs
<1>5. ASSUME NEW t \in Members(ch) PROVE Verified(manifest[t], t)'
  <2>1. Verified(manifest[t], t)
    BY <1>1 DEF Restorable
  <2> QED
    BY <1>3, <2>1 DEF Whole, Verified, Loaded
<1> QED
  BY <1>1, <1>4, <1>5 DEF Restorable, Members

(* No step takes away a snapshot that could be restored unless a prune or  *)
(* a deletion chose that very snapshot: the rest of a sweep, interrupted   *)
(* or not, is closed under parents and keeps the objects it shares.        *)
THEOREM StaysRestorableHolds == Spec => StaysRestorable
<1> DEFINE Stays == \A s \in Snapshots :
                      Restorable(s) /\ s \notin doomed' => Restorable(s)'
<1>1. BackupInv /\ RestoreOK(restore) /\ [Next]_vars => [Stays]_vars
  BY RestorableStays
<1> DEFINE Both == BackupInv /\ RestoreOK(restore)
<1>2. Spec => []Both
  BY BackupInvHolds
<1>3. Both /\ [Next]_vars => [Stays]_vars
  BY <1>1
<1> HIDE DEF Both, Stays
<1>4. Spec => [][Stays]_vars
  BY <1>2, <1>3, PTL DEF Spec
<1> QED
  BY <1>4 DEF Stays, StaysRestorable
=============================================================================
