---------------------------- MODULE AiAttachments ----------------------------
(***************************************************************************)
(* Attachments of one session: the ticket, the upload through a quarantine *)
(* object to the final one, release, linking to a message, removal by the  *)
(* owner, the fenced cleanup worker, and what session retention does with  *)
(* attachments once the session is deleted (orm_attachments.rs,            *)
(* orm_session_retention.rs, orm_sessions.rs).  A host may derive an       *)
(* artifact of a released attachment: an object of its own and a file at   *)
(* a provider, which only retention cleans up, before its attachment.      *)
(*                                                                         *)
(* Rows live in the database and objects in a blob store: no transaction   *)
(* spans both.  Each action is one transaction or one call to the store;   *)
(* the call may take effect and fail, and whoever made it may die.         *)
(*                                                                         *)
(* Keys are random, so the objects of an attachment are "quarantine" and   *)
(* "final".  A row version matters only by equality with the one somebody  *)
(* remembers: current[a] is the set of those whose remembered version is   *)
(* the row's.  A deadline is the ticks left, down to -MaxLag; lag is how   *)
(* long ago an operation read its clock.                                   *)
(***************************************************************************)
EXTENDS Integers

CONSTANTS
    Attachments,
    Removers,        \* calls of remove_attachment that may be under way
    Cleaners,        \* workers that run cleanup_once
    TicketTtl,       \* upload_ticket_ttl
    ProcessingTtl,   \* upload_processing_ttl
    CleanupTtl,      \* cleanup_lease_ttl
    RetryDelay,      \* the backoff of a failed cleanup
    PurgeDelay,      \* deleted_content_purge_seconds
    MaxLag,
    ProviderFileDelete,  \* provider_file_delete_required of the policy
    None

ASSUME AttachmentConstants ==
    /\ {TicketTtl, ProcessingTtl, CleanupTtl, RetryDelay} \subseteq Nat \ {0}
    /\ {PurgeDelay, MaxLag} \subseteq Nat
    /\ None \notin Attachments
    /\ Removers \cap Cleaners = {}
    /\ "uploader" \notin Removers \cup Cleaners
    /\ ProviderFileDelete \in BOOLEAN

VARIABLES
    row,       \* row[a]: the attachment's record, None before and after it
    current,   \* who remembers the version row[a] has
    artifact,  \* artifact[a]: what was derived from it, None without one
    store,     \* the objects of each attachment and of its artifact
    upload,    \* the one upload a ticket admits
    remover, cleaner,
    session,   \* "active" or "deleting"
    cutoff,    \* ticks until a deleted session's content may be purged, None
               \* while its scope has no valid retention policy
    blocked    \* other content keeps retention from a session's attachments

vars == <<row, current, artifact, store, upload, remover, cleaner, session,
          cutoff, blocked>>

Objects == {"quarantine", "final", "derived", "file"}
States == {"pending_upload", "uploading", "ready", "released", "rejected",
           "failed", "deleting", "deleted", "expired"}
ProcessingStates ==
    {"pending", "scanning", "ready", "complete", "deleting",
     "cleanup_required", "retention_cleanup_required",
     "cleanup_in_progress", "cleanup_backoff"}
Own == {"quarantine", "final"}

ArtifactStates == {"none", "cleanup_required", "cleanup_in_progress",
                   "cleanup_backoff", "complete"}
Lags == 0 .. MaxLag

(* AiAttachmentRecord and AiAttachmentArtifactRecord.  due is the deadline *)
(* that counts in the row's state, timed whether a cleanup left its lease  *)
(* or the time of its next attempt in the row.                             *)
Row ==
    [state : States, processing : ProcessingStates, refs : SUBSET Own,
     token : BOOLEAN, due : Int, cleaned : BOOLEAN, timed : BOOLEAN,
     linked : BOOLEAN, deleted : BOOLEAN]
Artifact ==
    [state : ArtifactStates, refs : SUBSET {"derived", "file"}, due : Int,
     by : SUBSET Cleaners]

ASSUME RowAssumption == None \notin Row /\ None \notin Artifact

\* Where an upload is: how it closes the row, whether the object it deleted
\* is known to be gone, and what became unknown to everybody.
UploadCall ==
    [phase : {"new", "ticket", "called", "claimed", "stored", "accepted",
              "copied", "moved", "undoing", "undone", "discarding",
              "closing", "closed", "ended"},
     as : {"rejected", "failed"}, gone : BOOLEAN,
     lost : SUBSET {"object", "answer"}]

\* Where a removal or a cleanup is: its attachment and the objects of it, or
\* of its artifact, that it has not deleted yet.
WorkerCall ==
    [phase : {"idle", "read", "deleting"}, of : {"attachment", "artifact"},
     at : Attachments \cup {None}, refs : SUBSET Objects, ok : BOOLEAN]

Idle == [phase |-> "idle", of |-> "attachment", at |-> None, refs |-> {},
         ok |-> TRUE]

Init ==
    /\ row = [a \in Attachments |-> None]
    /\ current = [a \in Attachments |-> {}]
    /\ artifact = [a \in Attachments |-> None]
    /\ store = [a \in Attachments |-> {}]
    /\ upload = [a \in Attachments |->
                   [phase |-> "new", as |-> "failed", gone |-> FALSE,
                    lost |-> {}]]
    /\ remover = [m \in Removers |-> Idle]
    /\ cleaner = [c \in Cleaners |-> Idle]
    /\ session = "active"
    /\ cutoff = PurgeDelay
    /\ blocked = FALSE

Exists(a) == row[a] # None
Named(a) == (IF Exists(a) THEN row[a].refs ELSE {}) \cup
            (IF artifact[a] # None THEN artifact[a].refs ELSE {})

(* A committed update: only those of who go on with the row it returns     *)
(* remember its version, and every version remembered before is stale.     *)
Updated(a, r, who) ==
    /\ row' = [row EXCEPT ![a] = r]
    /\ current' = [current EXCEPT ![a] = who]
Current(a, x) == Exists(a) /\ x \in current[a]
Forgotten(x) == current' = [a \in Attachments |-> current[a] \ {x}]

\* A call that removes objects: it may take effect although it fails.
Removed(a, os, ok) ==
    \/ store' = [store EXCEPT ![a] = @ \ os]
    \/ ~ok /\ UNCHANGED store

-----------------------------------------------------------------------------
(* The upload. *)

CreateUpload(a) ==
    /\ session = "active"
    /\ upload[a].phase = "new"
    /\ upload' = [upload EXCEPT ![a].phase = "ticket"]
    /\ \E lag \in Lags :
         Updated(a, [state |-> "pending_upload", processing |-> "pending",
                     refs |-> {"quarantine"}, token |-> TRUE,
                     due |-> TicketTtl - lag, cleaned |-> FALSE,
                     timed |-> FALSE, linked |-> FALSE,
                     deleted |-> FALSE], {})
    /\ UNCHANGED <<artifact, store, remover, cleaner, session, cutoff,
                   blocked>>

\* The session is looked at before the transaction that claims the ticket.
StartUpload(a) ==
    /\ upload[a].phase = "ticket"
    /\ session # "deleting"
    /\ Exists(a)
    /\ upload' = [upload EXCEPT ![a].phase = "called"]
    /\ UNCHANGED <<artifact, row, current, store, remover, cleaner, session,
                   cutoff, blocked>>

(* The ticket is spent before a byte is stored.  A body whose announced    *)
(* size is wrong is rejected at once.                                      *)
ClaimUpload(a) ==
    /\ upload[a].phase = "called"
    /\ Exists(a)
    /\ row[a].state = "pending_upload" /\ row[a].token /\ ~row[a].deleted
    /\ \E lag \in Lags :
         /\ row[a].due + lag > 0
         /\ Updated(a, [row[a] EXCEPT !.token = FALSE, !.state = "uploading",
                                      !.processing = "scanning",
                                      !.due = ProcessingTtl - lag], {"uploader"})
    /\ \E next \in {"claimed", "closing"} :
         upload' = [upload EXCEPT ![a].phase = next, ![a].as = "rejected"]
    /\ UNCHANGED <<artifact, store, remover, cleaner, session, cutoff,
                   blocked>>

Closing(a, as) ==
    upload' = [upload EXCEPT ![a].phase = "closing", ![a].as = as]

\* The create-if-absent write of the quarantine object.
PutQuarantine(a) ==
    /\ upload[a].phase = "claimed"
    /\ \/ /\ store' = [store EXCEPT ![a] = @ \cup {"quarantine"}]
          /\ \/ upload' = [upload EXCEPT ![a].phase = "stored"]
             \/ Closing(a, "rejected")
             \/ Closing(a, "failed")
       \/ UNCHANGED store /\ Closing(a, "failed")
    /\ UNCHANGED <<artifact, row, current, remover, cleaner, session, cutoff,
                   blocked>>

\* The object is read back, scanned and put to the acceptance policy.
Scan(a) ==
    /\ upload[a].phase = "stored"
    /\ \/ /\ "quarantine" \in store[a]
          /\ \/ upload' = [upload EXCEPT ![a].phase = "accepted"]
             \/ Closing(a, "rejected")
       \/ Closing(a, "failed")
    /\ UNCHANGED <<artifact, row, current, store, remover, cleaner, session,
                   cutoff, blocked>>

(* A copy that fails may have written the final object, which nobody has   *)
(* named yet.                                                              *)
CopyToFinal(a) ==
    /\ upload[a].phase = "accepted"
    /\ \/ /\ "quarantine" \in store[a]
          /\ store' = [store EXCEPT ![a] = @ \cup {"final"}]
          /\ \/ upload' = [upload EXCEPT ![a].phase = "copied"]
             \/ upload' = [upload EXCEPT ![a].phase = "closing",
                                         ![a].as = "failed",
                                         ![a].lost = @ \cup {"object"}]
       \/ UNCHANGED store /\ Closing(a, "failed")
    /\ UNCHANGED <<artifact, row, current, remover, cleaner, session, cutoff,
                   blocked>>

DeleteQuarantine(a) ==
    /\ upload[a].phase = "copied"
    /\ \E ok \in BOOLEAN :
         /\ Removed(a, {"quarantine"}, ok)
         /\ upload' = [upload EXCEPT ![a].phase = IF ok THEN "moved"
                                                        ELSE "undoing"]
    /\ UNCHANGED <<artifact, row, current, remover, cleaner, session, cutoff,
                   blocked>>

\* The quarantine object could not be deleted: the final one is given up.
UndoCopy(a) ==
    /\ upload[a].phase = "undoing"
    /\ \E ok \in BOOLEAN :
         /\ Removed(a, {"final"}, ok)
         /\ upload' = [upload EXCEPT ![a].phase = "undone", ![a].gone = ok]
    /\ UNCHANGED <<artifact, row, current, remover, cleaner, session, cutoff,
                   blocked>>

\* What finish_external_phase leaves behind when its fence refuses it.
Ended(a, accounted) ==
    upload' = [upload EXCEPT ![a] =
      [phase |-> "ended", as |-> "failed", gone |-> FALSE,
       lost |-> @.lost \cup (IF accounted THEN {} ELSE {"object"})]]

FinishUndo(a) ==
    /\ upload[a].phase = "undone"
    /\ Ended(a, Current(a, "uploader"))
    /\ IF Current(a, "uploader")
       THEN Updated(a, [row[a] EXCEPT
              !.refs = {"quarantine"} \cup
                         (IF upload[a].gone THEN {} ELSE {"final"}),
              !.state = "failed", !.processing = "cleanup_required"], {})
       ELSE UNCHANGED <<row, current>>
    /\ UNCHANGED <<artifact, store, remover, cleaner, session, cutoff,
                   blocked>>

\* Mutant: an upload that lost its row leaves the final object behind.
FinishReadyKeepingObject(a) ==
    /\ upload[a].phase = "moved"
    /\ IF Current(a, "uploader")
       THEN Updated(a, [row[a] EXCEPT !.refs = {"final"},
                          !.state = "ready", !.processing = "ready"], {})
       ELSE UNCHANGED <<row, current>>
    /\ Ended(a, TRUE)
    /\ UNCHANGED <<artifact, store, remover, cleaner, session, cutoff,
                   blocked>>

(* The row becomes ready.  Any error, a commit whose answer is lost too,   *)
(* makes the upload discard the final object.                              *)
FinishReady(a) ==
    /\ upload[a].phase = "moved"
    /\ IF Current(a, "uploader")
       THEN /\ Updated(a, [row[a] EXCEPT !.refs = {"final"},
                             !.state = "ready", !.processing = "ready"], {})
            /\ \/ Ended(a, TRUE)
               \/ upload' = [upload EXCEPT ![a].phase = "discarding",
                                           ![a].lost = @ \cup {"answer"}]
       ELSE /\ upload' = [upload EXCEPT ![a].phase = "discarding"]
            /\ UNCHANGED <<row, current>>
    /\ UNCHANGED <<artifact, store, remover, cleaner, session, cutoff,
                   blocked>>

DiscardFinal(a) ==
    /\ upload[a].phase = "discarding"
    /\ \E ok \in BOOLEAN :
         Removed(a, {"final"}, ok)
           /\ Ended(a, ok \/ "answer" \in upload[a].lost)
    /\ UNCHANGED <<artifact, row, current, remover, cleaner, session, cutoff,
                   blocked>>

\* reject_upload and fail_upload: the object first, then the row.
CloseDelete(a) ==
    /\ upload[a].phase = "closing"
    /\ \E ok \in BOOLEAN :
         /\ Removed(a, {"quarantine"}, ok)
         /\ upload' = [upload EXCEPT ![a].phase = "closed", ![a].gone = ok]
    /\ UNCHANGED <<artifact, row, current, remover, cleaner, session, cutoff,
                   blocked>>

CloseCommit(a) ==
    /\ upload[a].phase = "closed"
    /\ Ended(a, Current(a, "uploader") \/ upload[a].gone)
    /\ IF Current(a, "uploader")
       THEN Updated(a, [row[a] EXCEPT
              !.refs = IF upload[a].gone THEN @ \ {"quarantine"} ELSE @,
              !.state = upload[a].as,
              !.processing = IF upload[a].gone THEN "complete"
                                               ELSE "cleanup_required"], {})
       ELSE UNCHANGED <<row, current>>
    /\ UNCHANGED <<artifact, store, remover, cleaner, session, cutoff,
                   blocked>>

Running(a) == upload[a].phase \notin {"new", "ticket", "called", "ended"}

(* The process that runs the upload dies.  What it stored stays named by   *)
(* the row, unless it had copied the object or had lost the row.           *)
UploadCrash(a) ==
    /\ Running(a)
    /\ Ended(a, Current(a, "uploader") /\ "final" \notin store[a])
    /\ current' = [current EXCEPT ![a] = @ \ {"uploader"}]
    /\ UNCHANGED <<artifact, row, store, remover, cleaner, session, cutoff,
                   blocked>>

-----------------------------------------------------------------------------
(* The owner. *)

FinalizeUpload(a) ==
    /\ session = "active"
    /\ Exists(a)
    /\ row[a].state = "ready" /\ row[a].refs = {"final"} /\ ~row[a].deleted
    /\ Updated(a, [row[a] EXCEPT !.state = "released",
                                 !.processing = "complete"], {})
    /\ UNCHANGED <<artifact, store, upload, remover, cleaner, session, cutoff,
                   blocked>>

\* send_message links a released attachment, whatever version it has.
Link(a) ==
    /\ session = "active"
    /\ Exists(a)
    /\ row[a].state = "released" /\ ~row[a].deleted
    /\ Updated(a, [row[a] EXCEPT !.linked = TRUE], {})
    /\ UNCHANGED <<artifact, store, upload, remover, cleaner, session, cutoff,
                   blocked>>

\* The host derives an artifact, stores it and registers it.
DeriveArtifact(a) ==
    /\ session = "active"
    /\ artifact[a] = None
    /\ Exists(a)
    /\ row[a].state = "released"
    /\ artifact' = [artifact EXCEPT ![a] =
          [state |-> "none", refs |-> {"derived", "file"}, due |-> 0, by |-> {}]]
    /\ store' = [store EXCEPT ![a] = @ \cup {"derived", "file"}]
    /\ UNCHANGED <<row, current, upload, remover, cleaner, session, cutoff,
                   blocked>>

DeleteSession ==
    /\ session = "active"
    /\ session' = "deleting"
    /\ cutoff' \in {PurgeDelay, None}
    /\ blocked' \in BOOLEAN
    /\ UNCHANGED <<artifact, row, current, store, upload, remover, cleaner>>

\* remove_attachment reads the row, and later marks it by compare and swap.
ReadForRemoval(m, a) ==
    /\ remover[m].phase = "idle"
    /\ session # "deleting"
    /\ Exists(a)
    /\ ~row[a].linked /\ row[a].state # "uploading" /\ ~row[a].deleted
    /\ current' = [current EXCEPT ![a] = @ \cup {m}]
    /\ remover' = [remover EXCEPT ![m].phase = "read", ![m].at = a]
    /\ UNCHANGED <<artifact, row, store, upload, cleaner, session, cutoff,
                   blocked>>

\* Mutant: the removal is marked whatever version the row has by now.
BeginRemovalUnfenced(m) ==
    /\ remover[m].phase = "read"
    /\ Exists(remover[m].at)
    /\ LET a == remover[m].at IN
         /\ Updated(a, [row[a] EXCEPT !.token = FALSE, !.state = "deleting",
                                      !.processing = "deleting",
                                      !.due = ProcessingTtl], {m})
         /\ remover' = [remover EXCEPT ![m].phase = "deleting",
                                       ![m].refs = row[a].refs]
    /\ UNCHANGED <<artifact, store, upload, cleaner, session, cutoff,
                   blocked>>

BeginRemoval(m) ==
    /\ remover[m].phase = "read"
    /\ LET a == remover[m].at IN
         /\ Current(a, m)
         /\ \E lag \in Lags :
              Updated(a, [row[a] EXCEPT !.token = FALSE, !.state = "deleting",
                                        !.processing = "deleting",
                                        !.due = ProcessingTtl - lag], {m})
         /\ remover' = [remover EXCEPT ![m].phase = "deleting",
                                       ![m].refs = row[a].refs]
    /\ UNCHANGED <<artifact, store, upload, cleaner, session, cutoff,
                   blocked>>

\* The final object first; an error ends the call.
RemoveObject(m) ==
    /\ remover[m].phase = "deleting"
    /\ remover[m].refs # {}
    /\ LET o == IF "final" \in remover[m].refs THEN "final" ELSE "quarantine"
       IN  \E ok \in BOOLEAN :
             /\ Removed(remover[m].at, {o}, ok)
             /\ IF ok
                THEN /\ remover' = [remover EXCEPT ![m].refs = @ \ {o}]
                     /\ UNCHANGED current
                ELSE remover' = [remover EXCEPT ![m] = Idle] /\ Forgotten(m)
    /\ UNCHANGED <<artifact, row, upload, cleaner, session, cutoff, blocked>>

FinishRemoval(m) ==
    /\ remover[m].phase = "deleting"
    /\ remover[m].refs = {}
    /\ LET a == remover[m].at IN
         IF session # "deleting" /\ Current(a, m)
         THEN Updated(a, [row[a] EXCEPT !.refs = {}, !.state = "deleted",
                            !.processing = "complete", !.deleted = TRUE], {})
         ELSE UNCHANGED <<row, current>>
    /\ remover' = [remover EXCEPT ![m] = Idle]
    /\ UNCHANGED <<artifact, store, upload, cleaner, session, cutoff,
                   blocked>>

\* The call dies, or its compare and swap is refused.
AbandonRemoval(m) ==
    /\ remover[m].phase # "idle"
    /\ remover' = [remover EXCEPT ![m] = Idle]
    /\ Forgotten(m)
    /\ UNCHANGED <<artifact, row, store, upload, cleaner, session, cutoff,
                   blocked>>

-----------------------------------------------------------------------------
(* Cleanup and retention. *)

attachment_retention_cleanup_pending(r) ==
    /\ r.state = "deleting"
    /\ r.processing \in {"retention_cleanup_required", "cleanup_in_progress",
                         "cleanup_backoff"}

\* Mutant: the claim of a worker that died is never taken over.
EligibleUnlessClaimed(r, lag) ==
    /\ r.linked \/ r.deleted => attachment_retention_cleanup_pending(r)
    /\ r.processing # "cleanup_in_progress"
    /\ \/ r.processing \in {"cleanup_required", "retention_cleanup_required"}
       \/ /\ \/ r.processing = "cleanup_backoff"
             \/ r.state \in {"pending_upload", "uploading", "deleting"}
          /\ r.due + lag <= 0

is_cleanup_eligible(r, lag) ==
    /\ r.linked \/ r.deleted => attachment_retention_cleanup_pending(r)
    /\ CASE r.processing \in {"cleanup_required",
                              "retention_cleanup_required"} -> TRUE
         [] r.processing \in {"cleanup_backoff", "cleanup_in_progress"} ->
              r.due + lag <= 0
         [] OTHER -> /\ r.state \in {"pending_upload", "uploading", "deleting"}
                     /\ r.due + lag <= 0

CutoffReached(lag) ==
    /\ session = "deleting"
    /\ cutoff # None
    /\ cutoff + lag <= 0

ClaimCleanup(c, a) ==
    /\ cleaner[c].phase = "idle"
    /\ Exists(a)
    /\ \E lag \in Lags :
         /\ is_cleanup_eligible(row[a], lag)
         /\ attachment_retention_cleanup_pending(row[a]) => CutoffReached(lag)
         /\ Updated(a, [row[a] EXCEPT !.token = FALSE,
                                      !.processing = "cleanup_in_progress",
                                      !.cleaned = TRUE, !.timed = TRUE,
                                      !.due = CleanupTtl - lag], {c})
    /\ cleaner' = [cleaner EXCEPT ![c] =
                     [Idle EXCEPT !.phase = "deleting", !.at = a,
                                  !.refs = row[a].refs]]
    /\ UNCHANGED <<artifact, store, upload, remover, session, cutoff,
                   blocked>>

is_artifact_cleanup_eligible(f, lag) ==
    \/ f.state = "cleanup_required"
    \/ f.state \in {"cleanup_backoff", "cleanup_in_progress"} /\ f.due + lag <= 0

ClaimArtifactCleanup(c, a) ==
    /\ cleaner[c].phase = "idle"
    /\ artifact[a] # None
    /\ Exists(a)
    /\ "file" \in artifact[a].refs => ProviderFileDelete
    /\ \E lag \in Lags :
         /\ is_artifact_cleanup_eligible(artifact[a], lag)
         /\ CutoffReached(lag)
         /\ artifact' = [artifact EXCEPT ![a] =
              [@ EXCEPT !.state = "cleanup_in_progress", !.by = {c},
                        !.due = CleanupTtl - lag]]
    /\ cleaner' = [cleaner EXCEPT ![c] =
                     [Idle EXCEPT !.phase = "deleting", !.of = "artifact",
                                  !.at = a, !.refs = artifact[a].refs]]
    /\ UNCHANGED <<row, current, store, upload, remover, session, cutoff,
                   blocked>>

(* The objects of an attachment are all tried; those of an artifact only   *)
(* until one is not seen to be absent, its local object first.             *)
DeleteObject(c, ok) ==
    /\ cleaner[c].phase = "deleting"
    /\ cleaner[c].refs # {}
    /\ LET refs == cleaner[c].refs
           o == CHOOSE x \in refs :
                  x \in {"final", "derived"} \/ refs \cap {"final", "derived"} = {}
       IN  /\ Removed(cleaner[c].at, {o}, ok)
           /\ cleaner' = [cleaner EXCEPT
                ![c].refs = IF ok \/ cleaner[c].of = "attachment"
                            THEN @ \ {o} ELSE {},
                ![c].ok = @ /\ ok]
    /\ UNCHANGED <<artifact, row, current, upload, remover, session, cutoff,
                   blocked>>

\* What a row becomes when its objects are known to be gone.
Cleaned(r) ==
    [r EXCEPT !.refs = {}, !.token = FALSE, !.timed = FALSE,
              !.processing = "complete",
              !.state = CASE @ = "pending_upload" -> "expired"
                          [] @ = "uploading" -> "failed"
                          [] @ = "deleting" -> "deleted"
                          [] OTHER -> @,
              !.deleted = @ \/ r.state \in {"pending_upload", "deleting"}]

FinishCleanup(c) ==
    /\ cleaner[c].phase = "deleting"
    /\ cleaner[c].of = "attachment"
    /\ cleaner[c].refs = {}
    /\ LET a == cleaner[c].at IN
         IF Current(a, c)
         THEN \/ cleaner[c].ok /\ Updated(a, Cleaned(row[a]), {})
              \/ /\ ~cleaner[c].ok
                 /\ \E lag \in Lags :
                      Updated(a, [row[a] EXCEPT
                                    !.processing = "cleanup_backoff",
                                    !.due = RetryDelay - lag], {})
         ELSE UNCHANGED <<row, current>>
    /\ cleaner' = [cleaner EXCEPT ![c] = Idle]
    /\ UNCHANGED <<artifact, store, upload, remover, session, cutoff,
                   blocked>>

FinishArtifactCleanup(c) ==
    /\ cleaner[c].phase = "deleting"
    /\ cleaner[c].of = "artifact"
    /\ cleaner[c].refs = {}
    /\ LET a == cleaner[c].at IN
         IF artifact[a] # None /\ c \in artifact[a].by
         THEN \E lag \in Lags :
                artifact' = [artifact EXCEPT ![a] =
                  IF cleaner[c].ok
                  THEN [@ EXCEPT !.state = "complete", !.refs = {}, !.by = {}]
                  ELSE [@ EXCEPT !.state = "cleanup_backoff", !.by = {},
                                 !.due = RetryDelay - lag]]
         ELSE UNCHANGED artifact
    /\ cleaner' = [cleaner EXCEPT ![c] = Idle]
    /\ UNCHANGED <<row, current, store, upload, remover, session, cutoff,
                   blocked>>

CleanerCrash(c) ==
    /\ cleaner[c].phase # "idle"
    /\ cleaner' = [cleaner EXCEPT ![c] = Idle]
    /\ Forgotten(c)
    /\ artifact' = [a \in Attachments |->
          IF artifact[a] = None THEN None
          ELSE [artifact[a] EXCEPT !.by = @ \ {c}]]
    /\ UNCHANGED <<row, store, upload, remover, session, cutoff, blocked>>

attachment_ready_for_metadata_delete(r) ==
    /\ r.deleted /\ r.cleaned /\ r.refs = {} /\ ~r.token /\ ~r.timed
    /\ r.processing = "complete"
    /\ r.state \in {"deleted", "expired", "failed"}

attachment_cleanup_pending(r) ==
    \/ r.state = "deleting"
    \/ r.processing \in {"cleanup_required", "cleanup_in_progress",
                         "cleanup_backoff", "deleting"}

(* The attachments' part of a retention pass over a deleted session: a     *)
(* cleaned row is deleted, a row in cleanup is left, any other is handed   *)
(* to the cleanup worker.  An attachment waits for its artifact.           *)
RetainedArtifact(f) ==
    CASE f.state = "complete" -> None
      [] f.state \in {"cleanup_required", "cleanup_in_progress",
                      "cleanup_backoff"} -> f
      [] OTHER -> [f EXCEPT !.state = "cleanup_required", !.by = {}]

Retained(r) ==
    IF attachment_ready_for_metadata_delete(r) THEN None
    ELSE IF attachment_cleanup_pending(r) THEN r
    ELSE [r EXCEPT !.token = FALSE, !.state = "deleting", !.timed = FALSE,
                   !.processing = "retention_cleanup_required"]

(* The pass comes to the attachments when the stages before them found     *)
(* nothing to purge and nothing that blocks them.                          *)
PruneSession ==
    /\ CutoffReached(0)
    /\ ~blocked
    /\ artifact' = [a \in Attachments |->
          IF artifact[a] = None THEN None ELSE RetainedArtifact(artifact[a])]
    /\ row' = [a \in Attachments |->
          IF Exists(a) /\ artifact'[a] = None THEN Retained(row[a]) ELSE row[a]]
    /\ <<row, artifact>>' # <<row, artifact>>
    /\ current' = [a \in Attachments |->
                     IF row'[a] = row[a] THEN current[a] ELSE {}]
    /\ UNCHANGED <<store, upload, remover, cleaner, session, cutoff, blocked>>

(* The pass that purges the last of the content that goes before the       *)
(* attachments (context checkpoints, proposals, tool calls and approvals,  *)
(* subscription waits) leaves them to the next one.  An open run, a tool   *)
(* call that was executing when its run went to recovery, or a proposal    *)
(* nobody settles, is never purged.                                        *)
PruneContent ==
    /\ CutoffReached(0)
    /\ blocked
    /\ blocked' = FALSE
    /\ UNCHANGED <<row, current, artifact, store, upload, remover, cleaner,
                   session, cutoff>>

\* An operator gives the scope a valid retention policy.
SetPolicy ==
    /\ session = "deleting"
    /\ cutoff = None
    /\ cutoff' \in 0 .. PurgeDelay
    /\ UNCHANGED <<row, current, artifact, store, upload, remover, cleaner,
                   session, blocked>>

Later(n) == IF n > -MaxLag THEN n - 1 ELSE n

Aged(r) == IF r = None THEN None ELSE [r EXCEPT !.due = Later(@)]

Tick ==
    /\ row' = [a \in Attachments |-> Aged(row[a])]
    /\ artifact' = [a \in Attachments |-> Aged(artifact[a])]
    /\ cutoff' = IF session = "deleting" /\ cutoff # None
                 THEN Later(cutoff) ELSE cutoff
    /\ <<row, artifact, cutoff>>' # <<row, artifact, cutoff>>
    /\ UNCHANGED <<current, store, upload, remover, cleaner, session,
                   blocked>>

-----------------------------------------------------------------------------
Upload(a) ==
    \/ CreateUpload(a) \/ StartUpload(a) \/ ClaimUpload(a)
    \/ PutQuarantine(a) \/ Scan(a) \/ CopyToFinal(a) \/ DeleteQuarantine(a)
    \/ UndoCopy(a) \/ FinishUndo(a) \/ FinishReady(a) \/ DiscardFinal(a)
    \/ CloseDelete(a) \/ CloseCommit(a) \/ UploadCrash(a)

Removal(m) ==
    \/ \E a \in Attachments : ReadForRemoval(m, a)
    \/ BeginRemoval(m) \/ RemoveObject(m) \/ FinishRemoval(m)
    \/ AbandonRemoval(m)

Cleanup(c) ==
    \/ \E a \in Attachments : ClaimCleanup(c, a) \/ ClaimArtifactCleanup(c, a)
    \/ \E ok \in BOOLEAN : DeleteObject(c, ok)
    \/ FinishCleanup(c) \/ FinishArtifactCleanup(c) \/ CleanerCrash(c)

Next ==
    \/ \E a \in Attachments : \/ Upload(a) \/ FinalizeUpload(a)
                               \/ Link(a) \/ DeriveArtifact(a)
    \/ DeleteSession
    \/ \E m \in Removers : Removal(m)
    \/ \E c \in Cleaners : Cleanup(c)
    \/ PruneSession \/ PruneContent \/ SetPolicy
    \/ Tick

Spec == Init /\ [][Next]_vars

\* A cleaner whose claim still stands and whose deletions all succeeded.
Holds(c) ==
    /\ cleaner[c].phase = "deleting"
    /\ cleaner[c].ok
    /\ LET a == cleaner[c].at IN
         \/ cleaner[c].of = "attachment" /\ Current(a, c)
         \/ cleaner[c].of = "artifact" /\ artifact[a] # None
                                      /\ c \in artifact[a].by

(* Hosts schedule both maintenance services, and time passes.  A cleanup   *)
(* claim outlasts the work under it many times over, workers do not die in *)
(* every pass and a store does not refuse for ever, be it asked for the    *)
(* first or the second object of a row: strong fairness of a claim and of  *)
(* the steps under it.                                                     *)
(* Which worker it is does not matter, and one may hang.  Nothing is       *)
(* assumed of uploads, removals or the owner, nor that the other content   *)
(* of a deleted session is ever purged or its scope keeps a policy.        *)
FairSpec ==
    /\ Spec
    /\ WF_vars(Tick)
    /\ WF_vars(PruneSession)
    /\ \A a \in Attachments :
         SF_vars(\E c \in Cleaners : ClaimCleanup(c, a)
                                      \/ ClaimArtifactCleanup(c, a))
    /\ \A os \in {{"final", "derived"}, {"quarantine", "file"}} :
         SF_vars(\E c \in Cleaners : /\ Holds(c)
                                     /\ os \cap cleaner[c].refs # {}
                                     /\ DeleteObject(c, TRUE)
                                     /\ os \cap cleaner'[c].refs = {})
    /\ SF_vars(\E c \in Cleaners : /\ Holds(c)
                                   /\ FinishCleanup(c)
                                      \/ FinishArtifactCleanup(c))
    /\ WF_vars(\E c \in Cleaners : \/ \E ok \in BOOLEAN : DeleteObject(c, ok)
                                   \/ FinishCleanup(c)
                                   \/ FinishArtifactCleanup(c)
                                   \/ CleanerCrash(c))

-----------------------------------------------------------------------------
(* Rows, artifacts, stored objects, and what uploads and workers remember, *)
(* have the types of orm_attachments.rs.                                   *)
TypeOK ==
    /\ row \in [Attachments -> {None} \cup Row]
    /\ current \in [Attachments ->
         SUBSET ({"uploader"} \cup Removers \cup Cleaners)]
    /\ artifact \in [Attachments -> {None} \cup Artifact]
    /\ store \in [Attachments -> SUBSET Objects]
    /\ upload \in [Attachments -> UploadCall]
    /\ remover \in [Removers -> WorkerCall]
    /\ cleaner \in [Cleaners -> WorkerCall]
    /\ session \in {"active", "deleting"}
    /\ cutoff \in Int \cup {None}
    /\ blocked \in BOOLEAN

(* What an owner may send stays readable: a ready or released attachment,  *)
(* and one that a message of a live session links, has its final object    *)
(* and no quarantined one, whatever removals, late cleaners and late       *)
(* uploads do.  The one exception is the upload that lost the answer of    *)
(* the commit that made it ready and then discarded the object.            *)
LinkedStaysReadable ==
    \A a \in Attachments :
      /\ Exists(a)
      /\ \/ row[a].state \in {"ready", "released"}
         \/ row[a].linked /\ session # "deleting"
      /\ "answer" \notin upload[a].lost
      => /\ row[a].state \in {"ready", "released"}
         /\ row[a].refs = {"final"}
         /\ store[a] \cap Own = {"final"}

(* No object is stored that no row names and no upload is working on:      *)
(* rows that say "deleted" or are gone leave nothing behind, and an        *)
(* artifact's row never outlives its attachment's, without which it could  *)
(* not be claimed.  The upload that fails a storage call after it lost its *)
(* row, that dies after the copy, or whose copy fails and lands, is the    *)
(* exception the code has no answer to.                                    *)
ObjectsAccounted ==
    \A a \in Attachments :
      /\ \/ Running(a)
         \/ "object" \in upload[a].lost
         \/ store[a] \subseteq Named(a)
      /\ artifact[a] # None => Exists(a)

(* Maintenance ends: a ticket or an upload that is abandoned is closed,    *)
(* and a deleted session that nothing obstructs any more loses every       *)
(* attachment, after its artifact and their objects, although uploads      *)
(* stall, workers die in the middle and the store fails at times.  While   *)
(* other content of the session cannot be purged, or its scope has no      *)
(* policy, its attachments stay: that much is the code's choice.           *)
MaintenanceDue(a) ==
    /\ Exists(a)
    /\ \/ row[a].state \in {"pending_upload", "uploading"}
       \/ session = "deleting" /\ cutoff # None /\ ~blocked
MaintenanceEnds ==
    \A a \in Attachments : MaintenanceDue(a) ~> ~MaintenanceDue(a)
=============================================================================
