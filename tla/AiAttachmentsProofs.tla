------------------------- MODULE AiAttachmentsProofs -------------------------
(***************************************************************************)
(* What attachments promise their owner and the operator of the blob       *)
(* store, for every number of attachments, removals and cleanup workers    *)
(* and every choice of deadlines.                                          *)
(*                                                                         *)
(* No transaction spans the rows and the store, so neither promise is      *)
(* inductive.  The invariant says of each attachment how far its upload    *)
(* is and what that leaves in the store, and of each removal and cleanup   *)
(* what its claim, while it stands, still has to delete.  It is stated of  *)
(* the values of one attachment, so that a step that leaves an attachment  *)
(* alone keeps its part by rewriting.                                      *)
(***************************************************************************)
EXTENDS AiAttachments, TLAPS

Derived == {"derived", "file"}

(* No object is outside the row's knowledge: nobody lost one, and either   *)
(* no upload is at work or the one that is lost only an answer.            *)
Settled(u) ==
    /\ "object" \notin u.lost
    /\ \/ u.phase \in {"new", "ticket", "called", "ended"}
       \/ u.phase = "discarding" /\ "answer" \in u.lost

(* A row whose objects somebody deletes, or deleted: no upload can begin   *)
(* or end on it, and nobody reads its object.                              *)
Busy(r, C) ==
    r # None => /\ ~r.token
                /\ "uploader" \notin C
                /\ r.state \notin {"ready", "released"}

(* What the store holds at each phase of the upload.                       *)
Staged(S, u) ==
    /\ u.phase \in {"new", "ticket", "called", "claimed"} => S \cap Own = {}
    /\ u.phase \in {"stored", "accepted"} => "final" \notin S
    /\ u.phase \in {"moved", "discarding"} => "quarantine" \notin S
    /\ u.phase = "undone" /\ u.gone => "final" \notin S
    /\ u.phase \in {"closing", "closed"} =>
          "object" \in u.lost \/ "final" \notin S
    /\ u.phase = "closed" /\ u.gone => "quarantine" \notin S
    /\ "answer" \in u.lost => u.phase \in {"discarding", "ended"}

(* While the upload's fence stands, nobody else knows the row's version,   *)
(* and a copy that succeeded is still there.                               *)
Fenced(r, C, S, u) ==
    "uploader" \in C =>
        /\ C = {"uploader"}
        /\ r # None
        /\ r.state = "uploading" /\ r.refs = {"quarantine"} /\ ~r.token
        /\ u.phase \in {"claimed", "stored", "accepted", "copied", "moved",
                        "undoing", "undone", "closing", "closed"}
        /\ u.phase \in {"copied", "moved"} => "final" \in S

(* What the row says of the upload, the object and the message.            *)
Recorded(r, C, S, u, s) ==
    r # None =>
        /\ u.phase # "new"
        /\ r.state = "pending_upload" => r.refs = {"quarantine"}
        /\ r.state \in {"ready", "released"} =>
              /\ r.refs = {"final"}
              /\ r.processing \in {"ready", "complete"}
              /\ u.phase = "ended" \/ "answer" \in u.lost
              /\ "answer" \notin u.lost => S \cap Own = {"final"}
        /\ r.linked /\ s # "deleting" => r.state = "released"
        /\ C \cap Removers # {} => ~r.linked

(* Every object is named, once nothing is outside the row's knowledge.     *)
Accounted(r, f, S, u) ==
    /\ Settled(u) => S \cap Own \subseteq (IF r = None THEN {} ELSE r.refs)
    /\ S \cap Derived \subseteq (IF f = None THEN {} ELSE f.refs)
    /\ f # None => r # None
    /\ f # None /\ f.state = "complete" => f.refs = {}

Attachment(a) ==
    /\ Staged(store[a], upload[a])
    /\ Fenced(row[a], current[a], store[a], upload[a])
    /\ Recorded(row[a], current[a], store[a], upload[a], session)
    /\ Accounted(row[a], artifact[a], store[a], upload[a])

(* A claim on an attachment's own objects: what it has not deleted yet     *)
(* covers what is stored, as long as it stands.                            *)
Claim(x, w, ok) ==
    LET a == w.at IN
      /\ a \in Attachments
      /\ upload[a].phase # "new"
      /\ w.refs \subseteq Own
      /\ Busy(row[a], current[a])
      /\ x \in current[a] /\ ok /\ Settled(upload[a]) =>
            store[a] \cap Own \subseteq w.refs

(* The same for a claim on the objects of its artifact.                    *)
ArtifactClaim(c, w) ==
    LET a == w.at IN
      /\ a \in Attachments
      /\ w.refs \subseteq Derived
      /\ artifact[a] # None /\ c \in artifact[a].by /\ w.ok =>
            store[a] \cap Derived \subseteq w.refs

Remover(m) ==
    /\ remover[m].phase # "idle" => remover[m].at \in Attachments
    /\ remover[m].phase = "deleting" => Claim(m, remover[m], TRUE)

Cleaner(c) ==
    cleaner[c].phase = "deleting" =>
        \/ cleaner[c].of = "attachment" /\ Claim(c, cleaner[c], cleaner[c].ok)
        \/ cleaner[c].of = "artifact" /\ ArtifactClaim(c, cleaner[c])

AttachmentInv ==
    /\ TypeOK
    /\ \A a \in Attachments : Attachment(a)
    /\ \A m \in Removers : Remover(m)
    /\ \A c \in Cleaners : Cleaner(c)

-----------------------------------------------------------------------------
(* What a step of y leaves to the other claims on an attachment: it begins *)
(* no upload, it gives nobody else a version, and the store it leaves is   *)
(* within what the claims cover.                                           *)
KeepsOwn(a, y) ==
    upload[a].phase # "new" =>
      /\ upload'[a].phase # "new"
      /\ Busy(row[a], current[a]) =>
           /\ Busy(row'[a], current'[a])
           /\ \A x \in (Removers \cup Cleaners) \ {y} :
                x \in current'[a] =>
                  /\ x \in current[a]
                  /\ Settled(upload'[a]) =>
                       \/ store'[a] \cap Own = {}
                       \/ Settled(upload[a]) /\ store'[a] \cap Own \subseteq store[a]

KeepsDerived(a, y) ==
    \A x \in Cleaners \ {y} :
      artifact'[a] # None /\ x \in artifact'[a].by =>
        /\ artifact[a] # None /\ x \in artifact[a].by
        /\ store'[a] \cap Derived \subseteq store[a]

Keeps(a, y) == KeepsOwn(a, y) /\ KeepsDerived(a, y)

(* A step elsewhere. *)
Same(a) ==
    /\ row'[a] = row[a] /\ current'[a] = current[a]
    /\ artifact'[a] = artifact[a] /\ store'[a] = store[a]
    /\ upload'[a] = upload[a]

(* The claims of everybody but y survive a step of y that keeps them.      *)
LEMMA ClaimsKept ==
    ASSUME AttachmentInv, NEW y, \A a \in Attachments : Keeps(a, y)
    PROVE  /\ \A m \in Removers \ {y} :
                remover'[m] = remover[m] => Remover(m)'
           /\ \A c \in Cleaners \ {y} :
                cleaner'[c] = cleaner[c] => Cleaner(c)'
<1>1. ASSUME NEW m \in Removers \ {y}, remover'[m] = remover[m]
      PROVE  Remover(m)'
  <2>1. Remover(m)
    BY DEF AttachmentInv
  <2>2. CASE remover[m].phase # "deleting"
    BY <1>1, <2>1, <2>2 DEF Remover
  <2>3. CASE remover[m].phase = "deleting"
    <3> DEFINE a == remover[m].at
    <3>1. Claim(m, remover[m], TRUE) /\ a \in Attachments
      BY <2>1, <2>3 DEF Remover, Claim
    <3>2. KeepsOwn(a, y)
      BY <3>1 DEF Keeps
    <3>3. Claim(m, remover[m], TRUE)'
      BY <1>1, <3>1, <3>2 DEF Claim, KeepsOwn
    <3> QED
      BY <1>1, <3>1, <3>3 DEF Remover
  <2> QED
    BY <2>2, <2>3
<1>2. ASSUME NEW c \in Cleaners \ {y}, cleaner'[c] = cleaner[c]
      PROVE  Cleaner(c)'
  <2>1. Cleaner(c)
    BY DEF AttachmentInv
  <2>2. CASE cleaner[c].phase # "deleting"
    BY <1>2, <2>2 DEF Cleaner
  <2>3. CASE /\ cleaner[c].phase = "deleting" /\ cleaner[c].of = "attachment"
             /\ Claim(c, cleaner[c], cleaner[c].ok)
    <3> DEFINE a == cleaner[c].at
    <3>1. a \in Attachments
      BY <2>3 DEF Claim
    <3>2. KeepsOwn(a, y)
      BY <3>1 DEF Keeps
    <3>3. Claim(c, cleaner[c], cleaner[c].ok)'
      BY <1>2, <2>3, <3>1, <3>2 DEF Claim, KeepsOwn
    <3> QED
      BY <1>2, <2>3, <3>3 DEF Cleaner
  <2>4. CASE /\ cleaner[c].phase = "deleting" /\ cleaner[c].of = "artifact"
             /\ ArtifactClaim(c, cleaner[c])
    <3> DEFINE a == cleaner[c].at
    <3>1. a \in Attachments
      BY <2>4 DEF ArtifactClaim
    <3>2. KeepsDerived(a, y)
      BY <3>1 DEF Keeps
    <3>3. ArtifactClaim(c, cleaner[c])'
      BY <1>2, <2>4, <3>1, <3>2 DEF ArtifactClaim, KeepsDerived
    <3> QED
      BY <1>2, <2>4, <3>3 DEF Cleaner
  <2> QED
    BY <2>1, <2>2, <2>3, <2>4 DEF Cleaner
<1> QED
  BY <1>1, <1>2

LEMMA SameKeeps ==
    ASSUME NEW a \in Attachments, Attachment(a), Same(a), session' = session,
           NEW y
    PROVE  Attachment(a)' /\ Keeps(a, y)
<1>1. Attachment(a)'
  BY DEF Attachment, Same, Staged, Fenced, Recorded, Accounted, Settled
<1>2. KeepsOwn(a, y)
  BY DEF KeepsOwn, Same, Busy, Settled
<1>3. KeepsDerived(a, y)
  BY DEF KeepsDerived, Same
<1> QED
  BY <1>1, <1>2, <1>3 DEF Keeps

(* A step of y on attachment a alone. *)
Only(a) == (\A b \in Attachments \ {a} : Same(b)) /\ session' = session
Others(y) ==
    /\ \A m \in Removers \ {y} : remover'[m] = remover[m]
    /\ \A c \in Cleaners \ {y} : cleaner'[c] = cleaner[c]

LEMMA StepOn ==
    ASSUME AttachmentInv, TypeOK', NEW a \in Attachments, NEW y,
           Only(a), Others(y), Attachment(a)', Keeps(a, y),
           y \in Removers => Remover(y)', y \in Cleaners => Cleaner(y)'
    PROVE  AttachmentInv'
<1>1. \A b \in Attachments : Attachment(b)' /\ Keeps(b, y)
  <2> SUFFICES ASSUME NEW b \in Attachments, b # a
               PROVE  Attachment(b)' /\ Keeps(b, y)
    OBVIOUS
  <2> QED
    BY SameKeeps DEF AttachmentInv, Only
<1>2. /\ \A m \in Removers \ {y} : Remover(m)'
      /\ \A c \in Cleaners \ {y} : Cleaner(c)'
  BY <1>1, ClaimsKept DEF Others
<1> QED
  BY <1>1, <1>2 DEF AttachmentInv

-----------------------------------------------------------------------------
(* Types. *)

LEMMA ConstantTypes ==
    /\ TicketTtl \in Int /\ ProcessingTtl \in Int /\ CleanupTtl \in Int
    /\ RetryDelay \in Int /\ PurgeDelay \in Int /\ MaxLag \in Int
    /\ \A lag \in Lags : lag \in Int
    /\ "uploader" \notin Removers /\ "uploader" \notin Cleaners
  BY AttachmentConstants DEF Lags

Rememberers == {"uploader"} \cup Removers \cup Cleaners

LEMMA UpdatedType ==
    ASSUME TypeOK, NEW a \in Attachments, NEW r \in Row,
           NEW who \in SUBSET Rememberers, Updated(a, r, who)
    PROVE  /\ row' \in [Attachments -> {None} \cup Row]
           /\ current' \in [Attachments -> SUBSET Rememberers]
           /\ row'[a] = r /\ current'[a] = who
           /\ \A b \in Attachments \ {a} :
                 row'[b] = row[b] /\ current'[b] = current[b]
  BY DEF TypeOK, Updated, Rememberers

-----------------------------------------------------------------------------
(* The upload's steps. *)

(* What attachment a may become. *)
Good(a, r, C, S, u) ==
    /\ u.phase # "new"
    /\ Staged(S, u)
    /\ Fenced(r, C, S, u)
    /\ Recorded(r, C, S, u, session)
    /\ Accounted(r, artifact[a], S, u)

(* A call to the store, or a step of the upload that leaves the row alone. *)
LEMMA CallStep ==
    ASSUME AttachmentInv, NEW a \in Attachments,
           store' \in [Attachments -> SUBSET Objects],
           upload' \in [Attachments -> UploadCall],
           \A b \in Attachments \ {a} :
              store'[b] = store[b] /\ upload'[b] = upload[b],
           UNCHANGED <<row, current, artifact, remover, cleaner, session, cutoff,
                       blocked>>,
           store'[a] \subseteq store[a] \cup Own,
           Good(a, row[a], current[a], store'[a], upload'[a]),
           Busy(row[a], current[a]) /\ Settled(upload'[a]) =>
              \/ store'[a] \cap Own = {}
              \/ Settled(upload[a]) /\ store'[a] \cap Own \subseteq store[a]
    PROVE  AttachmentInv'
<1>1. TypeOK /\ Attachment(a)
  BY DEF AttachmentInv
<1>2. TypeOK'
  BY <1>1 DEF TypeOK
<1>4. Attachment(a)'
  BY DEF Good, Attachment
<1>5. Keeps(a, "uploader")
  BY DEF Good, Keeps, KeepsOwn, KeepsDerived, Own, Derived
<1>6. Only(a) /\ Others("uploader")
  BY <1>1 DEF TypeOK, Only, Same, Others
<1> QED
  BY <1>2, <1>4, <1>5, <1>6, StepOn, ConstantTypes

(* A committed update of the row that leaves its version to no worker.     *)
LEMMA CommitStep ==
    ASSUME AttachmentInv, NEW a \in Attachments, NEW r \in Row,
           NEW who \in SUBSET {"uploader"},
           Updated(a, r, who),
           upload' \in [Attachments -> UploadCall],
           \A b \in Attachments \ {a} : upload'[b] = upload[b],
           UNCHANGED <<store, artifact, remover, cleaner, session, cutoff,
                       blocked>>,
           Good(a, r, who, store[a], upload'[a]),
           upload[a].phase # "new" /\ Busy(row[a], current[a]) => Busy(r, who)
    PROVE  AttachmentInv'
<1>1. TypeOK /\ Attachment(a)
  BY DEF AttachmentInv
<1>2. /\ row' \in [Attachments -> {None} \cup Row]
      /\ current' \in [Attachments -> SUBSET Rememberers]
      /\ row'[a] = r /\ current'[a] = who
      /\ \A b \in Attachments \ {a} :
            row'[b] = row[b] /\ current'[b] = current[b]
  BY <1>1, UpdatedType DEF Rememberers
<1>4. TypeOK'
  BY <1>1, <1>2 DEF TypeOK, Rememberers
<1>5. Attachment(a)'
  BY <1>2 DEF Good, Attachment
<1>6. Keeps(a, "uploader")
  BY <1>2, ConstantTypes DEF Good, Keeps, KeepsOwn, KeepsDerived
<1>7. Only(a) /\ Others("uploader")
  BY <1>1, <1>2 DEF TypeOK, Only, Same, Others
<1> QED
  BY <1>4, <1>5, <1>6, <1>7, StepOn, ConstantTypes

LEMMA CreateUploadKeeps ==
    ASSUME AttachmentInv, NEW a \in Attachments, CreateUpload(a)
    PROVE  AttachmentInv'
<1>0. TypeOK /\ Attachment(a) /\ upload[a] \in UploadCall
  BY DEF AttachmentInv, TypeOK
<1> DEFINE r(lag) == [state |-> "pending_upload", processing |-> "pending",
                      refs |-> {"quarantine"}, token |-> TRUE,
                      due |-> TicketTtl - lag, cleaned |-> FALSE,
                      timed |-> FALSE, linked |-> FALSE, deleted |-> FALSE]
<1>1. PICK lag \in Lags : Updated(a, r(lag), {})
  BY DEF CreateUpload
<1>2. r(lag) \in Row
  BY ConstantTypes DEF Row, States, ProcessingStates, Own
<1>3. /\ upload' \in [Attachments -> UploadCall]
      /\ \A b \in Attachments \ {a} : upload'[b] = upload[b]
      /\ upload'[a].phase = "ticket" /\ upload'[a].lost = upload[a].lost
  BY <1>0 DEF CreateUpload, UploadCall, TypeOK
<1>4. Good(a, r(lag), {}, store[a], upload'[a]) /\ upload[a].phase = "new"
  BY <1>0, <1>2, <1>3, RowAssumption
     DEF CreateUpload, Attachment, Good, Staged, Fenced, Recorded, Accounted,
         Settled, Own
<1> HIDE DEF r
<1> QED
  BY <1>1, <1>2, <1>3, <1>4, CommitStep DEF CreateUpload

LEMMA StartUploadKeeps ==
    ASSUME AttachmentInv, NEW a \in Attachments, StartUpload(a)
    PROVE  AttachmentInv'
<1>0. TypeOK /\ Attachment(a) /\ upload[a] \in UploadCall
  BY DEF AttachmentInv, TypeOK
<1>1. /\ upload' \in [Attachments -> UploadCall]
      /\ store' \in [Attachments -> SUBSET Objects]
      /\ \A b \in Attachments \ {a} :
            store'[b] = store[b] /\ upload'[b] = upload[b]
      /\ upload'[a].phase = "called" /\ upload'[a].lost = upload[a].lost
      /\ store'[a] = store[a]
  BY <1>0 DEF StartUpload, UploadCall, TypeOK
<1>2. /\ Good(a, row[a], current[a], store'[a], upload'[a])
      /\ store'[a] \cap Own = {}
  BY <1>0, <1>1
     DEF StartUpload, Attachment, Good, Staged, Fenced, Recorded, Accounted,
         Settled, Own
<1> QED
  BY <1>1, <1>2, CallStep DEF StartUpload

LEMMA ClaimUploadKeeps ==
    ASSUME AttachmentInv, NEW a \in Attachments, ClaimUpload(a)
    PROVE  AttachmentInv'
<1>0. /\ TypeOK /\ Attachment(a) /\ upload[a] \in UploadCall
      /\ row[a] \in Row /\ row[a] # None
  BY DEF ClaimUpload, Exists, AttachmentInv, TypeOK
<1> DEFINE r(d) == [row[a] EXCEPT !.token = FALSE, !.state = "uploading",
                                  !.processing = "scanning", !.due = d]
<1>1. PICK lag \in Lags : Updated(a, r(ProcessingTtl - lag), {"uploader"})
  BY DEF ClaimUpload
<1> DEFINE d == ProcessingTtl - lag
<1>2. d \in Int
  BY ConstantTypes
<1> HIDE DEF d
<1>3. /\ r(d) \in Row
      /\ r(d).state = "uploading" /\ ~r(d).token
      /\ r(d).refs = row[a].refs /\ r(d).linked = row[a].linked
  BY <1>0, <1>2 DEF Row, States, ProcessingStates
<1>4. /\ upload' \in [Attachments -> UploadCall]
      /\ \A b \in Attachments \ {a} : upload'[b] = upload[b]
      /\ upload'[a].phase \in {"claimed", "closing"}
      /\ upload'[a].lost = upload[a].lost
  <2>1. PICK next \in {"claimed", "closing"} :
          upload' = [upload EXCEPT ![a].phase = next, ![a].as = "rejected"]
    BY DEF ClaimUpload
  <2> QED
    BY <1>0, <2>1 DEF UploadCall, TypeOK
<1>5. Updated(a, r(d), {"uploader"})
  BY <1>1 DEF d
<1> HIDE DEF r
<1>6. Good(a, r(d), {"uploader"}, store[a], upload'[a])
  BY <1>0, <1>3, <1>4, RowAssumption, ConstantTypes
     DEF ClaimUpload, Attachment, Good, Staged, Fenced, Recorded, Accounted,
         Settled, Own
<1>7. ~Busy(row[a], current[a])
  BY <1>0 DEF ClaimUpload, Busy
<1> QED
  BY <1>3, <1>4, <1>5, <1>6, <1>7, CommitStep DEF ClaimUpload

LEMMA PutQuarantineKeeps ==
    ASSUME AttachmentInv, NEW a \in Attachments, PutQuarantine(a)
    PROVE  AttachmentInv'
<1>0. /\ TypeOK /\ Attachment(a) /\ upload[a] \in UploadCall
      /\ store[a] \subseteq Objects
  BY DEF AttachmentInv, TypeOK
<1>1. /\ upload' \in [Attachments -> UploadCall]
      /\ store' \in [Attachments -> SUBSET Objects]
      /\ \A b \in Attachments \ {a} :
            store'[b] = store[b] /\ upload'[b] = upload[b]
  <2>1. upload' \in [Attachments -> UploadCall]
    <3>1. CASE Closing(a, "rejected")
      BY <1>0, <3>1 DEF Closing, UploadCall, TypeOK
    <3>2. CASE Closing(a, "failed")
      BY <1>0, <3>2 DEF Closing, UploadCall, TypeOK
    <3>3. CASE upload' = [upload EXCEPT ![a].phase = "stored"]
      BY <1>0, <3>3 DEF UploadCall, TypeOK
    <3> QED
      BY <3>1, <3>2, <3>3 DEF PutQuarantine
  <2>2. \A b \in Attachments \ {a} : upload'[b] = upload[b]
    BY <1>0 DEF PutQuarantine, Closing, TypeOK
  <2>3. /\ store' \in [Attachments -> SUBSET Objects]
        /\ \A b \in Attachments \ {a} : store'[b] = store[b]
    BY <1>0 DEF PutQuarantine, Closing, TypeOK, Objects
  <2> QED
    BY <2>1, <2>2, <2>3
<1>2. /\ upload'[a].lost = upload[a].lost
      /\ \/ /\ store'[a] = store[a] \cup {"quarantine"}
            /\ upload'[a].phase \in {"stored", "closing"}
         \/ store'[a] = store[a] /\ upload'[a].phase = "closing"
  BY <1>0 DEF PutQuarantine, Closing, UploadCall, TypeOK
<1>3. /\ Good(a, row[a], current[a], store'[a], upload'[a])
      /\ store'[a] \subseteq store[a] \cup Own
      /\ Settled(upload'[a]) =>
            \/ store'[a] \cap Own = {}
            \/ Settled(upload[a]) /\ store'[a] \cap Own \subseteq store[a]
  BY <1>0, <1>2
     DEF PutQuarantine, Attachment, Good, Staged, Fenced, Recorded, Accounted,
         Settled, Own, Objects, Derived, UploadCall
<1> QED
  BY <1>1, <1>3, CallStep DEF PutQuarantine

LEMMA ScanKeeps ==
    ASSUME AttachmentInv, NEW a \in Attachments, Scan(a)
    PROVE  AttachmentInv'
<1>0. /\ TypeOK /\ Attachment(a) /\ upload[a] \in UploadCall
      /\ store[a] \subseteq Objects
  BY DEF AttachmentInv, TypeOK
<1>1. /\ upload' \in [Attachments -> UploadCall]
      /\ store' \in [Attachments -> SUBSET Objects]
      /\ \A b \in Attachments \ {a} :
            store'[b] = store[b] /\ upload'[b] = upload[b]
  <2>1. upload' \in [Attachments -> UploadCall]
    <3>1. CASE Closing(a, "rejected")
      BY <1>0, <3>1 DEF Closing, UploadCall, TypeOK
    <3>2. CASE Closing(a, "failed")
      BY <1>0, <3>2 DEF Closing, UploadCall, TypeOK
    <3>3. CASE upload' = [upload EXCEPT ![a].phase = "accepted"]
      BY <1>0, <3>3 DEF UploadCall, TypeOK
    <3> QED
      BY <3>1, <3>2, <3>3 DEF Scan
  <2>2. \A b \in Attachments \ {a} : upload'[b] = upload[b]
    BY <1>0 DEF Scan, Closing, TypeOK
  <2>3. /\ store' \in [Attachments -> SUBSET Objects]
        /\ \A b \in Attachments \ {a} : store'[b] = store[b]
    BY <1>0 DEF Scan, Closing, TypeOK, Objects
  <2> QED
    BY <2>1, <2>2, <2>3
<1>2. /\ upload'[a].lost = upload[a].lost
      /\ upload'[a].phase \in {"accepted", "closing"}
      /\ store'[a] = store[a]
  BY <1>0 DEF Scan, Closing, UploadCall, TypeOK
<1>3. /\ Good(a, row[a], current[a], store'[a], upload'[a])
      /\ store'[a] \subseteq store[a] \cup Own
      /\ Settled(upload'[a]) =>
            \/ store'[a] \cap Own = {}
            \/ Settled(upload[a]) /\ store'[a] \cap Own \subseteq store[a]
  BY <1>0, <1>2
     DEF Scan, Attachment, Good, Staged, Fenced, Recorded, Accounted,
         Settled, Own, Objects, Derived, UploadCall
<1> QED
  BY <1>1, <1>3, CallStep DEF Scan

LEMMA CopyToFinalKeeps ==
    ASSUME AttachmentInv, NEW a \in Attachments, CopyToFinal(a)
    PROVE  AttachmentInv'
<1>0. /\ TypeOK /\ Attachment(a) /\ upload[a] \in UploadCall
      /\ store[a] \subseteq Objects
  BY DEF AttachmentInv, TypeOK
<1>1. /\ upload' \in [Attachments -> UploadCall]
      /\ store' \in [Attachments -> SUBSET Objects]
      /\ \A b \in Attachments \ {a} :
            store'[b] = store[b] /\ upload'[b] = upload[b]
  <2>1. upload' \in [Attachments -> UploadCall]
    <3>1. CASE Closing(a, "failed")
      BY <1>0, <3>1 DEF Closing, UploadCall, TypeOK
    <3>2. CASE upload' = [upload EXCEPT ![a].phase = "copied"]
      BY <1>0, <3>2 DEF UploadCall, TypeOK
    <3>3. CASE upload' = [upload EXCEPT ![a].phase = "closing",
                                        ![a].as = "failed",
                                        ![a].lost = @ \cup {"object"}]
      BY <1>0, <3>3 DEF UploadCall, TypeOK
    <3> QED
      BY <3>1, <3>2, <3>3 DEF CopyToFinal
  <2>2. \A b \in Attachments \ {a} : upload'[b] = upload[b]
    BY <1>0 DEF CopyToFinal, Closing, TypeOK
  <2>3. /\ store' \in [Attachments -> SUBSET Objects]
        /\ \A b \in Attachments \ {a} : store'[b] = store[b]
    BY <1>0 DEF CopyToFinal, Closing, TypeOK, Objects
  <2> QED
    BY <2>1, <2>2, <2>3
<1>2. \/ /\ store'[a] = store[a] \cup {"final"}
         /\ \/ /\ upload'[a].phase = "copied"
               /\ upload'[a].lost = upload[a].lost
            \/ /\ upload'[a].phase = "closing"
               /\ upload'[a].lost = upload[a].lost \cup {"object"}
      \/ /\ store'[a] = store[a]
         /\ upload'[a].phase = "closing" /\ upload'[a].lost = upload[a].lost
  BY <1>0 DEF CopyToFinal, Closing, UploadCall, TypeOK
<1>3. /\ Good(a, row[a], current[a], store'[a], upload'[a])
      /\ store'[a] \subseteq store[a] \cup Own
      /\ Settled(upload'[a]) =>
            \/ store'[a] \cap Own = {}
            \/ Settled(upload[a]) /\ store'[a] \cap Own \subseteq store[a]
  BY <1>0, <1>2
     DEF CopyToFinal, Attachment, Good, Staged, Fenced, Recorded, Accounted,
         Settled, Own, Objects, Derived, UploadCall
<1> QED
  BY <1>1, <1>3, CallStep DEF CopyToFinal

LEMMA DeleteQuarantineKeeps ==
    ASSUME AttachmentInv, NEW a \in Attachments, DeleteQuarantine(a)
    PROVE  AttachmentInv'
<1>0. /\ TypeOK /\ Attachment(a) /\ upload[a] \in UploadCall
      /\ store[a] \subseteq Objects
  BY DEF AttachmentInv, TypeOK
<1>1. /\ upload' \in [Attachments -> UploadCall]
      /\ store' \in [Attachments -> SUBSET Objects]
      /\ \A b \in Attachments \ {a} :
            store'[b] = store[b] /\ upload'[b] = upload[b]
  <2>1. upload' \in [Attachments -> UploadCall]
    BY <1>0 DEF DeleteQuarantine, Removed, UploadCall, TypeOK
  <2>2. \A b \in Attachments \ {a} : upload'[b] = upload[b]
    BY <1>0 DEF DeleteQuarantine, Removed, TypeOK
  <2>3. /\ store' \in [Attachments -> SUBSET Objects]
        /\ \A b \in Attachments \ {a} : store'[b] = store[b]
    BY <1>0 DEF DeleteQuarantine, Removed, TypeOK, Objects
  <2> QED
    BY <2>1, <2>2, <2>3
<1>2. /\ upload'[a].lost = upload[a].lost
      /\ \/ /\ store'[a] = store[a] \ {"quarantine"}
            /\ upload'[a].phase \in {"moved", "undoing"}
         \/ store'[a] = store[a] /\ upload'[a].phase = "undoing"
  BY <1>0 DEF DeleteQuarantine, Removed, UploadCall, TypeOK
<1>3. /\ Good(a, row[a], current[a], store'[a], upload'[a])
      /\ store'[a] \subseteq store[a] \cup Own
      /\ Settled(upload'[a]) =>
            \/ store'[a] \cap Own = {}
            \/ Settled(upload[a]) /\ store'[a] \cap Own \subseteq store[a]
  BY <1>0, <1>2
     DEF DeleteQuarantine, Attachment, Good, Staged, Fenced, Recorded, Accounted,
         Settled, Own, Objects, Derived, UploadCall
<1> QED
  BY <1>1, <1>3, CallStep DEF DeleteQuarantine

LEMMA UndoCopyKeeps ==
    ASSUME AttachmentInv, NEW a \in Attachments, UndoCopy(a)
    PROVE  AttachmentInv'
<1>0. /\ TypeOK /\ Attachment(a) /\ upload[a] \in UploadCall
      /\ store[a] \subseteq Objects
  BY DEF AttachmentInv, TypeOK
<1>1. /\ upload' \in [Attachments -> UploadCall]
      /\ store' \in [Attachments -> SUBSET Objects]
      /\ \A b \in Attachments \ {a} :
            store'[b] = store[b] /\ upload'[b] = upload[b]
  <2>1. upload' \in [Attachments -> UploadCall]
    <3>1. PICK ok \in BOOLEAN :
            upload' = [upload EXCEPT ![a].phase = "undone", ![a].gone = ok]
      BY DEF UndoCopy
    <3> QED
      BY <1>0, <3>1 DEF UploadCall, TypeOK
  <2>2. \A b \in Attachments \ {a} : upload'[b] = upload[b]
    BY <1>0 DEF UndoCopy, Removed, TypeOK
  <2>3. /\ store' \in [Attachments -> SUBSET Objects]
        /\ \A b \in Attachments \ {a} : store'[b] = store[b]
    BY <1>0 DEF UndoCopy, Removed, TypeOK, Objects
  <2> QED
    BY <2>1, <2>2, <2>3
<1>2. /\ upload'[a].lost = upload[a].lost
      /\ upload'[a].phase = "undone"
      /\ \/ store'[a] = store[a] \ {"final"}
         \/ store'[a] = store[a] /\ ~upload'[a].gone
  BY <1>0 DEF UndoCopy, Removed, UploadCall, TypeOK
<1>3. /\ Good(a, row[a], current[a], store'[a], upload'[a])
      /\ store'[a] \subseteq store[a] \cup Own
      /\ Settled(upload'[a]) =>
            \/ store'[a] \cap Own = {}
            \/ Settled(upload[a]) /\ store'[a] \cap Own \subseteq store[a]
  BY <1>0, <1>2
     DEF UndoCopy, Attachment, Good, Staged, Fenced, Recorded, Accounted,
         Settled, Own, Objects, Derived, UploadCall
<1> QED
  BY <1>1, <1>3, CallStep DEF UndoCopy

LEMMA CloseDeleteKeeps ==
    ASSUME AttachmentInv, NEW a \in Attachments, CloseDelete(a)
    PROVE  AttachmentInv'
<1>0. /\ TypeOK /\ Attachment(a) /\ upload[a] \in UploadCall
      /\ store[a] \subseteq Objects
  BY DEF AttachmentInv, TypeOK
<1>1. /\ upload' \in [Attachments -> UploadCall]
      /\ store' \in [Attachments -> SUBSET Objects]
      /\ \A b \in Attachments \ {a} :
            store'[b] = store[b] /\ upload'[b] = upload[b]
  <2>1. upload' \in [Attachments -> UploadCall]
    <3>1. PICK ok \in BOOLEAN :
            upload' = [upload EXCEPT ![a].phase = "closed", ![a].gone = ok]
      BY DEF CloseDelete
    <3> QED
      BY <1>0, <3>1 DEF UploadCall, TypeOK
  <2>2. \A b \in Attachments \ {a} : upload'[b] = upload[b]
    BY <1>0 DEF CloseDelete, Removed, TypeOK
  <2>3. /\ store' \in [Attachments -> SUBSET Objects]
        /\ \A b \in Attachments \ {a} : store'[b] = store[b]
    BY <1>0 DEF CloseDelete, Removed, TypeOK, Objects
  <2> QED
    BY <2>1, <2>2, <2>3
<1>2. /\ upload'[a].lost = upload[a].lost
      /\ upload'[a].phase = "closed"
      /\ \/ store'[a] = store[a] \ {"quarantine"}
         \/ store'[a] = store[a] /\ ~upload'[a].gone
  BY <1>0 DEF CloseDelete, Removed, UploadCall, TypeOK
<1>3. /\ Good(a, row[a], current[a], store'[a], upload'[a])
      /\ store'[a] \subseteq store[a] \cup Own
      /\ Settled(upload'[a]) =>
            \/ store'[a] \cap Own = {}
            \/ Settled(upload[a]) /\ store'[a] \cap Own \subseteq store[a]
  BY <1>0, <1>2
     DEF CloseDelete, Attachment, Good, Staged, Fenced, Recorded, Accounted,
         Settled, Own, Objects, Derived, UploadCall
<1> QED
  BY <1>1, <1>3, CallStep DEF CloseDelete

LEMMA DiscardFinalKeeps ==
    ASSUME AttachmentInv, NEW a \in Attachments, DiscardFinal(a)
    PROVE  AttachmentInv'
<1>0. /\ TypeOK /\ Attachment(a) /\ upload[a] \in UploadCall
      /\ store[a] \subseteq Objects
  BY DEF AttachmentInv, TypeOK
<1>1. /\ upload' \in [Attachments -> UploadCall]
      /\ store' \in [Attachments -> SUBSET Objects]
      /\ \A b \in Attachments \ {a} :
            store'[b] = store[b] /\ upload'[b] = upload[b]
  <2>1. upload' \in [Attachments -> UploadCall]
    BY <1>0 DEF DiscardFinal, Removed, Ended, UploadCall, TypeOK
  <2>2. \A b \in Attachments \ {a} : upload'[b] = upload[b]
    BY <1>0 DEF DiscardFinal, Removed, Ended, TypeOK
  <2>3. /\ store' \in [Attachments -> SUBSET Objects]
        /\ \A b \in Attachments \ {a} : store'[b] = store[b]
    BY <1>0 DEF DiscardFinal, Removed, Ended, TypeOK, Objects
  <2> QED
    BY <2>1, <2>2, <2>3
<1>2. /\ upload'[a].phase = "ended"
      /\ \/ /\ store'[a] = store[a] \ {"final"}
            /\ upload'[a].lost = upload[a].lost
         \/ /\ store'[a] \in {store[a], store[a] \ {"final"}}
            /\ "answer" \in upload[a].lost /\ upload'[a].lost = upload[a].lost
         \/ /\ store'[a] \in {store[a], store[a] \ {"final"}}
            /\ upload'[a].lost = upload[a].lost \cup {"object"}
  BY <1>0 DEF DiscardFinal, Removed, Ended, UploadCall, TypeOK
<1>3. /\ Good(a, row[a], current[a], store'[a], upload'[a])
      /\ store'[a] \subseteq store[a] \cup Own
      /\ Settled(upload'[a]) =>
            \/ store'[a] \cap Own = {}
            \/ Settled(upload[a]) /\ store'[a] \cap Own \subseteq store[a]
  BY <1>0, <1>2
     DEF DiscardFinal, Attachment, Good, Staged, Fenced, Recorded, Accounted,
         Settled, Own, Objects, Derived, UploadCall
<1> QED
  BY <1>1, <1>3, CallStep DEF DiscardFinal

LEMMA FinishUndoKeeps ==
    ASSUME AttachmentInv, NEW a \in Attachments, FinishUndo(a)
    PROVE  AttachmentInv'
<1>0. /\ TypeOK /\ Attachment(a) /\ upload[a] \in UploadCall
      /\ store[a] \subseteq Objects
  BY DEF AttachmentInv, TypeOK
<1>1. /\ upload' \in [Attachments -> UploadCall]
      /\ \A b \in Attachments \ {a} : upload'[b] = upload[b]
  BY <1>0 DEF FinishUndo, Ended, UploadCall, TypeOK
<1>2. CASE Current(a, "uploader")
  <2> DEFINE r == [row[a] EXCEPT
             !.refs = {"quarantine"} \cup
                        (IF upload[a].gone THEN {} ELSE {"final"}),
             !.state = "failed", !.processing = "cleanup_required"]
  <2>1. row[a] # None /\ row[a] \in Row
    BY <1>0, <1>2 DEF Current, Exists, TypeOK
  <2>2. /\ r \in Row
        /\ r.state = "failed" /\ r.linked = row[a].linked
        /\ r.refs = {"quarantine"} \cup
                        (IF upload[a].gone THEN {} ELSE {"final"})
    BY <2>1, <1>0 DEF Row, States, ProcessingStates, Own, UploadCall
  <2>3. Updated(a, r, {})
    BY <1>2 DEF FinishUndo
  <2>4. upload'[a].phase = "ended" /\ upload'[a].lost = upload[a].lost
    BY <1>0, <1>2 DEF FinishUndo, Ended, UploadCall, TypeOK
  <2> HIDE DEF r
  <2>5. Good(a, r, {}, store[a], upload'[a])
    BY <1>0, <1>2, <2>1, <2>2, <2>4, RowAssumption
       DEF FinishUndo, Current, Exists, Attachment, Good, Staged, Fenced, Recorded,
           Accounted, Settled, Own, Objects
  <2>6. ~Busy(row[a], current[a])
    BY <1>2 DEF Current, Exists, Busy
  <2> QED
    BY <1>1, <2>2, <2>3, <2>5, <2>6, CommitStep DEF FinishUndo
<1>3. CASE ~Current(a, "uploader")
  <2>1. upload'[a].phase = "ended" /\ "object" \in upload'[a].lost
          /\ upload'[a].lost = upload[a].lost \cup {"object"}
    BY <1>0, <1>3 DEF FinishUndo, Ended, UploadCall, TypeOK
  <2>2. store' \in [Attachments -> SUBSET Objects] /\ store' = store
    BY <1>0 DEF FinishUndo, TypeOK
  <2>3. UNCHANGED <<row, current>>
    BY <1>3 DEF FinishUndo
  <2>4. /\ Good(a, row[a], current[a], store'[a], upload'[a])
        /\ Settled(upload'[a]) =>
            \/ store'[a] \cap Own = {}
            \/ Settled(upload[a]) /\ store'[a] \cap Own \subseteq store[a]
    BY <1>0, <1>3, <2>1, <2>2
       DEF FinishUndo, Current, Exists, Attachment, Good, Staged, Fenced, Recorded,
           Accounted, Settled, Own, Objects
  <2> QED
    BY <1>1, <2>2, <2>3, <2>4, CallStep DEF FinishUndo
<1> QED
  BY <1>2, <1>3

LEMMA FinishReadyKeeps ==
    ASSUME AttachmentInv, NEW a \in Attachments, FinishReady(a)
    PROVE  AttachmentInv'
<1>0. /\ TypeOK /\ Attachment(a) /\ upload[a] \in UploadCall
      /\ store[a] \subseteq Objects
  BY DEF AttachmentInv, TypeOK
<1>1. /\ upload' \in [Attachments -> UploadCall]
      /\ \A b \in Attachments \ {a} : upload'[b] = upload[b]
  <2>1. CASE Ended(a, TRUE)
    BY <1>0, <2>1 DEF Ended, UploadCall, TypeOK
  <2>2. CASE upload' = [upload EXCEPT ![a].phase = "discarding"]
    BY <1>0, <2>2 DEF UploadCall, TypeOK
  <2>3. CASE upload' = [upload EXCEPT ![a].phase = "discarding",
                                      ![a].lost = @ \cup {"answer"}]
    BY <1>0, <2>3 DEF UploadCall, TypeOK
  <2> QED
    BY <2>1, <2>2, <2>3 DEF FinishReady
<1>2. CASE Current(a, "uploader")
  <2> DEFINE r == [row[a] EXCEPT !.refs = {"final"}, !.state = "ready",
                            !.processing = "ready"]
  <2>1. row[a] # None /\ row[a] \in Row
    BY <1>0, <1>2 DEF Current, Exists, TypeOK
  <2>2. /\ r \in Row
        /\ r.state = "ready" /\ r.linked = row[a].linked
        /\ r.refs = {"final"} /\ r.processing = "ready"
    BY <2>1, <1>0 DEF Row, States, ProcessingStates, Own, UploadCall
  <2>3. Updated(a, r, {})
    BY <1>2 DEF FinishReady
  <2>4. \/ upload'[a].phase = "ended" /\ upload'[a].lost = upload[a].lost
        \/ /\ upload'[a].phase = "discarding"
           /\ upload'[a].lost = upload[a].lost \cup {"answer"}
    BY <1>0, <1>2 DEF FinishReady, Ended, UploadCall, TypeOK
  <2> HIDE DEF r
  <2>5. Good(a, r, {}, store[a], upload'[a])
    BY <1>0, <1>2, <2>1, <2>2, <2>4, RowAssumption
       DEF FinishReady, Current, Exists, Attachment, Good, Staged, Fenced, Recorded,
           Accounted, Settled, Own, Objects
  <2>6. ~Busy(row[a], current[a])
    BY <1>2 DEF Current, Exists, Busy
  <2> QED
    BY <1>1, <2>2, <2>3, <2>5, <2>6, CommitStep DEF FinishReady
<1>3. CASE ~Current(a, "uploader")
  <2>1. upload'[a].phase = "discarding" /\ upload'[a].lost = upload[a].lost
    BY <1>0, <1>3 DEF FinishReady, UploadCall, TypeOK
  <2>2. store' \in [Attachments -> SUBSET Objects] /\ store' = store
    BY <1>0 DEF FinishReady, TypeOK
  <2>3. UNCHANGED <<row, current>>
    BY <1>3 DEF FinishReady
  <2>4. /\ Good(a, row[a], current[a], store'[a], upload'[a])
        /\ Settled(upload'[a]) =>
            \/ store'[a] \cap Own = {}
            \/ Settled(upload[a]) /\ store'[a] \cap Own \subseteq store[a]
    BY <1>0, <1>3, <2>1, <2>2
       DEF FinishReady, Current, Exists, Attachment, Good, Staged, Fenced, Recorded,
           Accounted, Settled, Own, Objects
  <2> QED
    BY <1>1, <2>2, <2>3, <2>4, CallStep DEF FinishReady
<1> QED
  BY <1>2, <1>3

LEMMA CloseCommitKeeps ==
    ASSUME AttachmentInv, NEW a \in Attachments, CloseCommit(a)
    PROVE  AttachmentInv'
<1>0. /\ TypeOK /\ Attachment(a) /\ upload[a] \in UploadCall
      /\ store[a] \subseteq Objects
  BY DEF AttachmentInv, TypeOK
<1>1. /\ upload' \in [Attachments -> UploadCall]
      /\ \A b \in Attachments \ {a} : upload'[b] = upload[b]
  BY <1>0 DEF CloseCommit, Ended, UploadCall, TypeOK
<1>2. CASE Current(a, "uploader")
  <2> DEFINE r == [row[a] EXCEPT
             !.refs = IF upload[a].gone THEN @ \ {"quarantine"} ELSE @,
             !.state = upload[a].as,
             !.processing = IF upload[a].gone THEN "complete"
                                              ELSE "cleanup_required"]
  <2>1. row[a] # None /\ row[a] \in Row
    BY <1>0, <1>2 DEF Current, Exists, TypeOK
  <2>2. /\ r \in Row
        /\ r.state \in {"rejected", "failed"} /\ r.linked = row[a].linked
        /\ r.refs = IF upload[a].gone THEN row[a].refs \ {"quarantine"}
                                      ELSE row[a].refs
    BY <2>1, <1>0 DEF Row, States, ProcessingStates, Own, UploadCall
  <2>3. Updated(a, r, {})
    BY <1>2 DEF CloseCommit
  <2>4. upload'[a].phase = "ended" /\ upload'[a].lost = upload[a].lost
    BY <1>0, <1>2 DEF CloseCommit, Ended, UploadCall, TypeOK
  <2> HIDE DEF r
  <2>5. Good(a, r, {}, store[a], upload'[a])
    BY <1>0, <1>2, <2>1, <2>2, <2>4, RowAssumption
       DEF CloseCommit, Current, Exists, Attachment, Good, Staged, Fenced, Recorded,
           Accounted, Settled, Own, Objects
  <2>6. ~Busy(row[a], current[a])
    BY <1>2 DEF Current, Exists, Busy
  <2> QED
    BY <1>1, <2>2, <2>3, <2>5, <2>6, CommitStep DEF CloseCommit
<1>3. CASE ~Current(a, "uploader")
  <2>1. /\ upload'[a].phase = "ended"
        /\ upload'[a].lost =
              upload[a].lost \cup (IF upload[a].gone THEN {} ELSE {"object"})
    BY <1>0, <1>3 DEF CloseCommit, Ended, UploadCall, TypeOK
  <2>2. store' \in [Attachments -> SUBSET Objects] /\ store' = store
    BY <1>0 DEF CloseCommit, TypeOK
  <2>3. UNCHANGED <<row, current>>
    BY <1>3 DEF CloseCommit
  <2>4. /\ Good(a, row[a], current[a], store'[a], upload'[a])
        /\ Settled(upload'[a]) =>
            \/ store'[a] \cap Own = {}
            \/ Settled(upload[a]) /\ store'[a] \cap Own \subseteq store[a]
    BY <1>0, <1>3, <2>1, <2>2
       DEF CloseCommit, Current, Exists, Attachment, Good, Staged, Fenced, Recorded,
           Accounted, Settled, Own, Objects
  <2> QED
    BY <1>1, <2>2, <2>3, <2>4, CallStep DEF CloseCommit
<1> QED
  BY <1>2, <1>3
LEMMA UploadCrashKeeps ==
    ASSUME AttachmentInv, NEW a \in Attachments, UploadCrash(a)
    PROVE  AttachmentInv'
<1>0. /\ TypeOK /\ Attachment(a) /\ upload[a] \in UploadCall
      /\ store[a] \subseteq Objects
  BY DEF AttachmentInv, TypeOK
<1>1. /\ upload' \in [Attachments -> UploadCall]
      /\ \A b \in Attachments \ {a} : upload'[b] = upload[b]
      /\ upload'[a].phase = "ended"
      /\ upload'[a].lost = upload[a].lost \cup
            (IF Current(a, "uploader") /\ "final" \notin store[a]
             THEN {} ELSE {"object"})
  BY <1>0 DEF UploadCrash, Ended, UploadCall, TypeOK
<1>2. /\ current' \in [Attachments -> SUBSET Rememberers]
      /\ current'[a] = current[a] \ {"uploader"}
      /\ \A b \in Attachments \ {a} : current'[b] = current[b]
  BY <1>0 DEF UploadCrash, TypeOK, Rememberers
<1>3. TypeOK'
  BY <1>0, <1>1, <1>2 DEF UploadCrash, TypeOK, Rememberers
<1>4. Good(a, row[a], current'[a], store[a], upload'[a])
  BY <1>0, <1>1, <1>2
     DEF UploadCrash, Running, Current, Exists, Attachment, Good, Staged,
         Fenced, Recorded, Accounted, Settled, Own, Objects, UploadCall
<1>5. Attachment(a)'
  BY <1>4 DEF UploadCrash, Good, Attachment
<1>6. Keeps(a, "uploader")
  <2>1. KeepsOwn(a, "uploader")
    BY <1>0, <1>1, <1>2, ConstantTypes
       DEF UploadCrash, KeepsOwn, Busy, Settled, Current, Exists, Attachment,
           Fenced
  <2>2. KeepsDerived(a, "uploader")
    BY DEF UploadCrash, KeepsDerived
  <2> QED
    BY <2>1, <2>2 DEF Keeps
<1>7. Only(a) /\ Others("uploader")
  BY <1>0, <1>1, <1>2 DEF UploadCrash, TypeOK, Only, Same, Others
<1> QED
  BY <1>3, <1>5, <1>6, <1>7, StepOn, ConstantTypes

LEMMA UploadKeeps ==
    ASSUME AttachmentInv, NEW a \in Attachments, Upload(a)
    PROVE  AttachmentInv'
  BY CreateUploadKeeps, StartUploadKeeps, ClaimUploadKeeps,
     PutQuarantineKeeps, ScanKeeps, CopyToFinalKeeps, DeleteQuarantineKeeps,
     UndoCopyKeeps, FinishUndoKeeps, FinishReadyKeeps, DiscardFinalKeeps,
     CloseDeleteKeeps, CloseCommitKeeps, UploadCrashKeeps
     DEF Upload

-----------------------------------------------------------------------------
(* The owner's steps. *)

LEMMA FinalizeUploadKeeps ==
    ASSUME AttachmentInv, NEW a \in Attachments, FinalizeUpload(a)
    PROVE  AttachmentInv'
<1>0. /\ TypeOK /\ Attachment(a)
      /\ row[a] # None /\ row[a] \in Row
  BY DEF AttachmentInv, TypeOK, FinalizeUpload, Exists
<1> DEFINE r == [row[a] EXCEPT !.state = "released", !.processing = "complete"]
<1>1. /\ r \in Row
      /\ r.state = "released" /\ r.processing = "complete"
      /\ r.refs = row[a].refs /\ r.linked = row[a].linked
  BY <1>0 DEF Row, States, ProcessingStates
<1>2. Updated(a, r, {})
  BY DEF FinalizeUpload
<1> HIDE DEF r
<1>3. /\ Good(a, r, {}, store[a], upload'[a])
      /\ ~Busy(row[a], current[a])
  BY <1>0, <1>1, RowAssumption
     DEF FinalizeUpload, Attachment, Good, Staged, Fenced, Recorded,
         Accounted, Settled, Busy, Own
<1>4. /\ upload' \in [Attachments -> UploadCall]
      /\ \A b \in Attachments \ {a} : upload'[b] = upload[b]
  BY <1>0 DEF FinalizeUpload, TypeOK
<1> QED
  BY <1>1, <1>2, <1>3, <1>4, CommitStep DEF FinalizeUpload

LEMMA LinkKeeps ==
    ASSUME AttachmentInv, NEW a \in Attachments, Link(a)
    PROVE  AttachmentInv'
<1>0. /\ TypeOK /\ Attachment(a)
      /\ row[a] # None /\ row[a] \in Row
  BY DEF AttachmentInv, TypeOK, Link, Exists
<1> DEFINE r == [row[a] EXCEPT !.linked = TRUE]
<1>1. /\ r \in Row
      /\ r.state = row[a].state /\ r.processing = row[a].processing
      /\ r.refs = row[a].refs /\ r.linked
  BY <1>0 DEF Row
<1>2. Updated(a, r, {})
  BY DEF Link
<1> HIDE DEF r
<1>3. /\ Good(a, r, {}, store[a], upload'[a])
      /\ ~Busy(row[a], current[a])
  BY <1>0, <1>1, RowAssumption
     DEF Link, Attachment, Good, Staged, Fenced, Recorded,
         Accounted, Settled, Busy, Own
<1>4. /\ upload' \in [Attachments -> UploadCall]
      /\ \A b \in Attachments \ {a} : upload'[b] = upload[b]
  BY <1>0 DEF Link, TypeOK
<1> QED
  BY <1>1, <1>2, <1>3, <1>4, CommitStep DEF Link

LEMMA DeriveArtifactKeeps ==
    ASSUME AttachmentInv, NEW a \in Attachments, DeriveArtifact(a)
    PROVE  AttachmentInv'
<1>0. /\ TypeOK /\ Attachment(a) /\ store[a] \subseteq Objects
      /\ row[a] # None /\ row[a] \in Row
  BY DEF AttachmentInv, TypeOK, DeriveArtifact, Exists
<1> DEFINE f == [state |-> "none", refs |-> {"derived", "file"}, due |-> 0,
                 by |-> {}]
<1>1. /\ f \in Artifact /\ f # None
      /\ f.state = "none" /\ f.refs = Derived /\ f.by = {}
  BY RowAssumption DEF Artifact, ArtifactStates, Derived
<1>2. artifact' = [artifact EXCEPT ![a] = f]
  BY DEF DeriveArtifact
<1> HIDE DEF f
<1>3. /\ artifact' \in [Attachments -> {None} \cup Artifact]
      /\ artifact'[a] = f
      /\ \A b \in Attachments \ {a} : artifact'[b] = artifact[b]
  BY <1>0, <1>1, <1>2 DEF TypeOK
<1>4. /\ store' \in [Attachments -> SUBSET Objects]
      /\ store'[a] = store[a] \cup Derived
      /\ \A b \in Attachments \ {a} : store'[b] = store[b]
  BY <1>0 DEF TypeOK, DeriveArtifact, Objects, Derived
<1>5. TypeOK'
  BY <1>0, <1>3, <1>4 DEF TypeOK, DeriveArtifact
<1>6. Attachment(a)'
  <2>1. store'[a] \cap Own = store[a] \cap Own
    BY <1>4 DEF Own, Derived
  <2> QED
    BY <1>0, <1>1, <1>3, <1>4, <2>1
       DEF DeriveArtifact, Attachment, Staged, Fenced, Recorded, Accounted,
           Settled, Derived
<1>7. Keeps(a, "uploader")
  <2>1. ~Busy(row[a], current[a])
    BY <1>0 DEF DeriveArtifact, Busy
  <2> QED
    BY <1>1, <1>3, <2>1 DEF DeriveArtifact, Keeps, KeepsOwn, KeepsDerived
<1>8. Only(a) /\ Others("uploader")
  BY <1>0, <1>3, <1>4 DEF DeriveArtifact, TypeOK, Only, Same, Others
<1> QED
  BY <1>5, <1>6, <1>7, <1>8, StepOn, ConstantTypes

LEMMA DeleteSessionKeeps ==
    ASSUME AttachmentInv, DeleteSession
    PROVE  AttachmentInv'
<1> USE DEF AttachmentInv, DeleteSession
<1>1. TypeOK'
  BY ConstantTypes DEF TypeOK
<1>2. ASSUME NEW a \in Attachments
      PROVE  Attachment(a)' /\ Keeps(a, "uploader")
  BY DEF Attachment, Staged, Fenced, Recorded, Accounted, Settled, Keeps,
         KeepsOwn, KeepsDerived, Busy
<1>3. /\ \A m \in Removers : Remover(m)'
      /\ \A c \in Cleaners : Cleaner(c)'
  BY <1>2, ClaimsKept, ConstantTypes
<1> QED
  BY <1>1, <1>2, <1>3

-----------------------------------------------------------------------------
(* Removals. *)

LEMMA StepAll ==
    ASSUME AttachmentInv, TypeOK', NEW y, Others(y),
           \A a \in Attachments : Attachment(a)' /\ Keeps(a, y),
           y \in Removers => Remover(y)', y \in Cleaners => Cleaner(y)'
    PROVE  AttachmentInv'
<1>1. /\ \A m \in Removers \ {y} : Remover(m)'
      /\ \A c \in Cleaners \ {y} : Cleaner(c)'
  BY ClaimsKept DEF Others
<1> QED
  BY <1>1 DEF AttachmentInv

(* A worker forgets its version.                                           *)
LEMMA ForgetKeeps ==
    ASSUME NEW a \in Attachments, Attachment(a),
           NEW x \in Removers \cup Cleaners,
           row'[a] = row[a], current'[a] = current[a] \ {x},
           artifact'[a] = artifact[a], store'[a] = store[a],
           upload'[a] = upload[a], session' = session
    PROVE  Attachment(a)' /\ Keeps(a, x)
<1>1. Attachment(a)'
  BY ConstantTypes DEF Attachment, Staged, Fenced, Recorded, Accounted, Settled
<1>2. Keeps(a, x)
  BY DEF Keeps, KeepsOwn, KeepsDerived, Busy, Settled
<1> QED
  BY <1>1, <1>2

(* Whoever deletes objects of a busy attachment.                           *)
LEMMA ShrinkKeeps ==
    ASSUME NEW a \in Attachments, Attachment(a), Busy(row[a], current[a]),
           NEW x \in Removers \cup Cleaners,
           row'[a] = row[a], current'[a] \in {current[a], current[a] \ {x}},
           artifact'[a] = artifact[a], store'[a] \subseteq store[a],
           upload'[a] = upload[a], session' = session
    PROVE  Attachment(a)' /\ Keeps(a, x)
<1>1. "uploader" \notin current[a]
  BY DEF Attachment, Fenced, Busy
<1>2. Attachment(a)'
  BY <1>1 DEF Attachment, Staged, Fenced, Recorded, Accounted, Settled, Busy
<1>3. Keeps(a, x)
  BY <1>1 DEF Keeps, KeepsOwn, KeepsDerived, Busy, Settled
<1> QED
  BY <1>2, <1>3

LEMMA RemovedType ==
    ASSUME TypeOK, NEW a \in Attachments, NEW os, NEW ok \in BOOLEAN,
           Removed(a, os, ok)
    PROVE  /\ store' \in [Attachments -> SUBSET Objects]
           /\ store'[a] \subseteq store[a]
           /\ ok => store'[a] = store[a] \ os
           /\ store[a] \ os \subseteq store'[a]
           /\ \A b \in Attachments \ {a} : store'[b] = store[b]
  BY DEF TypeOK, Removed

LEMMA ReadForRemovalKeeps ==
    ASSUME AttachmentInv, NEW m \in Removers, NEW a \in Attachments,
           ReadForRemoval(m, a)
    PROVE  AttachmentInv'
<1>0. TypeOK /\ Attachment(a)
  BY DEF AttachmentInv
<1>1. /\ remover' \in [Removers -> WorkerCall]
      /\ remover'[m].phase = "read" /\ remover'[m].at = a
  <2>1. remover[m] \in WorkerCall
    BY <1>0 DEF TypeOK
  <2>2. [remover[m] EXCEPT !.phase = "read", !.at = a] \in WorkerCall
    BY <2>1 DEF WorkerCall
  <2> QED
    BY <1>0, <2>1, <2>2 DEF ReadForRemoval, TypeOK, WorkerCall
<1>2. /\ current' \in [Attachments -> SUBSET Rememberers]
      /\ current'[a] = current[a] \cup {m}
      /\ \A b \in Attachments \ {a} : current'[b] = current[b]
  BY <1>0 DEF ReadForRemoval, TypeOK, Rememberers
<1>3. TypeOK'
  BY <1>0, <1>1, <1>2 DEF ReadForRemoval, TypeOK, Rememberers
<1>4. Remover(m)'
  BY <1>1 DEF Remover
<1>5. Attachment(a)'
  BY <1>0, <1>2, ConstantTypes
     DEF ReadForRemoval, Exists, Attachment, Staged, Fenced, Recorded,
         Accounted, Settled
<1>6. Keeps(a, m)
  BY <1>2, ConstantTypes
     DEF ReadForRemoval, Exists, Keeps, KeepsOwn, KeepsDerived, Busy, Settled
<1>7. Only(a) /\ Others(m)
  BY <1>0, <1>2 DEF ReadForRemoval, TypeOK, Only, Same, Others
<1> QED
  BY <1>3, <1>4, <1>5, <1>6, <1>7, StepOn, AttachmentConstants

LEMMA BeginRemovalKeeps ==
    ASSUME AttachmentInv, NEW m \in Removers, BeginRemoval(m)
    PROVE  AttachmentInv'
<1>a. PICK a \in Attachments : a = remover[m].at
  BY DEF AttachmentInv, Remover, BeginRemoval
<1>0. /\ TypeOK /\ Attachment(a)
      /\ row[a] # None /\ row[a] \in Row /\ m \in current[a]
  BY <1>a DEF AttachmentInv, BeginRemoval, Current, Exists, TypeOK
<1> DEFINE r(d) == [row[a] EXCEPT !.token = FALSE, !.state = "deleting",
                                  !.processing = "deleting", !.due = d]
<1>1. PICK lag \in Lags : Updated(a, r(ProcessingTtl - lag), {m})
  BY <1>a DEF BeginRemoval
<1> DEFINE d == ProcessingTtl - lag
<1>2. d \in Int /\ Updated(a, r(d), {m})
  BY <1>1, ConstantTypes
<1> HIDE DEF d
<1>3. /\ r(d) \in Row
      /\ r(d).state = "deleting" /\ ~r(d).token
      /\ r(d).refs = row[a].refs /\ r(d).linked = row[a].linked
  BY <1>0, <1>2 DEF Row, States, ProcessingStates
<1>4. /\ remover' \in [Removers -> WorkerCall]
      /\ remover'[m].phase = "deleting" /\ remover'[m].at = a
      /\ remover'[m].refs = row[a].refs
      /\ row[a].refs \subseteq Own
  <2>1. row[a].refs \subseteq Own /\ row[a].refs \subseteq Objects
    BY <1>0 DEF Row, Own, Objects
  <2>2. remover[m] \in WorkerCall
    BY <1>0 DEF TypeOK
  <2>3. [remover[m] EXCEPT !.phase = "deleting", !.refs = row[a].refs]
          \in WorkerCall
    BY <2>1, <2>2 DEF WorkerCall
  <2> QED
    BY <1>0, <1>a, <2>1, <2>2, <2>3 DEF BeginRemoval, TypeOK, WorkerCall
<1> HIDE DEF r
<1>5. /\ row' \in [Attachments -> {None} \cup Row]
      /\ current' \in [Attachments -> SUBSET Rememberers]
      /\ row'[a] = r(d) /\ current'[a] = {m}
      /\ \A b \in Attachments \ {a} :
            row'[b] = row[b] /\ current'[b] = current[b]
  BY <1>0, <1>2, <1>3, UpdatedType DEF Rememberers
<1>6. TypeOK'
  BY <1>0, <1>4, <1>5 DEF BeginRemoval, TypeOK, Rememberers
<1>7. ~row[a].linked
  BY <1>0 DEF Attachment, Recorded
<1>8. Attachment(a)'
  BY <1>0, <1>3, <1>5, <1>7, ConstantTypes, RowAssumption
     DEF BeginRemoval, Attachment, Staged, Fenced, Recorded, Accounted, Settled
<1>9. Remover(m)'
  BY <1>0, <1>3, <1>4, <1>5, ConstantTypes
     DEF BeginRemoval, Remover, Claim, Busy, Attachment, Recorded, Accounted
<1>10. Keeps(a, m)
  BY <1>0, <1>3, <1>5, ConstantTypes
     DEF BeginRemoval, Keeps, KeepsOwn, KeepsDerived, Busy
<1>11. Only(a) /\ Others(m)
  BY <1>0, <1>5 DEF BeginRemoval, TypeOK, Only, Same, Others
<1> QED
  BY <1>0, <1>6, <1>8, <1>9, <1>10, <1>11, StepOn, AttachmentConstants

LEMMA AbandonRemovalKeeps ==
    ASSUME AttachmentInv, NEW m \in Removers, AbandonRemoval(m)
    PROVE  AttachmentInv'
<1>0. TypeOK
  BY DEF AttachmentInv
<1>1. /\ remover' \in [Removers -> WorkerCall]
      /\ remover'[m].phase = "idle"
      /\ Others(m)
  BY <1>0 DEF AbandonRemoval, TypeOK, WorkerCall, Idle, Others
<1>2. /\ current' \in [Attachments -> SUBSET Rememberers]
      /\ \A a \in Attachments : current'[a] = current[a] \ {m}
  BY <1>0 DEF AbandonRemoval, Forgotten, TypeOK, Rememberers
<1>3. TypeOK'
  BY <1>0, <1>1, <1>2 DEF AbandonRemoval, TypeOK, Rememberers
<1>4. \A a \in Attachments : Attachment(a)' /\ Keeps(a, m)
  BY <1>2, ForgetKeeps DEF AttachmentInv, AbandonRemoval
<1>5. Remover(m)'
  BY <1>1 DEF Remover
<1> QED
  BY <1>1, <1>3, <1>4, <1>5, StepAll, AttachmentConstants

LEMMA RemoveObjectKeeps ==
    ASSUME AttachmentInv, NEW m \in Removers, RemoveObject(m)
    PROVE  AttachmentInv'
<1>a. PICK a \in Attachments : a = remover[m].at
  BY DEF AttachmentInv, Remover, RemoveObject
<1>0. /\ TypeOK /\ Attachment(a) /\ remover[m] \in WorkerCall
      /\ Claim(m, remover[m], TRUE)
  BY DEF AttachmentInv, Remover, RemoveObject, TypeOK
<1> DEFINE o == IF "final" \in remover[m].refs THEN "final" ELSE "quarantine"
<1>1. PICK ok \in BOOLEAN :
        /\ Removed(a, {o}, ok)
        /\ IF ok
           THEN /\ remover' = [remover EXCEPT ![m].refs = @ \ {o}]
                /\ UNCHANGED current
           ELSE remover' = [remover EXCEPT ![m] = Idle] /\ Forgotten(m)
  BY <1>a DEF RemoveObject
<1> HIDE DEF o
<1>2. /\ store' \in [Attachments -> SUBSET Objects]
      /\ store'[a] \subseteq store[a]
      /\ ok => store'[a] = store[a] \ {o}
      /\ \A b \in Attachments \ {a} : store'[b] = store[b]
  BY <1>0, <1>1, RemovedType
<1>3. Busy(row[a], current[a])
  BY <1>0, <1>a DEF Claim
<1>4. CASE ok
  <2>0. /\ remover \in [Removers -> WorkerCall]
        /\ remover' = [remover EXCEPT ![m].refs = @ \ {o}]
    BY <1>0, <1>1, <1>4 DEF TypeOK
  <2>1. remover' \in [Removers -> WorkerCall]
    <3>1. [remover[m] EXCEPT !.refs = @ \ {o}] \in WorkerCall
      BY <1>0 DEF WorkerCall
    <3>2. QED
      BY <2>0, <3>1
  <2>2. /\ remover'[m].phase = "deleting" /\ remover'[m].at = a
        /\ remover'[m].refs = remover[m].refs \ {o}
    BY <1>0, <1>1, <1>4, <1>a DEF RemoveObject, TypeOK, WorkerCall
  <2>3. TypeOK'
    BY <1>0, <1>1, <1>2, <1>4, <2>1 DEF RemoveObject, TypeOK
  <2>4. Attachment(a)' /\ Keeps(a, m)
    BY <1>0, <1>1, <1>2, <1>3, <1>4, ShrinkKeeps DEF RemoveObject
  <2>5. Remover(m)'
    BY <1>0, <1>1, <1>2, <1>4, <1>a, <2>2 DEF RemoveObject, Remover, Claim
  <2>6. Only(a) /\ Others(m)
    BY <1>0, <1>1, <1>2, <1>4 DEF RemoveObject, TypeOK, Only, Same, Others
  <2> QED
    BY <2>3, <2>4, <2>5, <2>6, StepOn, AttachmentConstants
<1>5. CASE ~ok
  <2>1. /\ remover' \in [Removers -> WorkerCall]
        /\ remover'[m].phase = "idle"
        /\ Others(m)
    <3>1. UNCHANGED cleaner
      BY DEF RemoveObject
    <3>2. remover' = [remover EXCEPT ![m] = Idle]
      BY <1>1, <1>5
    <3>3. Idle \in WorkerCall /\ Idle.phase = "idle"
      BY DEF WorkerCall, Idle
    <3> QED
      BY <1>0, <3>1, <3>2, <3>3 DEF TypeOK, Others
  <2>2. /\ current' \in [Attachments -> SUBSET Rememberers]
        /\ \A b \in Attachments : current'[b] = current[b] \ {m}
    BY <1>0, <1>1, <1>5 DEF Forgotten, TypeOK, Rememberers
  <2>3. TypeOK'
    BY <1>0, <1>2, <2>1, <2>2 DEF RemoveObject, TypeOK, Rememberers
  <2>4. Attachment(a)' /\ Keeps(a, m)
    BY <1>0, <1>2, <1>3, <2>2, ShrinkKeeps DEF RemoveObject
  <2>5. \A b \in Attachments \ {a} : Attachment(b)' /\ Keeps(b, m)
    BY <1>2, <2>2, ForgetKeeps DEF AttachmentInv, RemoveObject
  <2>6. Remover(m)'
    BY <2>1 DEF Remover
  <2> QED
    BY <2>1, <2>3, <2>4, <2>5, <2>6, StepAll, AttachmentConstants
<1> QED
  BY <1>4, <1>5

(* A worker ends its work on a row: what it commits leaves no version.     *)
LEMMA FinishStep ==
    ASSUME AttachmentInv, NEW a \in Attachments, NEW x \in Removers \cup Cleaners,
           NEW r \in Row, Updated(a, r, {}),
           row[a] # None, Busy(row[a], current[a]), upload[a].phase # "new",
           r.state \notin {"ready", "released"}, ~r.token,
           r.linked = row[a].linked,
           row[a].linked /\ session # "deleting" => r.state = "released",
           r.state = "pending_upload" => r.refs = {"quarantine"},
           Settled(upload[a]) => store[a] \cap Own \subseteq r.refs,
           UNCHANGED <<artifact, store, upload, session>>
    PROVE  /\ row' \in [Attachments -> {None} \cup Row]
           /\ current' \in [Attachments -> SUBSET Rememberers]
           /\ Attachment(a)' /\ Keeps(a, x) /\ Only(a)
<1>1. TypeOK /\ Attachment(a)
  BY DEF AttachmentInv
<1>2. /\ row' \in [Attachments -> {None} \cup Row]
      /\ current' \in [Attachments -> SUBSET Rememberers]
      /\ row'[a] = r /\ current'[a] = {}
      /\ \A b \in Attachments \ {a} :
            row'[b] = row[b] /\ current'[b] = current[b]
  BY <1>1, UpdatedType DEF Rememberers
<1>3. Attachment(a)'
  BY <1>1, <1>2, RowAssumption
     DEF Attachment, Staged, Fenced, Recorded, Accounted, Settled
<1>4. Keeps(a, x)
  BY <1>2 DEF Keeps, KeepsOwn, KeepsDerived, Busy
<1>5. Only(a)
  BY <1>2 DEF Only, Same
<1> QED
  BY <1>2, <1>3, <1>4, <1>5

LEMMA FinishRemovalKeeps ==
    ASSUME AttachmentInv, NEW m \in Removers, FinishRemoval(m)
    PROVE  AttachmentInv'
<1>a. PICK a \in Attachments : a = remover[m].at
  BY DEF AttachmentInv, Remover, FinishRemoval
<1>0. /\ TypeOK /\ Attachment(a) /\ Claim(m, remover[m], TRUE)
  BY DEF AttachmentInv, Remover, FinishRemoval
<1>1. /\ remover' \in [Removers -> WorkerCall]
      /\ remover'[m].phase = "idle"
      /\ Others(m)
  BY <1>0 DEF FinishRemoval, TypeOK, WorkerCall, Idle, Others
<1>2. Remover(m)'
  BY <1>1 DEF Remover
<1>3. CASE session # "deleting" /\ Current(a, m)
  <2> DEFINE r == [row[a] EXCEPT !.refs = {}, !.state = "deleted",
                     !.processing = "complete", !.deleted = TRUE]
  <2>1. row[a] # None /\ row[a] \in Row /\ m \in current[a]
    BY <1>0, <1>3 DEF Current, Exists, TypeOK
  <2>2. /\ r \in Row /\ r.state = "deleted" /\ r.refs = {}
        /\ r.linked = row[a].linked /\ r.token = row[a].token
    BY <2>1 DEF Row, States, ProcessingStates
  <2>3. Updated(a, r, {})
    BY <1>3, <1>a DEF FinishRemoval
  <2> HIDE DEF r
  <2>4. /\ Busy(row[a], current[a]) /\ upload[a].phase # "new"
        /\ Settled(upload[a]) => store[a] \cap Own \subseteq r.refs
    BY <1>0, <1>a, <2>1, <2>2 DEF Claim, FinishRemoval
  <2>5. ~row[a].linked /\ ~row[a].token
    BY <1>0, <2>1, <2>4 DEF Attachment, Recorded, Busy
  <2>6. /\ row' \in [Attachments -> {None} \cup Row]
        /\ current' \in [Attachments -> SUBSET Rememberers]
        /\ Attachment(a)' /\ Keeps(a, m) /\ Only(a)
    BY <2>1, <2>2, <2>3, <2>4, <2>5, FinishStep DEF FinishRemoval
  <2>7. TypeOK'
    BY <1>0, <1>1, <2>6 DEF FinishRemoval, TypeOK, Rememberers
  <2> QED
    BY <1>1, <1>2, <2>6, <2>7, StepOn, AttachmentConstants
<1>4. CASE ~(session # "deleting" /\ Current(a, m))
  <2>1. UNCHANGED <<row, current>>
    BY <1>4, <1>a DEF FinishRemoval
  <2>2. TypeOK'
    BY <1>0, <1>1, <2>1 DEF FinishRemoval, TypeOK
  <2>3. \A b \in Attachments : Same(b) /\ session' = session
    BY <2>1 DEF Same, FinishRemoval
  <2>4. \A b \in Attachments : Attachment(b)' /\ Keeps(b, m)
    BY <2>3, SameKeeps DEF AttachmentInv
  <2> QED
    BY <1>1, <1>2, <2>2, <2>4, StepAll, AttachmentConstants
<1> QED
  BY <1>3, <1>4

LEMMA RemovalKeeps ==
    ASSUME AttachmentInv, NEW m \in Removers, Removal(m)
    PROVE  AttachmentInv'
  BY ReadForRemovalKeeps, BeginRemovalKeeps, RemoveObjectKeeps,
     FinishRemovalKeeps, AbandonRemovalKeeps DEF Removal

-----------------------------------------------------------------------------
(* Cleanup and retention. *)

LEMMA ClaimCleanupKeeps ==
    ASSUME AttachmentInv, NEW c \in Cleaners, NEW a \in Attachments,
           ClaimCleanup(c, a)
    PROVE  AttachmentInv'
<1>0. /\ TypeOK /\ Attachment(a)
      /\ row[a] # None /\ row[a] \in Row
  BY DEF AttachmentInv, ClaimCleanup, Exists, TypeOK
<1> DEFINE r(d) == [row[a] EXCEPT !.token = FALSE,
                                  !.processing = "cleanup_in_progress",
                                  !.cleaned = TRUE, !.timed = TRUE, !.due = d]
<1>1. PICK lag \in Lags : /\ is_cleanup_eligible(row[a], lag)
                          /\ Updated(a, r(CleanupTtl - lag), {c})
  BY DEF ClaimCleanup
<1> DEFINE d == CleanupTtl - lag
<1>2. d \in Int /\ Updated(a, r(d), {c})
  BY <1>1, ConstantTypes
<1> HIDE DEF d
<1>3. /\ r(d) \in Row
      /\ r(d).state = row[a].state /\ ~r(d).token
      /\ r(d).refs = row[a].refs /\ r(d).linked = row[a].linked
  BY <1>0, <1>2 DEF Row, ProcessingStates
<1>4. /\ cleaner' \in [Cleaners -> WorkerCall]
      /\ cleaner'[c].phase = "deleting" /\ cleaner'[c].at = a
      /\ cleaner'[c].of = "attachment" /\ cleaner'[c].refs = row[a].refs
      /\ row[a].refs \subseteq Own
  <2>1. row[a].refs \subseteq Own /\ row[a].refs \subseteq Objects
    BY <1>0 DEF Row, Own, Objects
  <2> DEFINE w == [Idle EXCEPT !.phase = "deleting", !.at = a,
                               !.refs = row[a].refs]
  <2>2. /\ w \in WorkerCall /\ w.phase = "deleting" /\ w.at = a
        /\ w.of = "attachment" /\ w.refs = row[a].refs
    BY <2>1 DEF WorkerCall, Idle
  <2>3. cleaner' = [cleaner EXCEPT ![c] = w]
    BY DEF ClaimCleanup
  <2> HIDE DEF w
  <2> QED
    BY <1>0, <2>1, <2>2, <2>3 DEF TypeOK
<1> HIDE DEF r
<1>5. /\ row' \in [Attachments -> {None} \cup Row]
      /\ current' \in [Attachments -> SUBSET Rememberers]
      /\ row'[a] = r(d) /\ current'[a] = {c}
      /\ \A b \in Attachments \ {a} :
            row'[b] = row[b] /\ current'[b] = current[b]
  BY <1>0, <1>2, <1>3, UpdatedType DEF Rememberers
<1>6. TypeOK'
  BY <1>0, <1>4, <1>5 DEF ClaimCleanup, TypeOK, Rememberers
<1>7. row[a].state \notin {"ready", "released"}
  BY <1>0, <1>1 DEF Attachment, Recorded, is_cleanup_eligible
<1>8. Attachment(a)'
  BY <1>0, <1>3, <1>5, <1>7, AttachmentConstants, RowAssumption
     DEF ClaimCleanup, Attachment, Staged, Fenced, Recorded, Accounted, Settled
<1>9. Cleaner(c)'
  BY <1>0, <1>3, <1>4, <1>5, <1>7, ConstantTypes
     DEF ClaimCleanup, Cleaner, Claim, Busy, Attachment, Recorded, Accounted
<1>10. Keeps(a, c)
  BY <1>0, <1>3, <1>5, <1>7, ConstantTypes
     DEF ClaimCleanup, Keeps, KeepsOwn, KeepsDerived, Busy
<1>11. Only(a) /\ Others(c)
  BY <1>0, <1>5 DEF ClaimCleanup, TypeOK, Only, Same, Others
<1> QED
  BY <1>6, <1>8, <1>9, <1>10, <1>11, StepOn, AttachmentConstants

LEMMA ClaimArtifactCleanupKeeps ==
    ASSUME AttachmentInv, NEW c \in Cleaners, NEW a \in Attachments,
           ClaimArtifactCleanup(c, a)
    PROVE  AttachmentInv'
<1>0. /\ TypeOK /\ Attachment(a)
      /\ artifact[a] # None /\ artifact[a] \in Artifact
  BY DEF AttachmentInv, ClaimArtifactCleanup, TypeOK
<1> DEFINE f(d) == [artifact[a] EXCEPT !.state = "cleanup_in_progress",
                                       !.by = {c}, !.due = d]
<1>1. PICK lag \in Lags : artifact' = [artifact EXCEPT ![a] = f(CleanupTtl - lag)]
  BY DEF ClaimArtifactCleanup
<1> DEFINE d == CleanupTtl - lag
<1>2. d \in Int /\ artifact' = [artifact EXCEPT ![a] = f(d)]
  BY <1>1, ConstantTypes
<1> HIDE DEF d
<1>3. /\ f(d) \in Artifact
      /\ f(d).state = "cleanup_in_progress" /\ f(d).by = {c}
      /\ f(d).refs = artifact[a].refs
  BY <1>0, <1>2 DEF Artifact, ArtifactStates
<1>4. /\ cleaner' \in [Cleaners -> WorkerCall]
      /\ cleaner'[c].phase = "deleting" /\ cleaner'[c].at = a
      /\ cleaner'[c].of = "artifact" /\ cleaner'[c].refs = artifact[a].refs
      /\ artifact[a].refs \subseteq Derived
  <2>1. artifact[a].refs \subseteq Derived /\ artifact[a].refs \subseteq Objects
    BY <1>0 DEF Artifact, Derived, Objects
  <2> DEFINE w == [Idle EXCEPT !.phase = "deleting", !.of = "artifact",
                               !.at = a, !.refs = artifact[a].refs]
  <2>2. /\ w \in WorkerCall /\ w.phase = "deleting" /\ w.at = a
        /\ w.of = "artifact" /\ w.refs = artifact[a].refs
    BY <2>1 DEF WorkerCall, Idle
  <2>3. cleaner' = [cleaner EXCEPT ![c] = w]
    BY DEF ClaimArtifactCleanup
  <2> HIDE DEF w
  <2> QED
    BY <1>0, <2>1, <2>2, <2>3 DEF TypeOK
<1> HIDE DEF f
<1>5. /\ artifact' \in [Attachments -> {None} \cup Artifact]
      /\ artifact'[a] = f(d)
      /\ \A b \in Attachments \ {a} : artifact'[b] = artifact[b]
  BY <1>0, <1>2, <1>3 DEF TypeOK
<1>6. TypeOK'
  BY <1>0, <1>4, <1>5 DEF ClaimArtifactCleanup, TypeOK
<1>7. Attachment(a)'
  BY <1>0, <1>3, <1>5, RowAssumption
     DEF ClaimArtifactCleanup, Attachment, Staged, Fenced, Recorded, Accounted,
         Settled
<1>8. Cleaner(c)'
  BY <1>0, <1>3, <1>4, <1>5
     DEF ClaimArtifactCleanup, Cleaner, ArtifactClaim, Attachment, Accounted
<1>9. Keeps(a, c)
  BY <1>3, <1>5
     DEF ClaimArtifactCleanup, Keeps, KeepsOwn, KeepsDerived, Busy, Settled
<1>10. Only(a) /\ Others(c)
  BY <1>0, <1>5 DEF ClaimArtifactCleanup, TypeOK, Only, Same, Others
<1> QED
  BY <1>6, <1>7, <1>8, <1>9, <1>10, StepOn, AttachmentConstants

LEMMA DeleteObjectKeeps ==
    ASSUME AttachmentInv, NEW c \in Cleaners, NEW ok \in BOOLEAN,
           DeleteObject(c, ok)
    PROVE  AttachmentInv'
<1>a. PICK a \in Attachments : a = cleaner[c].at
  BY DEF AttachmentInv, Cleaner, Claim, ArtifactClaim, DeleteObject
<1>0. TypeOK /\ Attachment(a) /\ cleaner[c] \in WorkerCall /\ Cleaner(c)
  BY DEF AttachmentInv, TypeOK
<1> DEFINE refs == cleaner[c].refs
           P(x) == x \in {"final", "derived"} \/ refs \cap {"final", "derived"} = {}
<1>1. \E x \in refs : P(x)
  BY DEF DeleteObject
<1>2. PICK o \in refs : o = CHOOSE x \in refs : P(x)
  <2> HIDE DEF P, refs
  <2> QED
    BY <1>1
<1>3. /\ Removed(a, {o}, ok)
      /\ cleaner' = [cleaner EXCEPT
              ![c].refs = IF ok \/ cleaner[c].of = "attachment"
                          THEN @ \ {o} ELSE {},
              ![c].ok = @ /\ ok]
  BY <1>2, <1>a DEF DeleteObject
<1>4. /\ store' \in [Attachments -> SUBSET Objects]
      /\ store'[a] \subseteq store[a]
      /\ ok => store'[a] = store[a] \ {o}
      /\ store[a] \ {o} \subseteq store'[a]
      /\ \A b \in Attachments \ {a} : store'[b] = store[b]
  BY <1>0, <1>3, RemovedType
<1>5. /\ cleaner' \in [Cleaners -> WorkerCall]
      /\ cleaner'[c].phase = "deleting" /\ cleaner'[c].at = a
      /\ cleaner'[c].of = cleaner[c].of
      /\ cleaner'[c].refs = IF ok \/ cleaner[c].of = "attachment"
                            THEN refs \ {o} ELSE {}
      /\ cleaner'[c].ok = (cleaner[c].ok /\ ok)
  <2> DEFINE w == [cleaner[c] EXCEPT
                     !.refs = IF ok \/ cleaner[c].of = "attachment"
                              THEN @ \ {o} ELSE {},
                     !.ok = @ /\ ok]
  <2>1. /\ w \in WorkerCall
        /\ w.phase = cleaner[c].phase /\ w.at = cleaner[c].at
        /\ w.of = cleaner[c].of
        /\ w.refs = IF ok \/ cleaner[c].of = "attachment"
                    THEN refs \ {o} ELSE {}
        /\ w.ok = (cleaner[c].ok /\ ok)
    BY <1>0 DEF WorkerCall
  <2>2. cleaner' = [cleaner EXCEPT ![c] = w]
    BY <1>3
  <2> HIDE DEF w
  <2> QED
    BY <1>0, <1>a, <2>1, <2>2, ZenonT(40) DEF TypeOK, DeleteObject
<1> HIDE DEF P
<1>6. TypeOK'
  BY <1>0, <1>4, <1>5 DEF DeleteObject, TypeOK
<1>7. Only(a) /\ Others(c)
  BY <1>0, <1>3, <1>4 DEF DeleteObject, TypeOK, Only, Same, Others
<1>8. CASE cleaner[c].of = "attachment" /\ Claim(c, cleaner[c], cleaner[c].ok)
  <2>1. Attachment(a)' /\ Keeps(a, c)
    BY <1>0, <1>4, <1>8, <1>a, ShrinkKeeps DEF DeleteObject, Claim
  <2>2. Cleaner(c)'
    <3>1. UNCHANGED <<row, current, upload>>
      BY DEF DeleteObject
    <3>2. cleaner'[c].refs = refs \ {o}
      BY <1>5, <1>8
    <3>3. cleaner'[c].ok => cleaner[c].ok /\ store'[a] = store[a] \ {o}
      BY <1>4, <1>5
    <3>4. /\ upload[a].phase # "new" /\ refs \subseteq Own
          /\ Busy(row[a], current[a])
          /\ c \in current[a] /\ cleaner[c].ok /\ Settled(upload[a]) =>
                store[a] \cap Own \subseteq refs
      BY <1>8, <1>a DEF Claim
    <3>5. Claim(c, cleaner[c], cleaner[c].ok)'
      <4> HIDE DEF refs
      <4> QED
        BY <1>5, <3>1, <3>2, <3>3, <3>4 DEF Claim
    <3> QED
      BY <1>5, <1>8, <3>5 DEF Cleaner
  <2> QED
    BY <1>6, <1>7, <2>1, <2>2, StepOn, AttachmentConstants
<1>9. CASE cleaner[c].of = "artifact" /\ ArtifactClaim(c, cleaner[c])
  <2>1. store'[a] \cap Own = store[a] \cap Own
    BY <1>4, <1>9 DEF ArtifactClaim, Own, Derived
  <2>2. Attachment(a)'
    BY <1>0, <1>4, <2>1
       DEF DeleteObject, Attachment, Staged, Fenced, Recorded, Accounted,
           Settled, Own
  <2>3. Keeps(a, c)
    BY <1>4, <2>1 DEF DeleteObject, Keeps, KeepsOwn, KeepsDerived, Busy, Settled
  <2>4. Cleaner(c)'
    <3>1. UNCHANGED artifact
      BY DEF DeleteObject
    <3>2. cleaner'[c].refs \subseteq refs
      BY <1>5
    <3>3. cleaner'[c].ok => /\ cleaner[c].ok /\ store'[a] = store[a] \ {o}
                            /\ cleaner'[c].refs = refs \ {o}
      BY <1>4, <1>5
    <3>4. /\ refs \subseteq Derived
          /\ artifact[a] # None /\ c \in artifact[a].by /\ cleaner[c].ok =>
                store[a] \cap Derived \subseteq refs
      BY <1>9, <1>a DEF ArtifactClaim
    <3>5. ArtifactClaim(c, cleaner[c])'
      <4> HIDE DEF refs
      <4> QED
        BY <1>5, <3>1, <3>2, <3>3, <3>4 DEF ArtifactClaim
    <3> QED
      BY <1>5, <1>9, <3>5 DEF Cleaner
  <2> QED
    BY <1>6, <1>7, <2>2, <2>3, <2>4, StepOn, AttachmentConstants
<1> QED
  BY <1>0, <1>8, <1>9 DEF Cleaner, DeleteObject

LEMMA CleanedRow ==
    ASSUME NEW r \in Row, r.state \notin {"ready", "released"}
    PROVE  /\ Cleaned(r) \in Row
           /\ Cleaned(r).refs = {} /\ ~Cleaned(r).token
           /\ Cleaned(r).linked = r.linked
           /\ Cleaned(r).state \notin {"ready", "released", "pending_upload"}
<1>1. /\ Cleaned(r).refs = {} /\ ~Cleaned(r).token
      /\ Cleaned(r).linked = r.linked
      /\ Cleaned(r).state = CASE r.state = "pending_upload" -> "expired"
                              [] r.state = "uploading" -> "failed"
                              [] r.state = "deleting" -> "deleted"
                              [] OTHER -> r.state
  BY DEF Cleaned, Row
<1>2. /\ Cleaned(r).state \in States
      /\ Cleaned(r).state \notin {"ready", "released", "pending_upload"}
  BY <1>1 DEF Row, States
<1>3. Cleaned(r) \in Row
  <2> DEFINE s == Cleaned(r).state
  <2>1. Cleaned(r) = [r EXCEPT !.refs = {}, !.token = FALSE, !.timed = FALSE,
                        !.processing = "complete", !.state = s,
                        !.deleted = @ \/ r.state \in {"pending_upload", "deleting"}]
    BY <1>1 DEF Cleaned, Row
  <2>2. s \in States
    BY <1>2
  <2> HIDE DEF s
  <2> QED
    BY <2>1, <2>2 DEF Row, ProcessingStates
<1> QED
  BY <1>1, <1>2, <1>3

LEMMA FinishCleanupKeeps ==
    ASSUME AttachmentInv, NEW c \in Cleaners, FinishCleanup(c)
    PROVE  AttachmentInv'
<1>0. /\ TypeOK /\ cleaner[c].of = "attachment" /\ cleaner[c].refs = {}
      /\ Claim(c, cleaner[c], cleaner[c].ok)
  BY DEF AttachmentInv, Cleaner, FinishCleanup
<1>a. PICK a \in Attachments : a = cleaner[c].at
  BY <1>0 DEF Claim
<1>1. /\ cleaner' \in [Cleaners -> WorkerCall]
      /\ cleaner'[c].phase = "idle"
      /\ Others(c)
  <2>1. Idle \in WorkerCall /\ Idle.phase = "idle"
    BY DEF WorkerCall, Idle
  <2>2. cleaner' = [cleaner EXCEPT ![c] = Idle] /\ UNCHANGED remover
    BY DEF FinishCleanup
  <2> QED
    BY <1>0, <2>1, <2>2 DEF TypeOK, Others
<1>2. Cleaner(c)'
  BY <1>1 DEF Cleaner
<1>3. CASE Current(a, c)
  <2>1. row[a] # None /\ row[a] \in Row /\ c \in current[a] /\ Attachment(a)
    BY <1>0, <1>3 DEF Current, Exists, TypeOK, AttachmentInv
  <2>2. /\ Busy(row[a], current[a]) /\ upload[a].phase # "new"
        /\ cleaner[c].ok /\ Settled(upload[a]) => store[a] \cap Own = {}
        /\ row[a].state \notin {"ready", "released"} /\ ~row[a].token
    BY <1>0, <1>a, <2>1 DEF Claim, Busy
  <2>3. \E r \in Row :
          /\ Updated(a, r, {})
          /\ r.state \notin {"ready", "released"} /\ ~r.token
          /\ r.linked = row[a].linked
          /\ r.state = "pending_upload" => r.refs = {"quarantine"}
          /\ Settled(upload[a]) => store[a] \cap Own \subseteq r.refs
    <3>1. CASE cleaner[c].ok
      <4>1. Updated(a, Cleaned(row[a]), {})
        BY <1>3, <1>a, <3>1 DEF FinishCleanup
      <4> QED
        BY <2>1, <2>2, <3>1, <4>1, CleanedRow
    <3>2. CASE ~cleaner[c].ok
      <4> DEFINE r(d) == [row[a] EXCEPT !.processing = "cleanup_backoff",
                                        !.due = d]
      <4>1. PICK lag \in Lags : Updated(a, r(RetryDelay - lag), {})
        BY <1>3, <1>a, <3>2 DEF FinishCleanup
      <4> DEFINE d == RetryDelay - lag
      <4>2. d \in Int /\ Updated(a, r(d), {})
        BY <4>1, ConstantTypes
      <4> HIDE DEF d
      <4>3. /\ r(d) \in Row
            /\ r(d).state = row[a].state /\ r(d).token = row[a].token
            /\ r(d).refs = row[a].refs /\ r(d).linked = row[a].linked
        BY <2>1, <4>2 DEF Row, ProcessingStates
      <4> HIDE DEF r
      <4>4. /\ row[a].state = "pending_upload" => row[a].refs = {"quarantine"}
            /\ Settled(upload[a]) => store[a] \cap Own \subseteq row[a].refs
        BY <2>1 DEF Attachment, Recorded, Accounted
      <4> QED
        BY <2>2, <4>2, <4>3, <4>4
    <3> QED
      BY <3>1, <3>2
  <2>4. PICK r \in Row :
          /\ Updated(a, r, {})
          /\ r.state \notin {"ready", "released"} /\ ~r.token
          /\ r.linked = row[a].linked
          /\ r.state = "pending_upload" => r.refs = {"quarantine"}
          /\ Settled(upload[a]) => store[a] \cap Own \subseteq r.refs
    BY <2>3
  <2>5. row[a].linked /\ session # "deleting" => r.state = "released"
    BY <2>1, <2>2 DEF Attachment, Recorded
  <2>6. /\ row' \in [Attachments -> {None} \cup Row]
        /\ current' \in [Attachments -> SUBSET Rememberers]
        /\ Attachment(a)' /\ Keeps(a, c) /\ Only(a)
    BY <2>1, <2>2, <2>4, <2>5, FinishStep DEF FinishCleanup
  <2>7. TypeOK'
    BY <1>0, <1>1, <2>6 DEF FinishCleanup, TypeOK, Rememberers
  <2> QED
    BY <1>1, <1>2, <2>6, <2>7, StepOn, AttachmentConstants
<1>4. CASE ~Current(a, c)
  <2>1. UNCHANGED <<row, current>>
    BY <1>4, <1>a DEF FinishCleanup
  <2>2. TypeOK'
    BY <1>0, <1>1, <2>1 DEF FinishCleanup, TypeOK
  <2>3. \A b \in Attachments : Same(b) /\ session' = session
    BY <2>1 DEF Same, FinishCleanup
  <2>4. \A b \in Attachments : Attachment(b)' /\ Keeps(b, c)
    BY <2>3, SameKeeps DEF AttachmentInv
  <2> QED
    BY <1>1, <1>2, <2>2, <2>4, StepAll, AttachmentConstants
<1> QED
  BY <1>3, <1>4

(* An artifact changes whose objects are named as before, or are gone.     *)
LEMMA ArtifactKeeps ==
    ASSUME NEW a \in Attachments, Attachment(a), NEW x,
           row'[a] = row[a], current'[a] \in {current[a], current[a] \ {x}},
           x # "uploader",
           store'[a] = store[a], upload'[a] = upload[a], session' = session,
           artifact[a] # None,
           artifact'[a] # None,
           artifact'[a].by \subseteq artifact[a].by \ {x},
           \/ /\ artifact'[a].refs = artifact[a].refs
              /\ artifact'[a].state \in {"cleanup_backoff", artifact[a].state}
           \/ artifact'[a].refs = {} /\ store[a] \cap Derived = {}
    PROVE  Attachment(a)' /\ Keeps(a, x)
<1>1. Attachment(a)'
  BY DEF Attachment, Staged, Fenced, Recorded, Accounted, Settled
<1>2. Keeps(a, x)
  BY DEF Keeps, KeepsOwn, KeepsDerived, Busy, Settled
<1> QED
  BY <1>1, <1>2

LEMMA FinishArtifactCleanupKeeps ==
    ASSUME AttachmentInv, NEW c \in Cleaners, FinishArtifactCleanup(c)
    PROVE  AttachmentInv'
<1>0. /\ TypeOK /\ cleaner[c].of = "artifact" /\ cleaner[c].refs = {}
      /\ ArtifactClaim(c, cleaner[c])
  BY DEF AttachmentInv, Cleaner, FinishArtifactCleanup
<1>a. PICK a \in Attachments : a = cleaner[c].at
  BY <1>0 DEF ArtifactClaim
<1>1. /\ cleaner' \in [Cleaners -> WorkerCall]
      /\ cleaner'[c].phase = "idle"
      /\ Others(c)
  <2>1. Idle \in WorkerCall /\ Idle.phase = "idle"
    BY DEF WorkerCall, Idle
  <2>2. cleaner' = [cleaner EXCEPT ![c] = Idle] /\ UNCHANGED remover
    BY DEF FinishArtifactCleanup
  <2> QED
    BY <1>0, <2>1, <2>2 DEF TypeOK, Others
<1>2. Cleaner(c)'
  BY <1>1 DEF Cleaner
<1>3. CASE artifact[a] # None /\ c \in artifact[a].by
  <2>1. artifact[a] \in Artifact /\ Attachment(a)
    BY <1>0, <1>3 DEF TypeOK, AttachmentInv
  <2> DEFINE f(d) == [artifact[a] EXCEPT !.state = "cleanup_backoff",
                                         !.by = {}, !.due = d]
             g == [artifact[a] EXCEPT !.state = "complete", !.refs = {},
                                      !.by = {}]
  <2>2. PICK lag \in Lags : artifact' = [artifact EXCEPT ![a] =
          IF cleaner[c].ok THEN g ELSE f(RetryDelay - lag)]
    BY <1>3, <1>a DEF FinishArtifactCleanup
  <2> DEFINE d == RetryDelay - lag
  <2>3. /\ d \in Int
        /\ artifact' = [artifact EXCEPT ![a] = IF cleaner[c].ok THEN g ELSE f(d)]
    BY <2>2, ConstantTypes
  <2> HIDE DEF d
  <2>4. /\ f(d) \in Artifact /\ f(d).by = {} /\ f(d).refs = artifact[a].refs
        /\ f(d).state = "cleanup_backoff"
        /\ g \in Artifact /\ g.by = {} /\ g.refs = {}
    BY <2>1, <2>3 DEF Artifact, ArtifactStates
  <2> HIDE DEF f, g
  <2>5. /\ artifact' \in [Attachments -> {None} \cup Artifact]
        /\ artifact'[a] \in Artifact /\ artifact'[a].by = {}
        /\ \/ /\ artifact'[a].refs = artifact[a].refs
              /\ artifact'[a].state = "cleanup_backoff"
           \/ cleaner[c].ok /\ artifact'[a].refs = {}
        /\ \A b \in Attachments \ {a} : artifact'[b] = artifact[b]
    BY <1>0, <2>3, <2>4 DEF TypeOK
  <2>6. cleaner[c].ok => store[a] \cap Derived = {}
    BY <1>0, <1>3, <1>a DEF ArtifactClaim
  <2>7. Attachment(a)' /\ Keeps(a, c)
    BY <1>3, <2>1, <2>5, <2>6, ArtifactKeeps, RowAssumption, ConstantTypes
       DEF FinishArtifactCleanup
  <2>8. TypeOK'
    BY <1>0, <1>1, <2>5 DEF FinishArtifactCleanup, TypeOK
  <2>9. Only(a)
    BY <2>5 DEF Only, Same, FinishArtifactCleanup
  <2> QED
    BY <1>1, <1>2, <2>7, <2>8, <2>9, StepOn, AttachmentConstants
<1>4. CASE ~(artifact[a] # None /\ c \in artifact[a].by)
  <2>1. UNCHANGED artifact
    BY <1>4, <1>a DEF FinishArtifactCleanup
  <2>2. TypeOK'
    BY <1>0, <1>1, <2>1 DEF FinishArtifactCleanup, TypeOK
  <2>3. \A b \in Attachments : Same(b) /\ session' = session
    BY <2>1 DEF Same, FinishArtifactCleanup
  <2>4. \A b \in Attachments : Attachment(b)' /\ Keeps(b, c)
    BY <2>3, SameKeeps DEF AttachmentInv
  <2> QED
    BY <1>1, <1>2, <2>2, <2>4, StepAll, AttachmentConstants
<1> QED
  BY <1>3, <1>4

LEMMA CleanerCrashKeeps ==
    ASSUME AttachmentInv, NEW c \in Cleaners, CleanerCrash(c)
    PROVE  AttachmentInv'
<1>0. TypeOK
  BY DEF AttachmentInv
<1>1. /\ cleaner' \in [Cleaners -> WorkerCall]
      /\ cleaner'[c].phase = "idle"
      /\ Others(c)
  <2>1. Idle \in WorkerCall /\ Idle.phase = "idle"
    BY DEF WorkerCall, Idle
  <2>2. cleaner' = [cleaner EXCEPT ![c] = Idle] /\ UNCHANGED remover
    BY DEF CleanerCrash
  <2> QED
    BY <1>0, <2>1, <2>2 DEF TypeOK, Others
<1>2. /\ current' \in [Attachments -> SUBSET Rememberers]
      /\ \A a \in Attachments : current'[a] = current[a] \ {c}
  BY <1>0 DEF CleanerCrash, Forgotten, TypeOK, Rememberers
<1>3. ASSUME NEW a \in Attachments
      PROVE  /\ artifact'[a] \in {None} \cup Artifact
             /\ artifact[a] = None => artifact'[a] = None
             /\ artifact[a] # None =>
                  /\ artifact'[a] # None
                  /\ artifact'[a].by \subseteq artifact[a].by \ {c}
                  /\ artifact'[a].refs = artifact[a].refs
                  /\ artifact'[a].state = artifact[a].state
  <2>1. CASE artifact[a] = None
    BY <2>1 DEF CleanerCrash
  <2>2. CASE artifact[a] # None
    <3>1. artifact[a] \in Artifact
      BY <1>0, <2>2 DEF TypeOK
    <3>2. artifact'[a] = [artifact[a] EXCEPT !.by = @ \ {c}]
      BY <2>2 DEF CleanerCrash
    <3>3. artifact'[a] \in Artifact
      BY <3>1, <3>2 DEF Artifact
    <3> QED
      BY <2>2, <3>1, <3>2, <3>3, RowAssumption DEF Artifact
  <2> QED
    BY <2>1, <2>2
<1>4. artifact' \in [Attachments -> {None} \cup Artifact]
  <2>1. artifact' = [a \in Attachments |-> artifact'[a]]
    BY DEF CleanerCrash
  <2> QED
    BY <1>3, <2>1
<1>5. TypeOK'
  BY <1>0, <1>1, <1>2, <1>4 DEF CleanerCrash, TypeOK, Rememberers
<1>6. ASSUME NEW a \in Attachments
      PROVE  Attachment(a)' /\ Keeps(a, c)
  <2>1. /\ Attachment(a) /\ row'[a] = row[a] /\ store'[a] = store[a]
        /\ upload'[a] = upload[a] /\ session' = session
    BY DEF AttachmentInv, CleanerCrash
  <2>2. CASE artifact[a] = None
    BY <1>2, <1>3, <2>1, <2>2, ForgetKeeps
  <2>3. CASE artifact[a] # None
    BY <1>2, <1>3, <2>1, <2>3, ArtifactKeeps, ConstantTypes
  <2> QED
    BY <2>2, <2>3
<1>7. Cleaner(c)'
  BY <1>1 DEF Cleaner
<1> QED
  BY <1>1, <1>5, <1>6, <1>7, StepAll, AttachmentConstants

LEMMA CleanupKeeps ==
    ASSUME AttachmentInv, NEW c \in Cleaners, Cleanup(c)
    PROVE  AttachmentInv'
  BY ClaimCleanupKeeps, ClaimArtifactCleanupKeeps, DeleteObjectKeeps,
     FinishCleanupKeeps, FinishArtifactCleanupKeeps, CleanerCrashKeeps
     DEF Cleanup

LEMMA PruneSessionKeeps ==
    ASSUME AttachmentInv, PruneSession
    PROVE  AttachmentInv'
<1>0. TypeOK /\ session = "deleting"
  BY DEF AttachmentInv, PruneSession, CutoffReached
<1>1. ASSUME NEW a \in Attachments
      PROVE  \/ artifact'[a] = artifact[a]
             \/ /\ artifact[a] # None /\ artifact[a].refs = {}
                /\ artifact'[a] = None
             \/ /\ artifact[a] # None
                /\ artifact'[a] \in Artifact
                /\ artifact'[a].refs = artifact[a].refs
                /\ artifact'[a].state = "cleanup_required"
                /\ artifact'[a].by = {}
  <2>1. CASE artifact[a] = None
    BY <2>1 DEF PruneSession
  <2>2. CASE artifact[a] # None
    <3>1. /\ artifact[a] \in Artifact
          /\ artifact[a].state = "complete" => artifact[a].refs = {}
      BY <1>0, <2>2 DEF TypeOK, AttachmentInv, Attachment, Accounted
    <3>2. artifact'[a] = RetainedArtifact(artifact[a])
      BY <2>2 DEF PruneSession
    <3> DEFINE f == [artifact[a] EXCEPT !.state = "cleanup_required", !.by = {}]
    <3>3. /\ f \in Artifact /\ f.refs = artifact[a].refs
          /\ f.state = "cleanup_required" /\ f.by = {}
      BY <3>1 DEF Artifact, ArtifactStates
    <3>4. artifact'[a] \in {artifact[a], f}
            \/ (artifact[a].state = "complete" /\ artifact'[a] = None)
      BY <3>2 DEF RetainedArtifact
    <3> QED
      BY <2>2, <3>1, <3>3, <3>4
  <2> QED
    BY <2>1, <2>2
<1>2. ASSUME NEW a \in Attachments
      PROVE  \/ row'[a] = row[a]
             \/ /\ row[a] # None /\ row[a].refs = {} /\ artifact'[a] = None
                /\ row'[a] = None
             \/ /\ row[a] # None /\ artifact'[a] = None
                /\ row'[a] \in Row
                /\ row'[a].refs = row[a].refs /\ row'[a].linked = row[a].linked
                /\ row'[a].state = "deleting" /\ ~row'[a].token
  <2>1. CASE ~(Exists(a) /\ artifact'[a] = None)
    BY <2>1 DEF PruneSession
  <2>2. CASE Exists(a) /\ artifact'[a] = None
    <3>1. row[a] # None /\ row[a] \in Row
      BY <1>0, <2>2 DEF TypeOK, Exists
    <3>2. row'[a] = Retained(row[a])
      BY <2>2 DEF PruneSession
    <3> DEFINE r == [row[a] EXCEPT !.token = FALSE, !.state = "deleting",
                                   !.timed = FALSE,
                                   !.processing = "retention_cleanup_required"]
    <3>3. /\ r \in Row /\ r.refs = row[a].refs /\ r.linked = row[a].linked
          /\ r.state = "deleting" /\ ~r.token
      BY <3>1 DEF Row, States, ProcessingStates
    <3>4. row'[a] \in {row[a], r} \/ (row[a].refs = {} /\ row'[a] = None)
      BY <3>2 DEF Retained, attachment_ready_for_metadata_delete
    <3> QED
      BY <2>2, <3>1, <3>3, <3>4
  <2> QED
    BY <2>1, <2>2
<1>3. ASSUME NEW a \in Attachments
      PROVE  /\ current'[a] \in SUBSET Rememberers
             /\ current'[a] \in {{}, current[a]}
             /\ row'[a] # row[a] => current'[a] = {}
  BY <1>0 DEF PruneSession, TypeOK, Rememberers
<1>4. TypeOK'
  <2>1. /\ artifact' = [a \in Attachments |-> artifact'[a]]
        /\ row' = [a \in Attachments |-> row'[a]]
        /\ current' = [a \in Attachments |-> current'[a]]
    BY DEF PruneSession
  <2>2. /\ \A a \in Attachments : artifact'[a] \in {None} \cup Artifact
        /\ \A a \in Attachments : row'[a] \in {None} \cup Row
    BY <1>0, <1>1, <1>2 DEF TypeOK
  <2>3. /\ artifact' \in [Attachments -> {None} \cup Artifact]
        /\ row' \in [Attachments -> {None} \cup Row]
        /\ current' \in [Attachments -> SUBSET Rememberers]
    BY <1>3, <2>1, <2>2
  <2> QED
    BY <1>0, <2>3 DEF PruneSession, TypeOK, Rememberers
<1>5. ASSUME NEW a \in Attachments
      PROVE  Attachment(a)' /\ Keeps(a, "uploader")
  <2>1. /\ Attachment(a) /\ store'[a] = store[a] /\ upload'[a] = upload[a]
        /\ session' = session
    BY DEF AttachmentInv, PruneSession
  <2>2. Accounted(row'[a], artifact'[a], store[a], upload[a])
    BY <1>1, <1>2, <2>1, RowAssumption DEF Attachment, Accounted
  <2>3. Fenced(row'[a], current'[a], store[a], upload[a])
    BY <1>3, <2>1 DEF Attachment, Fenced
  <2>4. Recorded(row'[a], current'[a], store[a], upload[a], session)
    BY <1>0, <1>2, <1>3, <2>1 DEF Attachment, Recorded
  <2>5. Attachment(a)'
    BY <2>1, <2>2, <2>3, <2>4 DEF Attachment
  <2>6. KeepsOwn(a, "uploader")
    BY <1>2, <1>3, <2>1 DEF KeepsOwn, Busy
  <2>7. KeepsDerived(a, "uploader")
    BY <1>1, <2>1, RowAssumption DEF KeepsDerived
  <2> QED
    BY <2>5, <2>6, <2>7 DEF Keeps
<1>6. Others("uploader")
  BY DEF PruneSession, Others
<1> QED
  BY <1>4, <1>5, <1>6, StepAll, ConstantTypes

LEMMA TickKeeps ==
    ASSUME AttachmentInv, Tick
    PROVE  AttachmentInv'
<1>0. TypeOK
  BY DEF AttachmentInv
<1>1. \A n \in Int : Later(n) \in Int
  BY ConstantTypes DEF Later
<1>2. ASSUME NEW a \in Attachments
      PROVE  /\ row'[a] \in {None} \cup Row
             /\ (row'[a] = None) <=> (row[a] = None)
             /\ row[a] # None =>
                  /\ row'[a].state = row[a].state /\ row'[a].refs = row[a].refs
                  /\ row'[a].processing = row[a].processing
                  /\ row'[a].token = row[a].token
                  /\ row'[a].linked = row[a].linked
  <2>1. CASE row[a] = None
    BY <2>1 DEF Tick, Aged
  <2>2. CASE row[a] # None
    <3>1. row[a] \in Row /\ Later(row[a].due) \in Int
      BY <1>0, <1>1, <2>2 DEF TypeOK, Row
    <3>2. row'[a] = [row[a] EXCEPT !.due = Later(row[a].due)]
      BY <2>2 DEF Tick, Aged
    <3>3. row'[a] \in Row
      BY <3>1, <3>2 DEF Row
    <3> QED
      BY <2>2, <3>1, <3>2, <3>3, RowAssumption DEF Row
  <2> QED
    BY <2>1, <2>2
<1>3. ASSUME NEW a \in Attachments
      PROVE  /\ artifact'[a] \in {None} \cup Artifact
             /\ (artifact'[a] = None) <=> (artifact[a] = None)
             /\ artifact[a] # None =>
                  /\ artifact'[a].state = artifact[a].state
                  /\ artifact'[a].refs = artifact[a].refs
                  /\ artifact'[a].by = artifact[a].by
  <2>1. CASE artifact[a] = None
    BY <2>1 DEF Tick, Aged
  <2>2. CASE artifact[a] # None
    <3>1. artifact[a] \in Artifact /\ Later(artifact[a].due) \in Int
      BY <1>0, <1>1, <2>2 DEF TypeOK, Artifact
    <3>2. artifact'[a] = [artifact[a] EXCEPT !.due = Later(artifact[a].due)]
      BY <2>2 DEF Tick, Aged
    <3>3. artifact'[a] \in Artifact
      BY <3>1, <3>2 DEF Artifact
    <3> QED
      BY <2>2, <3>1, <3>2, <3>3, RowAssumption DEF Artifact
  <2> QED
    BY <2>1, <2>2
<1>4. TypeOK'
  <2>1. /\ artifact' = [a \in Attachments |-> artifact'[a]]
        /\ row' = [a \in Attachments |-> row'[a]]
    BY DEF Tick
  <2>2. /\ artifact' \in [Attachments -> {None} \cup Artifact]
        /\ row' \in [Attachments -> {None} \cup Row]
    BY <1>2, <1>3, <2>1
  <2>3. cutoff' \in Int \cup {None}
    BY <1>0, <1>1 DEF Tick, TypeOK
  <2> QED
    BY <1>0, <2>2, <2>3 DEF Tick, TypeOK
<1>5. ASSUME NEW a \in Attachments
      PROVE  Attachment(a)' /\ Keeps(a, "uploader")
  <2>1. /\ Attachment(a) /\ store'[a] = store[a] /\ upload'[a] = upload[a]
        /\ session' = session /\ current'[a] = current[a]
    BY DEF AttachmentInv, Tick
  <2>2. Attachment(a)'
    BY <1>2, <1>3, <2>1
       DEF Attachment, Staged, Fenced, Recorded, Accounted
  <2>3. Keeps(a, "uploader")
    BY <1>2, <1>3, <2>1 DEF Keeps, KeepsOwn, KeepsDerived, Busy
  <2> QED
    BY <2>2, <2>3
<1>6. Others("uploader")
  BY DEF Tick, Others
<1> QED
  BY <1>4, <1>5, <1>6, StepAll, ConstantTypes

-----------------------------------------------------------------------------
LEMMA OtherPruneKeeps ==
    ASSUME AttachmentInv, PruneContent \/ SetPolicy
    PROVE  AttachmentInv'
<1>1. TypeOK' /\ Others("uploader")
  <2>1. TypeOK
    BY DEF AttachmentInv
  <2>2. CASE PruneContent
    BY <2>1, <2>2 DEF PruneContent, TypeOK, Others
  <2>3. CASE SetPolicy
    <3>1. cutoff' \in Int
      BY <2>3, ConstantTypes DEF SetPolicy
    <3> QED
      BY <2>1, <2>3, <3>1 DEF SetPolicy, TypeOK, Others
  <2> QED
    BY <2>2, <2>3
<1>2. \A a \in Attachments : Same(a) /\ session' = session
  BY DEF PruneContent, SetPolicy, Same
<1>3. \A a \in Attachments : Attachment(a)' /\ Keeps(a, "uploader")
  BY <1>2, SameKeeps DEF AttachmentInv
<1> QED
  BY <1>1, <1>3, StepAll, ConstantTypes

LEMMA InitHolds == Init => AttachmentInv
<1> SUFFICES ASSUME Init PROVE AttachmentInv
  OBVIOUS
<1>1. TypeOK
  BY ConstantTypes DEF Init, TypeOK, UploadCall, WorkerCall, Idle
<1>2. ASSUME NEW a \in Attachments PROVE Attachment(a)
  BY DEF Init, Attachment, Staged, Fenced, Recorded, Accounted
<1>3. /\ \A m \in Removers : Remover(m)
      /\ \A c \in Cleaners : Cleaner(c)
  BY DEF Init, Remover, Cleaner, Idle
<1> QED
  BY <1>1, <1>2, <1>3 DEF AttachmentInv

LEMMA NextKeeps == AttachmentInv /\ [Next]_vars => AttachmentInv'
<1> SUFFICES ASSUME AttachmentInv, [Next]_vars
             PROVE  AttachmentInv'
  OBVIOUS
<1>1. CASE Next
  <2>1. ASSUME NEW a \in Attachments,
               Upload(a) \/ FinalizeUpload(a) \/ Link(a) \/ DeriveArtifact(a)
        PROVE  AttachmentInv'
    BY <2>1, UploadKeeps, FinalizeUploadKeeps, LinkKeeps, DeriveArtifactKeeps
  <2> QED
    BY <1>1, <2>1, DeleteSessionKeeps, RemovalKeeps, CleanupKeeps,
       PruneSessionKeeps, OtherPruneKeeps, TickKeeps
       DEF Next
<1>2. CASE UNCHANGED vars
  <2>1. TypeOK' /\ Others("uploader")
    BY <1>2 DEF vars, AttachmentInv, TypeOK, Others
  <2>2. \A a \in Attachments : Same(a) /\ session' = session
    BY <1>2 DEF vars, Same
  <2>3. \A a \in Attachments : Attachment(a)' /\ Keeps(a, "uploader")
    BY <2>2, SameKeeps DEF AttachmentInv
  <2> QED
    BY <2>1, <2>3, StepAll, ConstantTypes
<1> QED
  BY <1>1, <1>2

LEMMA AttachmentInvHolds == Spec => []AttachmentInv
  BY InitHolds, NextKeeps, PTL DEF Spec

(* Rows, artifacts, objects, uploads and workers are always of their types. *)
THEOREM TypeCorrect == Spec => []TypeOK
<1>1. AttachmentInv => TypeOK
  BY DEF AttachmentInv
<1> QED
  BY <1>1, AttachmentInvHolds, PTL

(* What an owner may send stays readable, whatever removals, late cleaners *)
(* and late uploads do: the object of a ready row is deleted only by the   *)
(* upload that lost the answer of its commit.                              *)
THEOREM LinkedStaysReadableHolds == Spec => []LinkedStaysReadable
<1>1. AttachmentInv => LinkedStaysReadable
  BY DEF AttachmentInv, LinkedStaysReadable, Exists, Attachment, Recorded
<1> QED
  BY <1>1, AttachmentInvHolds, PTL

(* No object is stored that no row names and no upload is working on, but  *)
(* for the ones an upload lost, and no artifact outlives its attachment.   *)
THEOREM ObjectsAccountedHolds == Spec => []ObjectsAccounted
<1>1. ASSUME AttachmentInv, NEW a \in Attachments
      PROVE  /\ \/ Running(a)
                \/ "object" \in upload[a].lost
                \/ store[a] \subseteq Named(a)
             /\ artifact[a] # None => Exists(a)
  <2>1. Attachment(a) /\ store[a] \subseteq Own \cup Derived
    BY <1>1 DEF AttachmentInv, TypeOK, Objects, Own, Derived
  <2>2. artifact[a] # None => Exists(a)
    BY <2>1 DEF Attachment, Accounted, Exists
  <2>3. ASSUME ~Running(a), "object" \notin upload[a].lost
        PROVE  store[a] \subseteq Named(a)
    <3>1. Settled(upload[a])
      BY <2>3 DEF Running, Settled
    <3> QED
      BY <2>1, <3>1 DEF Attachment, Accounted, Named, Exists
  <2> QED
    BY <2>2, <2>3
<1>2. AttachmentInv => ObjectsAccounted
  BY <1>1 DEF ObjectsAccounted
<1> QED
  BY <1>2, AttachmentInvHolds, PTL
=============================================================================
