---------------------------- MODULE NoteAttachments ----------------------------
(***************************************************************************)
(* Attachments of the notes of one account, at the grain of the statements *)
(* and file-system calls the server really makes.  A row of                *)
(* public.note_attachments and the file it names are written and removed   *)
(* in separate steps, by concurrent HTTP requests, while other requests    *)
(* move the note to the trash, restore it, delete it for good or delete    *)
(* the whole account.                                                      *)
(*                                                                         *)
(* Every request is served once.  An upload writes one file under a random *)
(* name nobody else uses, so the upload itself stands for the attachment,  *)
(* its row and its storage key.                                            *)
(***************************************************************************)
EXTENDS Naturals, FiniteSets

CONSTANTS
    Notes,           \* the notes of the account
    Uploads,         \* POST   /note/{id}/attachments
    Removals,        \* DELETE /note/{id}/attachments/{attachmentId}
    Purges,          \* DELETE /note/{id}/destroy
    Closures,        \* POST   /account/delete
    NoRequest,       \* a note row nobody has locked
    MaxAttachments,  \* validations.MaxNoteAttachmentsPerNote
    Faults           \* what may go wrong around the code

Requests == Uploads \cup Removals \cup Purges \cup Closures

FaultKinds == {
    "disconnect",  \* the client goes away and the request's context ends
    "database",    \* a database call fails, its effect unknown, context alive
    "disk",        \* os.Remove fails
    "crash"}       \* the server stops and is started again

ASSUME RequestAssumption ==
    /\ IsFiniteSet(Uploads)
    /\ NoRequest \notin Requests
    /\ Uploads \cap (Removals \cup Purges \cup Closures) = {}
    /\ Removals \cap (Purges \cup Closures) = {}
    /\ Purges \cap Closures = {}

ASSUME LimitAssumption == MaxAttachments \in Nat \ {0}

ASSUME FaultAssumption == Faults \subseteq FaultKinds

VARIABLES
    account,   \* the row of the user in public.users
    note,      \* note[n]: notes.deleted_at unset, set, or no row at all
    rows,      \* rows[n]: the committed rows of public.note_attachments
    file,      \* file[u]: what is on disk for upload u
    lock,      \* lock[n]: the transaction that holds the note row FOR UPDATE
    pc,        \* pc[r]: how far the handler of request r has got
    target,    \* target[r]: the note in the URL of request r
    doomed,    \* doomed[r]: the storage keys request r is going to delete
    cancelled  \* the requests whose context has ended

vars == <<account, note, rows, file, lock, pc, target, doomed, cancelled>>

NoteStates == {"live", "trashed", "gone"}
FileStates == {"none", "temp", "stored"}
Steps == {"idle", "checked", "temp", "saved", "locked", "counted", "undo",
          "listed", "unlink", "done", "failed", "dead"}
Ended == {"done", "failed", "dead"}

Running(r) == pc[r] \notin Ended \cup {"idle"}

TypeOK ==
    /\ account \in {"open", "deleted"}
    /\ note \in [Notes -> NoteStates]
    /\ rows \in [Notes -> SUBSET Uploads]
    /\ file \in [Uploads -> FileStates]
    /\ lock \in [Notes -> Uploads \cup {NoRequest}]
    /\ pc \in [Requests -> Steps]
    /\ target \in [Requests -> Notes]
    /\ doomed \in [Requests -> SUBSET Uploads]
    /\ cancelled \subseteq Requests

Init ==
    /\ account = "open"
    /\ note = [n \in Notes |-> "live"]
    /\ rows = [n \in Notes |-> {}]
    /\ file = [u \in Uploads |-> "none"]
    /\ lock = [n \in Notes |-> NoRequest]
    /\ pc = [r \in Requests |-> "idle"]
    /\ target \in [Requests -> Notes]
    /\ doomed = [r \in Requests |-> {}]
    /\ cancelled = {}

-----------------------------------------------------------------------------
(* How a call made with the request's context comes back: "ok", "refused"  *)
(* (an error and no effect) or "lost" (an error although the effect took   *)
(* place: the answer to an autocommitted statement or to COMMIT never      *)
(* arrived).  A context that has ended refuses before anything is sent.    *)
Reply(r, answer) ==
    \/ /\ answer = "ok"
       /\ r \notin cancelled
       /\ UNCHANGED cancelled
    \/ /\ answer \in {"refused", "lost"}
       /\ "disconnect" \in Faults
       /\ r \notin cancelled
       /\ cancelled' = cancelled \cup {r}
    \/ /\ answer \in {"refused", "lost"}
       /\ "database" \in Faults
       /\ r \notin cancelled
       /\ UNCHANGED cancelled
    \/ /\ answer = "refused"
       /\ r \in cancelled
       /\ UNCHANGED cancelled

Goto(r, step) == pc' = [pc EXCEPT ![r] = step]

(* LocalAttachmentStorage.Delete: nothing happens once the context has     *)
(* ended, a missing file is no error, and every caller ignores a failure.  *)
Unlink(r, u) ==
    \/ r \notin cancelled /\ file' = [file EXCEPT ![u] = "none"]
    \/ (r \in cancelled \/ "disk" \in Faults) /\ UNCHANGED file

-----------------------------------------------------------------------------
(* UploadAttachment.                                                       *)

(* The handler and the service both load the note and refuse it unless it  *)
(* is there and out of the trash.                                          *)
UploadCheck(u) ==
    /\ pc[u] = "idle"
    /\ \/ /\ Reply(u, "ok")
          /\ Goto(u, IF note[target[u]] = "live" THEN "checked" ELSE "failed")
       \/ Reply(u, "refused") /\ Goto(u, "failed")
    /\ UNCHANGED <<account, note, rows, file, lock, target, doomed>>

(* Save, up to the temporary file: the context is looked at once, then the *)
(* size, name, extension and contents may be refused.                      *)
UploadWriteTemp(u) ==
    /\ pc[u] = "checked"
    /\ \/ /\ u \notin cancelled
          /\ file' = [file EXCEPT ![u] = "temp"]
          /\ Goto(u, "temp")
       \/ Goto(u, "failed") /\ UNCHANGED file
    /\ UNCHANGED <<account, note, rows, lock, target, doomed, cancelled>>

(* Save, the rest: the copy or the virus scan may fail, and the deferred   *)
(* os.Remove drops the temporary file; otherwise it is renamed.            *)
UploadScanAndRename(u) ==
    /\ pc[u] = "temp"
    /\ \/ file' = [file EXCEPT ![u] = "stored"] /\ Goto(u, "saved")
       \/ file' = [file EXCEPT ![u] = "none"] /\ Goto(u, "failed")
    /\ UNCHANGED <<account, note, rows, lock, target, doomed, cancelled>>

(* Variant: the note is read without FOR UPDATE, so nobody waits.          *)
UploadReadNote(u) ==
    LET n == target[u] IN
    /\ pc[u] = "saved"
    /\ \/ Reply(u, "ok") /\ Goto(u, IF note[n] = "live" THEN "locked" ELSE "undo")
       \/ Reply(u, "refused") /\ Goto(u, "undo")
    /\ UNCHANGED <<account, note, rows, file, lock, target, doomed>>

(* Variant: the note is locked whether it is in the trash or not.          *)
UploadLockAnyNote(u) ==
    LET n == target[u] IN
    /\ pc[u] = "saved"
    /\ \/ /\ Reply(u, "ok")
          /\ lock[n] = NoRequest
          /\ note[n] # "gone"
          /\ lock' = [lock EXCEPT ![n] = u]
          /\ Goto(u, "locked")
       \/ (Reply(u, "ok") /\ note[n] = "gone") /\ Goto(u, "undo") /\ UNCHANGED lock
       \/ Reply(u, "refused") /\ Goto(u, "undo") /\ UNCHANGED lock
    /\ UNCHANGED <<account, note, rows, file, target, doomed>>

(* CreateAttachment: begin, SELECT ... FOR UPDATE of a note that is not in *)
(* the trash.  It waits for the row lock and then looks at the row again.  *)
UploadLockNote(u) ==
    LET n == target[u] IN
    /\ pc[u] = "saved"
    /\ \/ /\ Reply(u, "ok")
          /\ lock[n] = NoRequest
          /\ note[n] = "live"
          /\ lock' = [lock EXCEPT ![n] = u]
          /\ Goto(u, "locked")
       \/ /\ Reply(u, "ok")
          /\ note[n] # "live"
          /\ Goto(u, "undo")
          /\ UNCHANGED lock
       \/ /\ Reply(u, "refused")
          /\ Goto(u, "undo")
          /\ UNCHANGED lock
    /\ UNCHANGED <<account, note, rows, file, target, doomed>>

(* Variant: the error path at the limit returns without its rollback.      *)
UploadCountKeepsLock(u) ==
    LET full == Cardinality(rows[target[u]]) >= MaxAttachments IN
    /\ pc[u] = "locked"
    /\ Reply(u, "ok")
    /\ Goto(u, IF full THEN "undo" ELSE "counted")
    /\ UNCHANGED <<account, note, rows, file, lock, target, doomed>>

(* Variant: the service returns at the limit before its compensation.      *)
UploadCountNoUndo(u) ==
    LET full == Cardinality(rows[target[u]]) >= MaxAttachments IN
    /\ pc[u] = "locked"
    /\ Reply(u, "ok")
    /\ Goto(u, IF full THEN "failed" ELSE "counted")
    /\ lock' = IF full THEN [lock EXCEPT ![target[u]] = NoRequest] ELSE lock
    /\ UNCHANGED <<account, note, rows, file, target, doomed>>

(* CreateAttachment: count the rows of the note; ErrAttachmentLimit and    *)
(* every error roll the transaction back.                                  *)
UploadCount(u) ==
    LET n == target[u] IN
    /\ pc[u] = "locked"
    /\ \/ /\ Reply(u, "ok")
          /\ Cardinality(rows[n]) < MaxAttachments
          /\ Goto(u, "counted")
          /\ UNCHANGED lock
       \/ /\ \/ Reply(u, "ok") /\ Cardinality(rows[n]) >= MaxAttachments
             \/ Reply(u, "refused")
          /\ Goto(u, "undo")
          /\ lock' = [lock EXCEPT ![n] = NoRequest]
    /\ UNCHANGED <<account, note, rows, file, target, doomed>>

(* CreateAttachment: insert and commit.  The row is seen by others once    *)
(* the commit has taken place, whatever answer the server gets.            *)
UploadCommit(u) ==
    LET n == target[u] IN
    /\ pc[u] = "counted"
    /\ \E answer \in {"ok", "refused", "lost"} :
          /\ Reply(u, answer)
          /\ rows' = IF answer = "refused" THEN rows
                     ELSE [rows EXCEPT ![n] = @ \cup {u}]
          /\ Goto(u, IF answer = "ok" THEN "done" ELSE "undo")
    /\ lock' = [lock EXCEPT ![n] = NoRequest]
    /\ UNCHANGED <<account, note, file, target, doomed>>

(* UploadAttachment's compensation: any error of CreateAttachment deletes  *)
(* the file that was just stored, with the same context.                   *)
UploadUndo(u) ==
    /\ pc[u] = "undo"
    /\ Unlink(u, u)
    /\ Goto(u, "failed")
    /\ UNCHANGED <<account, note, rows, lock, target, doomed, cancelled>>

-----------------------------------------------------------------------------
(* Variant: the row goes whatever the state of the note.                   *)
RemoveRowOfAnyNote(d) ==
    LET n == target[d] IN
    /\ pc[d] = "idle"
    /\ Reply(d, "ok")
    /\ \/ \E u \in rows[n] :
             /\ rows' = [rows EXCEPT ![n] = @ \ {u}]
             /\ doomed' = [doomed EXCEPT ![d] = {u}]
             /\ Goto(d, "unlink")
       \/ rows[n] = {} /\ Goto(d, "failed") /\ UNCHANGED <<rows, doomed>>
    /\ UNCHANGED <<account, note, file, lock, target>>

(* Variant: the removed row's storage key is not returned to the service.  *)
RemoveRowNoKey(d) ==
    LET n == target[d] IN
    /\ pc[d] = "idle"
    /\ note[n] = "live"
    /\ \E u \in rows[n] :
          /\ Reply(d, "ok")
          /\ rows' = [rows EXCEPT ![n] = @ \ {u}]
          /\ Goto(d, "done")
    /\ UNCHANGED <<account, note, file, lock, target, doomed>>

(* DeleteAttachment: the row first, in one statement that also demands a   *)
(* note out of the trash, and then the file.                               *)
RemoveRow(d) ==
    LET n == target[d] IN
    /\ pc[d] = "idle"
    /\ \/ \E u \in rows[n], answer \in {"ok", "lost"} :
             /\ note[n] = "live"
             /\ Reply(d, answer)
             /\ rows' = [rows EXCEPT ![n] = @ \ {u}]
             /\ IF answer = "ok"
                   THEN doomed' = [doomed EXCEPT ![d] = {u}] /\ Goto(d, "unlink")
                   ELSE Goto(d, "failed") /\ UNCHANGED doomed
       \/ /\ Reply(d, "ok") \/ Reply(d, "refused")   \* no such row, or an error
          /\ Goto(d, "failed")
          /\ UNCHANGED <<rows, doomed>>
    /\ UNCHANGED <<account, note, file, lock, target>>

(* DeletePermanently: the attachments are listed whatever the note's state *)
(* and outside any transaction ...                                         *)
PurgeList(p) ==
    /\ pc[p] = "idle"
    /\ \/ /\ Reply(p, "ok")
          /\ doomed' = [doomed EXCEPT ![p] = rows[target[p]]]
          /\ Goto(p, "listed")
       \/ Reply(p, "refused") /\ Goto(p, "failed") /\ UNCHANGED doomed
    /\ UNCHANGED <<account, note, rows, file, lock, target>>

(* Variant: the files go even when no note in the trash was deleted.       *)
PurgeNoteOrNot(p) ==
    LET n == target[p] IN
    /\ pc[p] = "listed"
    /\ Reply(p, "ok")
    /\ lock[n] = NoRequest
    /\ IF note[n] = "trashed"
          THEN note' = [note EXCEPT ![n] = "gone"] /\ rows' = [rows EXCEPT ![n] = {}]
          ELSE UNCHANGED <<note, rows>>
    /\ Goto(p, "unlink")
    /\ UNCHANGED <<account, file, lock, target, doomed>>

(* ... then a note still in the trash is deleted, its rows with it.  The   *)
(* statement waits for the row lock; without such a note the service       *)
(* returns before it touches a file.                                       *)
PurgeNote(p) ==
    LET n == target[p] IN
    /\ pc[p] = "listed"
    /\ \/ \E answer \in {"ok", "lost"} :
             /\ note[n] = "trashed"
             /\ lock[n] = NoRequest
             /\ Reply(p, answer)
             /\ note' = [note EXCEPT ![n] = "gone"]
             /\ rows' = [rows EXCEPT ![n] = {}]
             /\ Goto(p, IF answer = "ok" THEN "unlink" ELSE "failed")
       \/ /\ (note[n] # "trashed" /\ Reply(p, "ok")) \/ Reply(p, "refused")
          /\ Goto(p, "failed")
          /\ UNCHANGED <<note, rows>>
    /\ UNCHANGED <<account, file, lock, target, doomed>>

(* DeleteAccount: the password is checked (an account that is gone has     *)
(* none), the storage keys of every note of the user are read ...          *)
CloseList(c) ==
    /\ pc[c] = "idle"
    /\ \/ /\ account = "open"
          /\ Reply(c, "ok")
          /\ doomed' = [doomed EXCEPT ![c] = UNION {rows[n] : n \in Notes}]
          /\ Goto(c, "listed")
       \/ /\ Reply(c, "ok") \/ Reply(c, "refused")
          /\ Goto(c, "failed")
          /\ UNCHANGED doomed
    /\ UNCHANGED <<account, note, rows, file, lock, target>>

(* ... and the user is deleted; the cascade waits for every locked note.   *)
CloseAccount(c) ==
    /\ pc[c] = "listed"
    /\ \/ \E answer \in {"ok", "lost"} :
             /\ account = "open"
             /\ \A n \in Notes : lock[n] = NoRequest
             /\ Reply(c, answer)
             /\ account' = "deleted"
             /\ note' = [n \in Notes |-> "gone"]
             /\ rows' = [n \in Notes |-> {}]
             /\ Goto(c, IF answer = "ok" THEN "unlink" ELSE "failed")
       \/ /\ (account = "deleted" /\ Reply(c, "ok")) \/ Reply(c, "refused")
          /\ Goto(c, "failed")
          /\ UNCHANGED <<account, note, rows>>
    /\ UNCHANGED <<file, lock, target, doomed>>

(* The loop over the listed keys that ends the three deletions.            *)
UnlinkOne(r) ==
    /\ pc[r] = "unlink"
    /\ \/ \E u \in doomed[r] :
             /\ Unlink(r, u)
             /\ doomed' = [doomed EXCEPT ![r] = @ \ {u}]
             /\ UNCHANGED pc
       \/ doomed[r] = {} /\ Goto(r, "done") /\ UNCHANGED <<file, doomed>>
    /\ UNCHANGED <<account, note, rows, lock, target, cancelled>>

-----------------------------------------------------------------------------
(* MoveToTrash and Restore: one guarded UPDATE each, which waits for the   *)
(* row lock.                                                               *)
MoveToTrash(n) ==
    /\ note[n] = "live"
    /\ lock[n] = NoRequest
    /\ note' = [note EXCEPT ![n] = "trashed"]
    /\ UNCHANGED <<account, rows, file, lock, pc, target, doomed, cancelled>>

(* Variant: the note comes back as an archived one.                        *)
RestoreArchived(n) ==
    /\ note[n] = "trashed"
    /\ lock[n] = NoRequest
    /\ note' = [note EXCEPT ![n] = "archived"]
    /\ UNCHANGED <<account, rows, file, lock, pc, target, doomed, cancelled>>

Restore(n) ==
    /\ note[n] = "trashed"
    /\ lock[n] = NoRequest
    /\ note' = [note EXCEPT ![n] = "live"]
    /\ UNCHANGED <<account, rows, file, lock, pc, target, doomed, cancelled>>

(* The client of a request in progress goes away between two of its calls. *)
Disconnect(r) ==
    /\ "disconnect" \in Faults
    /\ Running(r)
    /\ r \notin cancelled
    /\ cancelled' = cancelled \cup {r}
    /\ UNCHANGED <<account, note, rows, file, lock, pc, target, doomed>>

(* The server stops: handlers and their memory are gone, PostgreSQL rolls  *)
(* the open transactions back, rows and files stay.                        *)
Crash ==
    /\ "crash" \in Faults
    /\ \E r \in Requests : Running(r)
    /\ pc' = [r \in Requests |-> IF Running(r) THEN "dead" ELSE pc[r]]
    /\ lock' = [n \in Notes |-> NoRequest]
    /\ doomed' = [r \in Requests |-> {}]
    /\ UNCHANGED <<account, note, rows, file, target, cancelled>>

UploadStep(u) ==
    \/ UploadCheck(u)
    \/ UploadWriteTemp(u)
    \/ UploadScanAndRename(u)
    \/ UploadLockNote(u)
    \/ UploadCount(u)
    \/ UploadCommit(u)
    \/ UploadUndo(u)

PurgeStep(p) == PurgeList(p) \/ PurgeNote(p)

CloseStep(c) == CloseList(c) \/ CloseAccount(c)

(* Every request has been served: the server waits for the next one.       *)
Quiet ==
    /\ \A r \in Requests : pc[r] \in Ended
    /\ UNCHANGED vars

Next ==
    \/ \E u \in Uploads : UploadStep(u)
    \/ \E d \in Removals : RemoveRow(d)
    \/ \E p \in Purges : PurgeStep(p)
    \/ \E c \in Closures : CloseStep(c)
    \/ \E r \in Requests : UnlinkOne(r) \/ Disconnect(r)
    \/ \E n \in Notes : MoveToTrash(n) \/ Restore(n)
    \/ Crash
    \/ Quiet

Spec == Init /\ [][Next]_vars

(* A request once accepted keeps running: its goroutine is scheduled, the  *)
(* database answers, and row locks are held only by requests that run.     *)
Fairness ==
    /\ \A u \in Uploads : WF_vars(pc[u] # "idle" /\ UploadStep(u))
    /\ \A p \in Purges : WF_vars(pc[p] # "idle" /\ PurgeStep(p))
    /\ \A c \in Closures : WF_vars(pc[c] # "idle" /\ CloseStep(c))
    /\ \A r \in Requests : WF_vars(UnlinkOne(r))

FairSpec == Spec /\ Fairness

-----------------------------------------------------------------------------
(* An attachment the database knows can be opened: its file is on disk.    *)
(* Rows and files change in separate steps, in the order file-then-row on  *)
(* the way in and row-then-file on the way out.  The one exception is an   *)
(* upload whose commit took place without the server learning of it, which *)
(* was undone and reported as failed; no acknowledged upload is ever lost. *)
RowsHaveFile ==
    \A n \in Notes : \A u \in rows[n] :
        file[u] = "stored" \/ ("database" \in Faults /\ pc[u] = "failed")

(* Concurrent uploads never take a note over the limit, although counting  *)
(* and inserting are separate statements under READ COMMITTED.             *)
AttachmentLimit ==
    \A n \in Notes : Cardinality(rows[n]) <= MaxAttachments

(* An upload that found the note out of the trash, and then spent its time *)
(* on the file and the virus scan, adds its row only if the note still is. *)
UploadsOnlyToLiveNotes ==
    [][\A n \in Notes : ~(rows'[n] \subseteq rows[n]) => note[n] = "live"]_vars

(* UploadAttachment undoes the file when the database refuses the row: an  *)
(* upload that reports an error has left neither row nor file behind.      *)
FailedUploadLeavesNothing ==
    \A u \in Uploads :
        pc[u] = "failed" => file[u] = "none" /\ \A n \in Notes : u \notin rows[n]

InCharge(u) ==
    \/ pc[u] \in {"saved", "locked", "counted", "undo"}
    \/ \E r \in Requests : pc[r] = "unlink" /\ u \in doomed[r]

(* A stored file no row names and no running request will remove.          *)
Orphan(u) ==
    /\ file[u] = "stored"
    /\ \A n \in Notes : u \notin rows[n]
    /\ ~InCharge(u)

(* Deleting an attachment, a note for good or the account removes the      *)
(* files as well: no file is left that nothing refers to.                  *)
NoOrphans == \A u \in Uploads : ~Orphan(u)

(* Without faults the only files ever left behind belong to a note deleted *)
(* for good while an upload to it committed between the listing of its     *)
(* attachments and its deletion; no path of uploads and removals leaks.    *)
OrphansOnlyOfDeletedNotes ==
    \A u \in Uploads : Orphan(u) => note[target[u]] = "gone"

(* Every request that got going comes to an end: nobody waits forever for  *)
(* the row lock of a note, whatever the others do.                         *)
RequestsEnd ==
    \A r \in Requests : Running(r) ~> pc[r] \in Ended

(* Rows and files together are the shelf of AttachmentShelf: every step of *)
(* a request is one step of the shelf or none, so that an attachment can   *)
(* be opened exactly while its row exists, unless the answer to its commit *)
(* was lost and its upload, taking itself for failed, undoes the file.     *)
Readable == [n \in Notes |-> {u \in rows[n] : file[u] = "stored"}]

BeingUndone ==
    {u \in Uploads : /\ pc[u] = "undo"
                     /\ u \notin cancelled
                     /\ \E n \in Notes : u \in rows[n]}

Shelf == INSTANCE AttachmentShelf
            WITH Attachments <- Uploads, AnswersGetLost <- "database" \in Faults,
                 state <- note, shelf <- Readable, doubtful <- BeingUndone

ImplementsShelf == Shelf!Spec

=============================================================================
