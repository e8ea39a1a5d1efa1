------------------------- MODULE NoteAttachmentsProofs -------------------------
(***************************************************************************)
(* What NoteAttachments guarantees for every number of notes and requests. *)
(*                                                                         *)
(* The argument.  An upload writes its file before its row and holds the   *)
(* row lock of its note from the count to the commit; a deletion takes the *)
(* row before the file.  The invariant IInv says just that: who holds the  *)
(* lock, who has a file but not yet a row, and that a key on its way to    *)
(* os.Remove belongs to no row any more and never will again.              *)
(***************************************************************************)
EXTENDS NoteAttachments, FiniteSetTheorems, TLAPS

(* The steps an upload takes once it can no longer insert its row.         *)
Beyond == {"undo", "done", "failed", "dead"}

(* An upload works on one note: its row and its lock are of that note.     *)
OwnNote ==
    /\ \A n \in Notes : \A u \in rows[n] : target[u] = n
    /\ \A n \in Notes : lock[n] # NoRequest => target[lock[n]] = n

(* The row lock is held exactly around the statements it protects, and a   *)
(* note that is locked stays out of the trash.                             *)
LockHeld ==
    /\ \A n \in Notes :
          lock[n] # NoRequest => /\ pc[lock[n]] \in {"locked", "counted"}
                                 /\ note[n] = "live"
    /\ \A u \in Uploads : pc[u] \in {"locked", "counted"} => lock[target[u]] = u

(* What was counted still holds when the row is inserted.                  *)
RoomLeft ==
    \A u \in Uploads :
        pc[u] = "counted" => Cardinality(rows[target[u]]) < MaxAttachments

(* An upload on its way in has its file and not its row.                   *)
FileFirst ==
    /\ \A u \in Uploads : pc[u] \in {"saved", "locked", "counted"} => file[u] = "stored"
    /\ \A n \in Notes : \A u \in rows[n] : pc[u] \in Beyond

(* A key on its way to os.Remove belongs to an upload that is over, of the *)
(* purged note, and, once the database has let go of it, to no row.        *)
RowFirst ==
    /\ \A u \in Uploads : pc[u] \notin {"listed", "unlink"}
    /\ \A r \in Requests : \A u \in doomed[r] : pc[u] \in Beyond
    /\ \A p \in Purges : \A u \in doomed[p] : target[u] = target[p]
    /\ \A r \in Requests : pc[r] = "unlink" =>
            \A u \in doomed[r] : \A n \in Notes : u \notin rows[n]

(* An upload that compensates and whose context still lives has no row.    *)
(* This is what a lost answer to COMMIT breaks.                            *)
UndoSafe ==
    \A u \in Uploads :
        pc[u] = "undo" /\ u \notin cancelled => \A n \in Notes : u \notin rows[n]

IInv ==
    /\ TypeOK
    /\ OwnNote
    /\ LockHeld
    /\ FileFirst
    /\ RowFirst
    /\ RoomLeft
    /\ AttachmentLimit

-----------------------------------------------------------------------------
(* Every variable keeps its type.                                          *)
LEMMA TypeStep ==
    ASSUME TypeOK, [Next]_vars
    PROVE  TypeOK'
<1> USE DEF TypeOK, NoteStates, FileStates, Steps, Requests
<1>1. ASSUME NEW u \in Uploads, UploadCheck(u)
      PROVE  TypeOK'
  BY <1>1 DEF UploadCheck, Reply, Goto
<1>2. ASSUME NEW u \in Uploads, UploadWriteTemp(u)
      PROVE  TypeOK'
  BY <1>2 DEF UploadWriteTemp, Goto
<1>3. ASSUME NEW u \in Uploads, UploadScanAndRename(u)
      PROVE  TypeOK'
  BY <1>3 DEF UploadScanAndRename, Goto
<1>4. ASSUME NEW u \in Uploads, UploadLockNote(u)
      PROVE  TypeOK'
  BY <1>4 DEF UploadLockNote, Reply, Goto
<1>5. ASSUME NEW u \in Uploads, UploadCount(u)
      PROVE  TypeOK'
  BY <1>5 DEF UploadCount, Reply, Goto
<1>6. ASSUME NEW u \in Uploads, UploadCommit(u)
      PROVE  TypeOK'
  BY <1>6 DEF UploadCommit, Reply, Goto
<1>7. ASSUME NEW u \in Uploads, UploadUndo(u)
      PROVE  TypeOK'
  BY <1>7 DEF UploadUndo, Unlink, Goto
<1>8. ASSUME NEW d \in Removals, RemoveRow(d)
      PROVE  TypeOK'
  BY <1>8 DEF RemoveRow, Reply, Goto
<1>9. ASSUME NEW p \in Purges, PurgeList(p)
      PROVE  TypeOK'
  BY <1>9 DEF PurgeList, Reply, Goto
<1>10. ASSUME NEW p \in Purges, PurgeNote(p)
      PROVE  TypeOK'
  BY <1>10 DEF PurgeNote, Reply, Goto
<1>11. ASSUME NEW c \in Closures, CloseList(c)
      PROVE  TypeOK'
  BY <1>11 DEF CloseList, Reply, Goto
<1>12. ASSUME NEW c \in Closures, CloseAccount(c)
      PROVE  TypeOK'
  BY <1>12 DEF CloseAccount, Reply, Goto
<1>13. ASSUME NEW r \in Requests, UnlinkOne(r)
      PROVE  TypeOK'
  BY <1>13 DEF UnlinkOne, Unlink, Goto
<1>14. ASSUME NEW r \in Requests, Disconnect(r)
      PROVE  TypeOK'
  BY <1>14 DEF Disconnect
<1>15. ASSUME NEW n \in Notes, MoveToTrash(n)
      PROVE  TypeOK'
  BY <1>15 DEF MoveToTrash
<1>16. ASSUME NEW n \in Notes, Restore(n)
      PROVE  TypeOK'
  BY <1>16 DEF Restore
<1>17. CASE Crash
  BY <1>17 DEF Crash, Running, Ended
<1>18. CASE UNCHANGED vars
  BY <1>18 DEF vars
<1> QED
  BY <1>1, <1>2, <1>3, <1>4, <1>5, <1>6, <1>7, <1>8, <1>9, <1>10, <1>11,
     <1>12, <1>13, <1>14, <1>15, <1>16, <1>17, <1>18
  DEF Next, UploadStep, PurgeStep, CloseStep, Quiet

(* TypeCorrect: every variable of NoteAttachments keeps its type, for all  *)
(* sets of notes and requests and under every combination of faults.       *)
THEOREM TypeCorrect == Spec => []TypeOK
<1>1. Init => TypeOK
  BY DEF Init, TypeOK, NoteStates, FileStates, Steps
<1>2. TypeOK /\ [Next]_vars => TypeOK'
  BY TypeStep
<1> QED
  BY <1>1, <1>2, PTL DEF Spec

(* Rows and locks stay with the note of their upload.                      *)
LEMMA OwnNoteStep ==
    ASSUME TypeOK, TypeOK', OwnNote, [Next]_vars
    PROVE  OwnNote'
<1> USE RequestAssumption DEF TypeOK, OwnNote, Beyond, Requests, Steps
<1>1. ASSUME NEW u \in Uploads, UploadCheck(u)
      PROVE  OwnNote'
  BY <1>1 DEF UploadCheck, Reply, Goto
<1>2. ASSUME NEW u \in Uploads, UploadWriteTemp(u)
      PROVE  OwnNote'
  BY <1>2 DEF UploadWriteTemp, Goto
<1>3. ASSUME NEW u \in Uploads, UploadScanAndRename(u)
      PROVE  OwnNote'
  BY <1>3 DEF UploadScanAndRename, Goto
<1>4. ASSUME NEW u \in Uploads, UploadLockNote(u)
      PROVE  OwnNote'
  BY <1>4 DEF UploadLockNote, Reply, Goto
<1>5. ASSUME NEW u \in Uploads, UploadCount(u)
      PROVE  OwnNote'
  BY <1>5 DEF UploadCount, Reply, Goto
<1>6. ASSUME NEW u \in Uploads, UploadCommit(u)
      PROVE  OwnNote'
  BY <1>6 DEF UploadCommit, Reply, Goto
<1>7. ASSUME NEW u \in Uploads, UploadUndo(u)
      PROVE  OwnNote'
  BY <1>7 DEF UploadUndo, Unlink, Goto
<1>8. ASSUME NEW d \in Removals, RemoveRow(d)
      PROVE  OwnNote'
  BY <1>8 DEF RemoveRow, Reply, Goto
<1>9. ASSUME NEW p \in Purges, PurgeList(p)
      PROVE  OwnNote'
  BY <1>9 DEF PurgeList, Reply, Goto
<1>10. ASSUME NEW p \in Purges, PurgeNote(p)
      PROVE  OwnNote'
  BY <1>10 DEF PurgeNote, Reply, Goto
<1>11. ASSUME NEW c \in Closures, CloseList(c)
      PROVE  OwnNote'
  BY <1>11 DEF CloseList, Reply, Goto
<1>12. ASSUME NEW c \in Closures, CloseAccount(c)
      PROVE  OwnNote'
  BY <1>12 DEF CloseAccount, Reply, Goto
<1>13. ASSUME NEW r \in Requests, UnlinkOne(r)
      PROVE  OwnNote'
  BY <1>13 DEF UnlinkOne, Unlink, Goto
<1>14. ASSUME NEW r \in Requests, Disconnect(r)
      PROVE  OwnNote'
  BY <1>14 DEF Disconnect
<1>15. ASSUME NEW n \in Notes, MoveToTrash(n)
      PROVE  OwnNote'
  BY <1>15 DEF MoveToTrash
<1>16. ASSUME NEW n \in Notes, Restore(n)
      PROVE  OwnNote'
  BY <1>16 DEF Restore
<1>17. CASE Crash
  BY <1>17 DEF Crash, Running, Ended
<1>18. CASE UNCHANGED vars
  BY <1>18 DEF vars
<1> QED
  BY <1>1, <1>2, <1>3, <1>4, <1>5, <1>6, <1>7, <1>8, <1>9, <1>10, <1>11,
     <1>12, <1>13, <1>14, <1>15, <1>16, <1>17, <1>18
  DEF Next, UploadStep, PurgeStep, CloseStep, Quiet

(* No statement takes a lock that is held, or a locked note to the trash.  *)
LEMMA LockHeldStep ==
    ASSUME TypeOK, TypeOK', OwnNote, LockHeld, [Next]_vars
    PROVE  LockHeld'
<1> USE RequestAssumption DEF TypeOK, OwnNote, LockHeld, Beyond, Requests, Steps
<1>1. ASSUME NEW u \in Uploads, UploadCheck(u)
      PROVE  LockHeld'
  BY <1>1 DEF UploadCheck, Reply, Goto
<1>2. ASSUME NEW u \in Uploads, UploadWriteTemp(u)
      PROVE  LockHeld'
  BY <1>2 DEF UploadWriteTemp, Goto
<1>3. ASSUME NEW u \in Uploads, UploadScanAndRename(u)
      PROVE  LockHeld'
  BY <1>3 DEF UploadScanAndRename, Goto
<1>4. ASSUME NEW u \in Uploads, UploadLockNote(u)
      PROVE  LockHeld'
  BY <1>4 DEF UploadLockNote, Reply, Goto
<1>5. ASSUME NEW u \in Uploads, UploadCount(u)
      PROVE  LockHeld'
  BY <1>5 DEF UploadCount, Reply, Goto
<1>6. ASSUME NEW u \in Uploads, UploadCommit(u)
      PROVE  LockHeld'
  BY <1>6 DEF UploadCommit, Reply, Goto
<1>7. ASSUME NEW u \in Uploads, UploadUndo(u)
      PROVE  LockHeld'
  BY <1>7 DEF UploadUndo, Unlink, Goto
<1>8. ASSUME NEW d \in Removals, RemoveRow(d)
      PROVE  LockHeld'
  BY <1>8 DEF RemoveRow, Reply, Goto
<1>9. ASSUME NEW p \in Purges, PurgeList(p)
      PROVE  LockHeld'
  BY <1>9 DEF PurgeList, Reply, Goto
<1>10. ASSUME NEW p \in Purges, PurgeNote(p)
      PROVE  LockHeld'
  BY <1>10 DEF PurgeNote, Reply, Goto
<1>11. ASSUME NEW c \in Closures, CloseList(c)
      PROVE  LockHeld'
  BY <1>11 DEF CloseList, Reply, Goto
<1>12. ASSUME NEW c \in Closures, CloseAccount(c)
      PROVE  LockHeld'
  BY <1>12 DEF CloseAccount, Reply, Goto
<1>13. ASSUME NEW r \in Requests, UnlinkOne(r)
      PROVE  LockHeld'
  BY <1>13 DEF UnlinkOne, Unlink, Goto
<1>14. ASSUME NEW r \in Requests, Disconnect(r)
      PROVE  LockHeld'
  BY <1>14 DEF Disconnect
<1>15. ASSUME NEW n \in Notes, MoveToTrash(n)
      PROVE  LockHeld'
  BY <1>15 DEF MoveToTrash
<1>16. ASSUME NEW n \in Notes, Restore(n)
      PROVE  LockHeld'
  BY <1>16 DEF Restore
<1>17. CASE Crash
  BY <1>17 DEF Crash, Running, Ended
<1>18. CASE UNCHANGED vars
  BY <1>18 DEF vars
<1> QED
  BY <1>1, <1>2, <1>3, <1>4, <1>5, <1>6, <1>7, <1>8, <1>9, <1>10, <1>11,
     <1>12, <1>13, <1>14, <1>15, <1>16, <1>17, <1>18
  DEF Next, UploadStep, PurgeStep, CloseStep, Quiet

(* Nobody removes the file of an upload that may still insert its row.     *)
LEMMA FileFirstStep ==
    ASSUME TypeOK, TypeOK', LockHeld, FileFirst, RowFirst, [Next]_vars
    PROVE  FileFirst'
<1> USE RequestAssumption DEF TypeOK, LockHeld, FileFirst, RowFirst, Beyond, Requests, Steps
<1>1. ASSUME NEW u \in Uploads, UploadCheck(u)
      PROVE  FileFirst'
  BY <1>1 DEF UploadCheck, Reply, Goto
<1>2. ASSUME NEW u \in Uploads, UploadWriteTemp(u)
      PROVE  FileFirst'
  BY <1>2 DEF UploadWriteTemp, Goto
<1>3. ASSUME NEW u \in Uploads, UploadScanAndRename(u)
      PROVE  FileFirst'
  BY <1>3 DEF UploadScanAndRename, Goto
<1>4. ASSUME NEW u \in Uploads, UploadLockNote(u)
      PROVE  FileFirst'
  BY <1>4 DEF UploadLockNote, Reply, Goto
<1>5. ASSUME NEW u \in Uploads, UploadCount(u)
      PROVE  FileFirst'
  BY <1>5 DEF UploadCount, Reply, Goto
<1>6. ASSUME NEW u \in Uploads, UploadCommit(u)
      PROVE  FileFirst'
  BY <1>6 DEF UploadCommit, Reply, Goto
<1>7. ASSUME NEW u \in Uploads, UploadUndo(u)
      PROVE  FileFirst'
  BY <1>7 DEF UploadUndo, Unlink, Goto
<1>8. ASSUME NEW d \in Removals, RemoveRow(d)
      PROVE  FileFirst'
  BY <1>8 DEF RemoveRow, Reply, Goto
<1>9. ASSUME NEW p \in Purges, PurgeList(p)
      PROVE  FileFirst'
  BY <1>9 DEF PurgeList, Reply, Goto
<1>10. ASSUME NEW p \in Purges, PurgeNote(p)
      PROVE  FileFirst'
  BY <1>10 DEF PurgeNote, Reply, Goto
<1>11. ASSUME NEW c \in Closures, CloseList(c)
      PROVE  FileFirst'
  BY <1>11 DEF CloseList, Reply, Goto
<1>12. ASSUME NEW c \in Closures, CloseAccount(c)
      PROVE  FileFirst'
  BY <1>12 DEF CloseAccount, Reply, Goto
<1>13. ASSUME NEW r \in Requests, UnlinkOne(r)
      PROVE  FileFirst'
  BY <1>13 DEF UnlinkOne, Unlink, Goto
<1>14. ASSUME NEW r \in Requests, Disconnect(r)
      PROVE  FileFirst'
  BY <1>14 DEF Disconnect
<1>15. ASSUME NEW n \in Notes, MoveToTrash(n)
      PROVE  FileFirst'
  BY <1>15 DEF MoveToTrash
<1>16. ASSUME NEW n \in Notes, Restore(n)
      PROVE  FileFirst'
  BY <1>16 DEF Restore
<1>17. CASE Crash
  BY <1>17 DEF Crash, Running, Ended
<1>18. CASE UNCHANGED vars
  BY <1>18 DEF vars
<1> QED
  BY <1>1, <1>2, <1>3, <1>4, <1>5, <1>6, <1>7, <1>8, <1>9, <1>10, <1>11,
     <1>12, <1>13, <1>14, <1>15, <1>16, <1>17, <1>18
  DEF Next, UploadStep, PurgeStep, CloseStep, Quiet

(* Keys are read from rows, and unlinked only after those rows are gone.   *)
LEMMA RowFirstStep ==
    ASSUME TypeOK, TypeOK', OwnNote, FileFirst, RowFirst, [Next]_vars
    PROVE  RowFirst'
<1> USE RequestAssumption DEF TypeOK, OwnNote, FileFirst, RowFirst, Beyond, Requests, Steps
<1>1. ASSUME NEW u \in Uploads, UploadCheck(u)
      PROVE  RowFirst'
  BY <1>1 DEF UploadCheck, Reply, Goto
<1>2. ASSUME NEW u \in Uploads, UploadWriteTemp(u)
      PROVE  RowFirst'
  BY <1>2 DEF UploadWriteTemp, Goto
<1>3. ASSUME NEW u \in Uploads, UploadScanAndRename(u)
      PROVE  RowFirst'
  BY <1>3 DEF UploadScanAndRename, Goto
<1>4. ASSUME NEW u \in Uploads, UploadLockNote(u)
      PROVE  RowFirst'
  BY <1>4 DEF UploadLockNote, Reply, Goto
<1>5. ASSUME NEW u \in Uploads, UploadCount(u)
      PROVE  RowFirst'
  BY <1>5 DEF UploadCount, Reply, Goto
<1>6. ASSUME NEW u \in Uploads, UploadCommit(u)
      PROVE  RowFirst'
  BY <1>6 DEF UploadCommit, Reply, Goto
<1>7. ASSUME NEW u \in Uploads, UploadUndo(u)
      PROVE  RowFirst'
  BY <1>7 DEF UploadUndo, Unlink, Goto
<1>8. ASSUME NEW d \in Removals, RemoveRow(d)
      PROVE  RowFirst'
  BY <1>8 DEF RemoveRow, Reply, Goto
<1>9. ASSUME NEW p \in Purges, PurgeList(p)
      PROVE  RowFirst'
  BY <1>9 DEF PurgeList, Reply, Goto
<1>10. ASSUME NEW p \in Purges, PurgeNote(p)
      PROVE  RowFirst'
  BY <1>10 DEF PurgeNote, Reply, Goto
<1>11. ASSUME NEW c \in Closures, CloseList(c)
      PROVE  RowFirst'
  BY <1>11 DEF CloseList, Reply, Goto
<1>12. ASSUME NEW c \in Closures, CloseAccount(c)
      PROVE  RowFirst'
  BY <1>12 DEF CloseAccount, Reply, Goto
<1>13. ASSUME NEW r \in Requests, UnlinkOne(r)
      PROVE  RowFirst'
  BY <1>13 DEF UnlinkOne, Unlink, Goto
<1>14. ASSUME NEW r \in Requests, Disconnect(r)
      PROVE  RowFirst'
  BY <1>14 DEF Disconnect
<1>15. ASSUME NEW n \in Notes, MoveToTrash(n)
      PROVE  RowFirst'
  BY <1>15 DEF MoveToTrash
<1>16. ASSUME NEW n \in Notes, Restore(n)
      PROVE  RowFirst'
  BY <1>16 DEF Restore
<1>17. CASE Crash
  BY <1>17 DEF Crash, Running, Ended
<1>18. CASE UNCHANGED vars
  BY <1>18 DEF vars
<1> QED
  BY <1>1, <1>2, <1>3, <1>4, <1>5, <1>6, <1>7, <1>8, <1>9, <1>10, <1>11,
     <1>12, <1>13, <1>14, <1>15, <1>16, <1>17, <1>18
  DEF Next, UploadStep, PurgeStep, CloseStep, Quiet

-----------------------------------------------------------------------------
(* Taking attachments off a note, or none at all, does not add to it.      *)
LEMMA FewerRows ==
    ASSUME NEW S \in SUBSET Uploads, NEW T \in SUBSET S
    PROVE  /\ Cardinality(S) \in Nat
           /\ Cardinality(T) \in Nat
           /\ Cardinality(T) <= Cardinality(S)
<1>1. IsFiniteSet(S)
  BY RequestAssumption, FS_Subset
<1>2. IsFiniteSet(T)
  BY <1>1, FS_Subset
<1> QED
  BY <1>1, <1>2, FS_Subset, FS_CardinalityType

(* A row more is at most one attachment more.                              *)
LEMMA OneMoreRow ==
    ASSUME NEW S \in SUBSET Uploads, NEW u
    PROVE  /\ Cardinality(S) \in Nat
           /\ Cardinality(S \cup {u}) \in Nat
           /\ Cardinality(S \cup {u}) <= Cardinality(S) + 1
<1>1. IsFiniteSet(S)
  BY RequestAssumption, FS_Subset
<1>2. /\ IsFiniteSet(S \cup {u})
      /\ Cardinality(S \cup {u}) = IF u \in S THEN Cardinality(S) ELSE Cardinality(S) + 1
  BY <1>1, FS_AddElement
<1> QED
  BY <1>1, <1>2, FS_CardinalityType

(* The only step that adds to a note is the commit of the upload that has  *)
(* it locked.                                                              *)
LEMMA RowsGrowByCommit ==
    ASSUME TypeOK, [Next]_vars, NEW m \in Notes
    PROVE  \/ rows'[m] \subseteq rows[m]
           \/ \E u \in Uploads : /\ UploadCommit(u)
                                 /\ target[u] = m
                                 /\ rows'[m] = rows[m] \cup {u}
<1> DEFINE Grows == \E u \in Uploads : /\ UploadCommit(u)
                                       /\ target[u] = m
                                       /\ rows'[m] = rows[m] \cup {u}
           Goal == rows'[m] \subseteq rows[m] \/ Grows
<1> USE DEF TypeOK, Requests
<1>1. ASSUME NEW u \in Uploads, UploadCheck(u)
      PROVE  Goal
  BY <1>1 DEF UploadCheck, Reply, Goto
<1>2. ASSUME NEW u \in Uploads, UploadWriteTemp(u)
      PROVE  Goal
  BY <1>2 DEF UploadWriteTemp, Goto
<1>3. ASSUME NEW u \in Uploads, UploadScanAndRename(u)
      PROVE  Goal
  BY <1>3 DEF UploadScanAndRename, Goto
<1>4. ASSUME NEW u \in Uploads, UploadLockNote(u)
      PROVE  Goal
  BY <1>4 DEF UploadLockNote, Reply, Goto
<1>5. ASSUME NEW u \in Uploads, UploadCount(u)
      PROVE  Goal
  BY <1>5 DEF UploadCount, Reply, Goto
<1>6. ASSUME NEW u \in Uploads, UploadCommit(u)
      PROVE  Goal
  <2>1. rows' = rows \/ rows' = [rows EXCEPT ![target[u]] = @ \cup {u}]
    BY <1>6 DEF UploadCommit
  <2>2. CASE target[u] = m
    BY <1>6, <2>1, <2>2
  <2>3. CASE target[u] # m
    BY <2>1, <2>3
  <2> QED
    BY <2>2, <2>3
<1>7. ASSUME NEW u \in Uploads, UploadUndo(u)
      PROVE  Goal
  BY <1>7 DEF UploadUndo, Unlink, Goto
<1>8. ASSUME NEW d \in Removals, RemoveRow(d)
      PROVE  Goal
  BY <1>8 DEF RemoveRow, Reply, Goto
<1>9. ASSUME NEW p \in Purges, PurgeList(p)
      PROVE  Goal
  BY <1>9 DEF PurgeList, Reply, Goto
<1>10. ASSUME NEW p \in Purges, PurgeNote(p)
      PROVE  Goal
  BY <1>10 DEF PurgeNote, Reply, Goto
<1>11. ASSUME NEW c \in Closures, CloseList(c)
      PROVE  Goal
  BY <1>11 DEF CloseList, Reply, Goto
<1>12. ASSUME NEW c \in Closures, CloseAccount(c)
      PROVE  Goal
  BY <1>12 DEF CloseAccount, Reply, Goto
<1>13. ASSUME NEW r \in Requests, UnlinkOne(r)
      PROVE  Goal
  BY <1>13 DEF UnlinkOne, Unlink, Goto
<1>14. ASSUME NEW r \in Requests, Disconnect(r)
      PROVE  Goal
  BY <1>14 DEF Disconnect
<1>15. ASSUME NEW n \in Notes, MoveToTrash(n)
      PROVE  Goal
  BY <1>15 DEF MoveToTrash
<1>16. ASSUME NEW n \in Notes, Restore(n)
      PROVE  Goal
  BY <1>16 DEF Restore
<1>17. CASE Crash
  BY <1>17 DEF Crash, Running, Ended
<1>18. CASE UNCHANGED vars
  BY <1>18 DEF vars
<1> QED
  BY <1>1, <1>2, <1>3, <1>4, <1>5, <1>6, <1>7, <1>8, <1>9, <1>10, <1>11,
     <1>12, <1>13, <1>14, <1>15, <1>16, <1>17, <1>18
  DEF Next, UploadStep, PurgeStep, CloseStep, Quiet

(* Nobody else adds a row between the count of an upload and its commit.   *)
LEMMA RoomLeftStep ==
    ASSUME TypeOK, TypeOK', LockHeld, FileFirst, RoomLeft, [Next]_vars
    PROVE  RoomLeft'
<1> SUFFICES ASSUME NEW v \in Uploads, pc'[v] = "counted"
             PROVE  Cardinality(rows'[target'[v]]) < MaxAttachments
  BY DEF RoomLeft
<1> DEFINE m == target[v]
<1> USE RequestAssumption, LimitAssumption DEF TypeOK, Requests
<1>1. m \in Notes /\ target' = target
  <2>1. target' = target
    BY DEF Next, vars, UploadStep, PurgeStep, CloseStep, Quiet, UploadCheck,
           UploadWriteTemp, UploadScanAndRename, UploadLockNote, UploadCount,
           UploadCommit, UploadUndo, RemoveRow, PurgeList, PurgeNote, CloseList,
           CloseAccount, UnlinkOne, Disconnect, MoveToTrash, Restore, Crash
  <2> QED
    BY <2>1
<1>2. CASE pc[v] = "counted"
  <2>1. Cardinality(rows[m]) < MaxAttachments /\ lock[m] = v
    BY <1>2 DEF RoomLeft, LockHeld
  <2>2. ASSUME NEW u \in Uploads, UploadCommit(u), target[u] = m
        PROVE  FALSE
    <3>1. pc[u] = "counted" /\ lock[m] = u
      BY <2>2 DEF UploadCommit, LockHeld
    <3>2. u = v
      BY <2>1, <3>1
    <3> QED
      BY <2>2, <3>2 DEF UploadCommit, Goto, Reply
  <2>3. rows'[m] \subseteq rows[m]
    BY <1>1, <2>2, RowsGrowByCommit
  <2> QED
    BY <1>1, <2>1, <2>3, FewerRows
<1>3. CASE pc[v] # "counted"
  <2>1. ASSUME NEW u \in Uploads, UploadCount(u)
        PROVE  Cardinality(rows'[m]) < MaxAttachments
    BY <1>3, <2>1 DEF UploadCount, Goto
  <2>2. ASSUME NEW u \in Uploads, UploadStep(u)
        PROVE  UploadCount(u)
    BY <1>3, <2>2 DEF UploadStep, UploadCheck, UploadWriteTemp, UploadScanAndRename,
           UploadLockNote, UploadCount, UploadCommit, UploadUndo, Goto
  <2>3. ASSUME NEW r \in Requests \ Uploads, RemoveRow(r) \/ PurgeStep(r) \/ CloseStep(r)
        PROVE  FALSE
    BY <1>3, <2>3 DEF RemoveRow, PurgeStep, PurgeList, PurgeNote, CloseStep, CloseList,
           CloseAccount, Goto
  <2>4. ASSUME NEW r \in Requests, UnlinkOne(r) \/ Disconnect(r)
        PROVE  FALSE
    BY <1>3, <2>4 DEF UnlinkOne, Disconnect, Goto
  <2>5. ~Crash
    BY <1>3 DEF Crash
  <2>6. pc' # pc
    BY <1>3
  <2> QED
    BY <1>1, <2>1, <2>2, <2>3, <2>4, <2>5, <2>6
    DEF Next, vars, Quiet, MoveToTrash, Restore
<1> QED
  BY <1>2, <1>3

(* So the row that is inserted still fits.                                 *)
LEMMA AttachmentLimitStep ==
    ASSUME TypeOK, TypeOK', RoomLeft, AttachmentLimit, [Next]_vars
    PROVE  AttachmentLimit'
<1> SUFFICES ASSUME NEW m \in Notes
             PROVE  Cardinality(rows'[m]) <= MaxAttachments
  BY DEF AttachmentLimit
<1> USE LimitAssumption DEF TypeOK
<1>1. CASE rows'[m] \subseteq rows[m]
  <2>1. Cardinality(rows[m]) <= MaxAttachments
    BY DEF AttachmentLimit
  <2>2. rows[m] \in SUBSET Uploads /\ rows'[m] \in SUBSET rows[m]
    BY <1>1
  <2>3. /\ Cardinality(rows[m]) \in Nat
        /\ Cardinality(rows'[m]) \in Nat
        /\ Cardinality(rows'[m]) <= Cardinality(rows[m])
    BY <2>2, FewerRows
  <2> QED
    BY <2>1, <2>3
<1>2. ASSUME NEW u \in Uploads, UploadCommit(u), target[u] = m,
             rows'[m] = rows[m] \cup {u}
      PROVE  Cardinality(rows'[m]) <= MaxAttachments
  <2>1. Cardinality(rows[m]) < MaxAttachments
    BY <1>2 DEF UploadCommit, RoomLeft
  <2>2. rows[m] \in SUBSET Uploads
    OBVIOUS
  <2>3. /\ Cardinality(rows[m]) \in Nat
        /\ Cardinality(rows'[m]) \in Nat
        /\ Cardinality(rows'[m]) <= Cardinality(rows[m]) + 1
    BY <1>2, <2>2, OneMoreRow
  <2> QED
    BY <2>1, <2>3
<1> QED
  BY <1>1, <1>2, RowsGrowByCommit

-----------------------------------------------------------------------------
THEOREM Invariance == Spec => []IInv
<1>1. Init => IInv
  <2> SUFFICES ASSUME Init
               PROVE  IInv
    OBVIOUS
  <2>1. TypeOK
    BY DEF Init, TypeOK, NoteStates, FileStates, Steps
  <2>2. OwnNote /\ LockHeld /\ FileFirst /\ RowFirst /\ RoomLeft
    BY RequestAssumption
    DEF Init, OwnNote, LockHeld, FileFirst, RowFirst, RoomLeft, Requests
  <2>3. AttachmentLimit
    BY LimitAssumption, FS_EmptySet DEF Init, AttachmentLimit
  <2> QED
    BY <2>1, <2>2, <2>3 DEF IInv
<1>2. IInv /\ [Next]_vars => IInv'
  <2> SUFFICES ASSUME IInv, [Next]_vars
               PROVE  IInv'
    OBVIOUS
  <2>1. TypeOK'
    BY TypeStep DEF IInv
  <2> QED
    BY <2>1, OwnNoteStep, LockHeldStep, FileFirstStep, RowFirstStep,
       RoomLeftStep, AttachmentLimitStep
    DEF IInv
<1> QED
  BY <1>1, <1>2, PTL DEF Spec

(* Concurrent uploads never take a note over MaxAttachments: counting and  *)
(* inserting are separate statements, but both run under the row lock.     *)
THEOREM LimitKept == Spec => []AttachmentLimit
  BY Invariance, PTL DEF IInv

(* A row is added to a note only while the note is out of the trash, long  *)
(* after the upload looked at it first.                                    *)
THEOREM AddedToLiveNotes == Spec => UploadsOnlyToLiveNotes
<1>1. ASSUME IInv, [Next]_vars, NEW m \in Notes, ~(rows'[m] \subseteq rows[m])
      PROVE  note[m] = "live"
  <2>1. PICK u \in Uploads : UploadCommit(u) /\ target[u] = m
    BY <1>1, RowsGrowByCommit DEF IInv
  <2>2. lock[m] = u
    BY <1>1, <2>1 DEF UploadCommit, IInv, LockHeld
  <2>3. u # NoRequest
    BY RequestAssumption DEF Requests
  <2> QED
    BY <1>1, <2>2, <2>3 DEF IInv, LockHeld
<1>2. IInv /\ [Next]_vars
        => [\A n \in Notes : ~(rows'[n] \subseteq rows[n]) => note[n] = "live"]_vars
  BY <1>1
<1> QED
  BY <1>2, Invariance, PTL DEF Spec, UploadsOnlyToLiveNotes

-----------------------------------------------------------------------------
(* Only a commit whose answer the database lost can leave an upload that   *)
(* compensates with a row, and only a dead context spares its file.        *)
LEMMA UndoSafeStep ==
    ASSUME TypeOK, TypeOK', FileFirst, UndoSafe, "database" \notin Faults, [Next]_vars
    PROVE  UndoSafe'
<1> USE RequestAssumption DEF TypeOK, FileFirst, UndoSafe, Beyond, Requests, Steps
<1>1. ASSUME NEW u \in Uploads, UploadCheck(u)
      PROVE  UndoSafe'
  BY <1>1 DEF UploadCheck, Reply, Goto
<1>2. ASSUME NEW u \in Uploads, UploadWriteTemp(u)
      PROVE  UndoSafe'
  BY <1>2 DEF UploadWriteTemp, Goto
<1>3. ASSUME NEW u \in Uploads, UploadScanAndRename(u)
      PROVE  UndoSafe'
  BY <1>3 DEF UploadScanAndRename, Goto
<1>4. ASSUME NEW u \in Uploads, UploadLockNote(u)
      PROVE  UndoSafe'
  BY <1>4 DEF UploadLockNote, Reply, Goto
<1>5. ASSUME NEW u \in Uploads, UploadCount(u)
      PROVE  UndoSafe'
  BY <1>5 DEF UploadCount, Reply, Goto
<1>6. ASSUME NEW u \in Uploads, UploadCommit(u)
      PROVE  UndoSafe'
  BY <1>6 DEF UploadCommit, Reply, Goto
<1>7. ASSUME NEW u \in Uploads, UploadUndo(u)
      PROVE  UndoSafe'
  BY <1>7 DEF UploadUndo, Unlink, Goto
<1>8. ASSUME NEW d \in Removals, RemoveRow(d)
      PROVE  UndoSafe'
  BY <1>8 DEF RemoveRow, Reply, Goto
<1>9. ASSUME NEW p \in Purges, PurgeList(p)
      PROVE  UndoSafe'
  BY <1>9 DEF PurgeList, Reply, Goto
<1>10. ASSUME NEW p \in Purges, PurgeNote(p)
      PROVE  UndoSafe'
  BY <1>10 DEF PurgeNote, Reply, Goto
<1>11. ASSUME NEW c \in Closures, CloseList(c)
      PROVE  UndoSafe'
  BY <1>11 DEF CloseList, Reply, Goto
<1>12. ASSUME NEW c \in Closures, CloseAccount(c)
      PROVE  UndoSafe'
  BY <1>12 DEF CloseAccount, Reply, Goto
<1>13. ASSUME NEW r \in Requests, UnlinkOne(r)
      PROVE  UndoSafe'
  BY <1>13 DEF UnlinkOne, Unlink, Goto
<1>14. ASSUME NEW r \in Requests, Disconnect(r)
      PROVE  UndoSafe'
  BY <1>14 DEF Disconnect
<1>15. ASSUME NEW n \in Notes, MoveToTrash(n)
      PROVE  UndoSafe'
  BY <1>15 DEF MoveToTrash
<1>16. ASSUME NEW n \in Notes, Restore(n)
      PROVE  UndoSafe'
  BY <1>16 DEF Restore
<1>17. CASE Crash
  BY <1>17 DEF Crash, Running, Ended
<1>18. CASE UNCHANGED vars
  BY <1>18 DEF vars
<1> QED
  BY <1>1, <1>2, <1>3, <1>4, <1>5, <1>6, <1>7, <1>8, <1>9, <1>10, <1>11,
     <1>12, <1>13, <1>14, <1>15, <1>16, <1>17, <1>18
  DEF Next, UploadStep, PurgeStep, CloseStep, Quiet

(* No step removes the file of a row, or adds a row without its file, but  *)
(* the undoing of an upload whose commit the database did not answer for.  *)
LEMMA RowsHaveFileStep ==
    ASSUME TypeOK, TypeOK', FileFirst, RowFirst, RowsHaveFile, [Next]_vars,
           "database" \notin Faults => UndoSafe
    PROVE  RowsHaveFile'
<1> USE RequestAssumption
    DEF TypeOK, FileFirst, RowFirst, UndoSafe, RowsHaveFile, Beyond, Requests, Steps
<1>1. ASSUME NEW u \in Uploads, UploadCheck(u)
      PROVE  RowsHaveFile'
  BY <1>1 DEF UploadCheck, Reply, Goto
<1>2. ASSUME NEW u \in Uploads, UploadWriteTemp(u)
      PROVE  RowsHaveFile'
  BY <1>2 DEF UploadWriteTemp, Goto
<1>3. ASSUME NEW u \in Uploads, UploadScanAndRename(u)
      PROVE  RowsHaveFile'
  BY <1>3 DEF UploadScanAndRename, Goto
<1>4. ASSUME NEW u \in Uploads, UploadLockNote(u)
      PROVE  RowsHaveFile'
  BY <1>4 DEF UploadLockNote, Reply, Goto
<1>5. ASSUME NEW u \in Uploads, UploadCount(u)
      PROVE  RowsHaveFile'
  BY <1>5 DEF UploadCount, Reply, Goto
<1>6. ASSUME NEW u \in Uploads, UploadCommit(u)
      PROVE  RowsHaveFile'
  BY <1>6 DEF UploadCommit, Reply, Goto
<1>7. ASSUME NEW u \in Uploads, UploadUndo(u)
      PROVE  RowsHaveFile'
  BY <1>7 DEF UploadUndo, Unlink, Goto
<1>8. ASSUME NEW d \in Removals, RemoveRow(d)
      PROVE  RowsHaveFile'
  BY <1>8 DEF RemoveRow, Reply, Goto
<1>9. ASSUME NEW p \in Purges, PurgeList(p)
      PROVE  RowsHaveFile'
  BY <1>9 DEF PurgeList, Reply, Goto
<1>10. ASSUME NEW p \in Purges, PurgeNote(p)
      PROVE  RowsHaveFile'
  BY <1>10 DEF PurgeNote, Reply, Goto
<1>11. ASSUME NEW c \in Closures, CloseList(c)
      PROVE  RowsHaveFile'
  BY <1>11 DEF CloseList, Reply, Goto
<1>12. ASSUME NEW c \in Closures, CloseAccount(c)
      PROVE  RowsHaveFile'
  BY <1>12 DEF CloseAccount, Reply, Goto
<1>13. ASSUME NEW r \in Requests, UnlinkOne(r)
      PROVE  RowsHaveFile'
  BY <1>13 DEF UnlinkOne, Unlink, Goto
<1>14. ASSUME NEW r \in Requests, Disconnect(r)
      PROVE  RowsHaveFile'
  BY <1>14 DEF Disconnect
<1>15. ASSUME NEW n \in Notes, MoveToTrash(n)
      PROVE  RowsHaveFile'
  BY <1>15 DEF MoveToTrash
<1>16. ASSUME NEW n \in Notes, Restore(n)
      PROVE  RowsHaveFile'
  BY <1>16 DEF Restore
<1>17. CASE Crash
  BY <1>17 DEF Crash, Running, Ended
<1>18. CASE UNCHANGED vars
  BY <1>18 DEF vars
<1> QED
  BY <1>1, <1>2, <1>3, <1>4, <1>5, <1>6, <1>7, <1>8, <1>9, <1>10, <1>11,
     <1>12, <1>13, <1>14, <1>15, <1>16, <1>17, <1>18
  DEF Next, UploadStep, PurgeStep, CloseStep, Quiet

(* An attachment that has a row has its file, whatever goes wrong: uploads, *)
(* removals, purges, account deletions, clients that go away, a failing    *)
(* disk and crashes notwithstanding.  Only an upload that was reported as  *)
(* failed may have its row alone, and only if answers of the database get  *)
(* lost: UndoSafe is the part of the invariant that then fails.            *)
THEOREM FilesKept == Spec => []RowsHaveFile
<1> DEFINE Undone == "database" \notin Faults => UndoSafe
<1>1. Init => Undone /\ RowsHaveFile
  BY DEF Init, UndoSafe, RowsHaveFile, Requests
<1>2. /\ IInv /\ IInv'
      /\ Undone /\ RowsHaveFile
      /\ [Next]_vars
      => (Undone /\ RowsHaveFile)'
  BY UndoSafeStep, RowsHaveFileStep DEF IInv
<1>3. Spec => [](Undone /\ RowsHaveFile)
  <2> HIDE DEF Undone
  <2> QED
    BY <1>1, <1>2, Invariance, PTL DEF Spec
<1> QED
  BY <1>3, PTL

-----------------------------------------------------------------------------
(* The shelves as a state predicate of their own.                          *)
LEMMA ShelfTypes ==
    ASSUME TypeOK
    PROVE  /\ Readable \in [Notes -> SUBSET Uploads]
           /\ BeingUndone \in SUBSET Uploads
  BY DEF TypeOK, Readable, BeingUndone

(* A step of an upload that has no row yet, which adds none and touches no *)
(* file but its own, does not show on the shelves.                         *)
LEMMA NotYetOnShelf ==
    ASSUME TypeOK, TypeOK', NEW u \in Uploads,
           \A n \in Notes : u \notin rows[n],
           rows' = rows, note' = note,
           \A v \in Uploads : v # u => file'[v] = file[v] /\ pc'[v] = pc[v],
           \A v \in Uploads : v # u => (v \in cancelled' <=> v \in cancelled)
    PROVE  UNCHANGED Shelf!vars
<1>1. Readable' = Readable
  BY DEF TypeOK, Readable
<1>2. BeingUndone' = BeingUndone
  BY DEF TypeOK, BeingUndone
<1> QED
  BY <1>1, <1>2 DEF Shelf!vars

(* Nor does a step of another request that leaves the rows, the files of   *)
(* the rows and the progress of the uploads alone.                         *)
LEMMA OffTheShelf ==
    ASSUME TypeOK, TypeOK', rows' = rows, note' = note,
           \A n \in Notes : \A v \in rows[n] : file'[v] = file[v],
           \A v \in Uploads : pc'[v] = pc[v],
           \A v \in Uploads : (v \in cancelled' <=> v \in cancelled)
    PROVE  UNCHANGED Shelf!vars
<1>1. Readable' = Readable
  BY DEF TypeOK, Readable
<1>2. BeingUndone' = BeingUndone
  BY DEF TypeOK, BeingUndone
<1> QED
  BY <1>1, <1>2 DEF Shelf!vars

(* The commit of an upload puts its attachment on the shelf of its note,   *)
(* doubtful if only the answer was lost, or leaves everything as it is.    *)
LEMMA CommitAttaches ==
    ASSUME IInv, TypeOK', NEW u \in Uploads, UploadCommit(u)
    PROVE  Shelf!Attach(target[u], u) \/ UNCHANGED Shelf!vars
<1> USE DEF IInv, TypeOK, Requests, Steps
<1> DEFINE n == target[u]
<1>1. n \in Notes /\ note' = note /\ file' = file /\ pc[u] = "counted"
  BY DEF UploadCommit
<1>2. \A m \in Notes : u \notin rows[m]
  BY <1>1 DEF FileFirst, Beyond
<1>3. \A v \in Uploads : v # u => pc'[v] = pc[v] /\ (v \in cancelled' <=> v \in cancelled)
  BY DEF UploadCommit, Reply, Goto
<1>4. CASE rows' = rows
  BY <1>1, <1>2, <1>3, <1>4, NotYetOnShelf
<1>5. CASE rows' = [rows EXCEPT ![n] = @ \cup {u}]
  <2>1. note[n] = "live" /\ file[u] = "stored" /\ Cardinality(rows[n]) < MaxAttachments
    BY <1>1, RequestAssumption DEF LockHeld, FileFirst, RoomLeft
  <2>2. Readable' = [Readable EXCEPT ![n] = @ \cup {u}]
    BY <1>1, <1>5, <2>1 DEF Readable
  <2>3. Cardinality(Readable[n]) < MaxAttachments
    <3>1. /\ Cardinality(rows[n]) \in Nat
          /\ Cardinality(Readable[n]) \in Nat
          /\ Cardinality(Readable[n]) <= Cardinality(rows[n])
      <4>1. rows[n] \in SUBSET Uploads /\ Readable[n] \in SUBSET rows[n]
        BY <1>1 DEF Readable
      <4> QED
        BY <4>1, FewerRows
    <3> QED
      BY <2>1, <3>1, LimitAssumption
  <2>4. Shelf!Cardinality(Readable[n]) = Cardinality(Readable[n])
    BY DEF Cardinality, Shelf!Cardinality
  <2>5. \/ BeingUndone' = BeingUndone
        \/ "database" \in Faults /\ BeingUndone' = BeingUndone \cup {u}
    <3>1. \A v \in Uploads : v # u => (v \in BeingUndone' <=> v \in BeingUndone)
      BY <1>1, <1>3, <1>5 DEF BeingUndone
    <3>2. u \notin BeingUndone /\ BeingUndone \in SUBSET Uploads
      BY <1>1 DEF BeingUndone
    <3>3. BeingUndone' \in SUBSET Uploads
      BY DEF BeingUndone
    <3>4. u \in BeingUndone' => "database" \in Faults
      BY <1>1, <1>5 DEF UploadCommit, Reply, Goto, BeingUndone
    <3>5. CASE u \in BeingUndone'
      <4>1. \A v : v \in BeingUndone' <=> v \in BeingUndone \cup {u}
        BY <3>1, <3>2, <3>3, <3>5
      <4> QED
        BY <3>4, <3>5, <4>1
    <3>6. CASE u \notin BeingUndone'
      <4>1. \A v : v \in BeingUndone' <=> v \in BeingUndone
        BY <3>1, <3>2, <3>3, <3>6
      <4> QED
        BY <4>1
    <3> QED
      BY <3>5, <3>6
  <2>6. \A m \in Notes : u \notin Readable[m]
    BY <1>2 DEF Readable
  <2> QED
    BY <1>1, <2>1, <2>2, <2>3, <2>4, <2>5, <2>6 DEF Shelf!Attach
<1> QED
  BY <1>4, <1>5 DEF UploadCommit

(* Undoing an upload takes a doubtful attachment off its shelf, or leaves  *)
(* it there for good, or concerns a file that no row names.                *)
LEMMA UndoDrops ==
    ASSUME IInv, TypeOK', NEW u \in Uploads, UploadUndo(u)
    PROVE  Shelf!Drop(u) \/ Shelf!Settle \/ UNCHANGED Shelf!vars
<1> USE DEF IInv, TypeOK, Requests, Steps
<1>1. /\ rows' = rows /\ note' = note /\ cancelled' = cancelled
      /\ pc[u] = "undo" /\ pc'[u] = "failed"
      /\ \A v \in Uploads : v # u => file'[v] = file[v] /\ pc'[v] = pc[v]
  BY DEF UploadUndo, Unlink, Goto
<1>2. BeingUndone' = BeingUndone \ {u}
  BY <1>1 DEF BeingUndone
<1>3. CASE \A n \in Notes : u \notin rows[n]
  BY <1>1, <1>3, NotYetOnShelf
<1>4. CASE file' = file
  <2>1. Readable' = Readable
    BY <1>1, <1>4 DEF Readable
  <2> QED
    BY <1>1, <1>2, <2>1 DEF Shelf!Settle
<1>5. CASE (\E n \in Notes : u \in rows[n]) /\ file' # file
  <2>1. file' = [file EXCEPT ![u] = "none"] /\ u \notin cancelled
    BY <1>5 DEF UploadUndo, Unlink
  <2>2. u \in BeingUndone
    BY <1>1, <1>5, <2>1 DEF BeingUndone
  <2>3. Readable' = [n \in Notes |-> Readable[n] \ {u}]
    BY <1>1, <2>1 DEF Readable
  <2> QED
    BY <1>1, <1>2, <2>2, <2>3 DEF Shelf!Drop
<1> QED
  BY <1>3, <1>4, <1>5

(* A removal takes one attachment off the shelf of a live note; a row      *)
(* whose file is gone already was on no shelf.                             *)
LEMMA RemovalDetaches ==
    ASSUME IInv, RowsHaveFile, TypeOK', NEW d \in Removals, RemoveRow(d)
    PROVE  (\E u \in Uploads : Shelf!Detach(target[d], u)) \/ UNCHANGED Shelf!vars
<1> USE RequestAssumption DEF IInv, TypeOK, Requests, Steps
<1> DEFINE n == target[d]
<1>1. /\ n \in Notes /\ note' = note /\ file' = file
      /\ \A v \in Uploads : pc'[v] = pc[v] /\ (v \in cancelled' <=> v \in cancelled)
  BY DEF RemoveRow, Reply, Goto
<1>2. CASE rows' = rows
  BY <1>1, <1>2, OffTheShelf
<1>3. CASE rows' # rows
  <2>1. PICK u \in rows[n] : note[n] = "live" /\ rows' = [rows EXCEPT ![n] = @ \ {u}]
    BY <1>3 DEF RemoveRow
  <2>2. u \in Uploads /\ \A m \in Notes : u \in rows[m] => m = n
    BY <1>1, <2>1 DEF OwnNote
  <2>3. Readable' = [Readable EXCEPT ![n] = @ \ {u}]
    <3>1. /\ rows'[n] = rows[n] \ {u}
          /\ \A m \in Notes : m # n => rows'[m] = rows[m]
      BY <1>1, <2>1
    <3>2. \A m \in Notes : {v \in rows'[m] : file'[v] = "stored"}
                            = IF m = n THEN Readable[m] \ {u} ELSE Readable[m]
      BY <1>1, <3>1 DEF Readable
    <3> QED
      BY <1>1, <3>2 DEF Readable
  <2>4. BeingUndone' = BeingUndone \ {u}
    BY <1>1, <2>1, <2>2 DEF BeingUndone
  <2>5. CASE u \in Readable[n]
    BY <1>1, <2>1, <2>2, <2>3, <2>4, <2>5 DEF Shelf!Detach
  <2>6. CASE u \notin Readable[n]
    <3>1. pc[u] = "failed"
      BY <1>1, <2>1, <2>6 DEF Readable, RowsHaveFile
    <3>2. Readable' = Readable
      BY <1>1, <2>3, <2>6, ShelfTypes
    <3>3. BeingUndone' = BeingUndone
      BY <2>4, <3>1 DEF BeingUndone
    <3> QED
      BY <1>1, <3>2, <3>3 DEF Shelf!vars
  <2> QED
    BY <2>2, <2>5, <2>6
<1> QED
  BY <1>2, <1>3

(* A permanent deletion takes the shelf of the note away with the note.    *)
LEMMA PurgeErases ==
    ASSUME IInv, RowsHaveFile, TypeOK', NEW p \in Purges, PurgeNote(p)
    PROVE  Shelf!Erase(target[p]) \/ UNCHANGED Shelf!vars
<1> USE RequestAssumption DEF IInv, TypeOK, Requests, Steps
<1> DEFINE n == target[p]
<1>1. /\ n \in Notes /\ file' = file
      /\ \A v \in Uploads : pc'[v] = pc[v] /\ (v \in cancelled' <=> v \in cancelled)
  BY DEF PurgeNote, Reply, Goto
<1>2. CASE rows' = rows /\ note' = note
  BY <1>1, <1>2, OffTheShelf
<1>3. CASE /\ note[n] = "trashed"
           /\ note' = [note EXCEPT ![n] = "gone"]
           /\ rows' = [rows EXCEPT ![n] = {}]
  <2>1. Readable' = [Readable EXCEPT ![n] = {}]
    <3>1. \A m \in Notes : rows'[m] = IF m = n THEN {} ELSE rows[m]
      BY <1>3
    <3>2. \A m \in Notes : {v \in rows'[m] : file'[v] = "stored"}
                            = IF m = n THEN {} ELSE Readable[m]
      BY <1>1, <3>1 DEF Readable
    <3> QED
      BY <1>1, <3>2 DEF Readable
  <2>2. BeingUndone' = BeingUndone \ Readable[n]
    <3>1. \A v \in Uploads : v \in BeingUndone' <=> v \in BeingUndone /\ v \notin rows[n]
      <4>1. \A m \in Notes : \A v \in rows[m] : target[v] = m
        BY DEF OwnNote
      <4> QED
        BY <1>1, <1>3, <4>1 DEF BeingUndone
    <3>2. \A v \in BeingUndone : v \in rows[n] <=> v \in Readable[n]
      BY <1>1 DEF BeingUndone, Readable, RowsHaveFile
    <3> QED
      BY <3>1, <3>2 DEF BeingUndone
  <2> QED
    BY <1>1, <1>3, <2>1, <2>2 DEF Shelf!Erase
<1> QED
  BY <1>2, <1>3 DEF PurgeNote

(* The end of the account takes every shelf away at once.                  *)
LEMMA ClosingErasesAll ==
    ASSUME IInv, TypeOK', NEW c \in Closures, CloseAccount(c)
    PROVE  Shelf!EraseAll \/ UNCHANGED Shelf!vars
<1> USE RequestAssumption DEF IInv, TypeOK, Requests, Steps
<1>1. /\ file' = file
      /\ \A v \in Uploads : pc'[v] = pc[v] /\ (v \in cancelled' <=> v \in cancelled)
  BY DEF CloseAccount, Reply, Goto
<1>2. CASE rows' = rows /\ note' = note
  BY <1>1, <1>2, OffTheShelf
<1>3. CASE note' = [n \in Notes |-> "gone"] /\ rows' = [n \in Notes |-> {}]
  <2>1. Readable' = [n \in Notes |-> {}] /\ BeingUndone' = {}
    BY <1>3 DEF Readable, BeingUndone
  <2> QED
    BY <1>3, <2>1 DEF Shelf!EraseAll
<1> QED
  BY <1>2, <1>3 DEF CloseAccount

(* A step of a request, of the environment or of a crash is one step of    *)
(* the shelf, or none at all.                                              *)
LEMMA ShelfStep ==
    ASSUME IInv, RowsHaveFile, TypeOK', [Next]_vars
    PROVE  [Shelf!Next]_(Shelf!vars)
<1> USE RequestAssumption DEF TypeOK, IInv, Requests
<1>1. ASSUME NEW u \in Uploads, UploadStep(u), ~UploadCommit(u), ~UploadUndo(u)
      PROVE  [Shelf!Next]_(Shelf!vars)
  <2>1. \A n \in Notes : u \notin rows[n]
    BY <1>1 DEF FileFirst, Beyond, UploadStep, UploadCheck, UploadWriteTemp,
           UploadScanAndRename, UploadLockNote, UploadCount
  <2>2. /\ rows' = rows /\ note' = note
        /\ \A v \in Uploads : v # u => file'[v] = file[v] /\ pc'[v] = pc[v]
        /\ \A v \in Uploads : v # u => (v \in cancelled' <=> v \in cancelled)
    BY <1>1 DEF UploadStep, UploadCheck, UploadWriteTemp,
           UploadScanAndRename, UploadLockNote, UploadCount, Reply, Goto
  <2> QED
    BY <2>1, <2>2, NotYetOnShelf
<1>2. ASSUME NEW u \in Uploads, UploadCommit(u)
      PROVE  [Shelf!Next]_(Shelf!vars)
  BY <1>2, CommitAttaches DEF Shelf!Next
<1>3. ASSUME NEW u \in Uploads, UploadUndo(u)
      PROVE  [Shelf!Next]_(Shelf!vars)
  BY <1>3, UndoDrops DEF Shelf!Next
<1>4. ASSUME NEW d \in Removals, RemoveRow(d)
      PROVE  [Shelf!Next]_(Shelf!vars)
  BY <1>4, RemovalDetaches DEF Shelf!Next
<1>5. ASSUME NEW p \in Purges, PurgeList(p)
      PROVE  [Shelf!Next]_(Shelf!vars)
  BY <1>5, OffTheShelf DEF PurgeList, Reply, Goto
<1>6. ASSUME NEW p \in Purges, PurgeNote(p)
      PROVE  [Shelf!Next]_(Shelf!vars)
  BY <1>6, PurgeErases DEF Shelf!Next
<1>7. ASSUME NEW c \in Closures, CloseList(c)
      PROVE  [Shelf!Next]_(Shelf!vars)
  BY <1>7, OffTheShelf DEF CloseList, Reply, Goto
<1>8. ASSUME NEW c \in Closures, CloseAccount(c)
      PROVE  [Shelf!Next]_(Shelf!vars)
  BY <1>8, ClosingErasesAll DEF Shelf!Next
<1>9. ASSUME NEW r \in Requests, UnlinkOne(r)
      PROVE  [Shelf!Next]_(Shelf!vars)
  <2>1. r \notin Uploads /\ pc[r] = "unlink"
    BY <1>9 DEF UnlinkOne, RowFirst
  <2>2. /\ rows' = rows /\ note' = note /\ cancelled' = cancelled
        /\ \A v \in Uploads : pc'[v] = pc[v]
    BY <1>9, <2>1 DEF UnlinkOne, Goto
  <2>3. \A n \in Notes : \A v \in rows[n] : file'[v] = file[v]
    BY <1>9, <2>1 DEF UnlinkOne, Unlink, RowFirst
  <2> QED
    BY <2>2, <2>3, OffTheShelf
<1>10. ASSUME NEW r \in Requests, Disconnect(r)
      PROVE  [Shelf!Next]_(Shelf!vars)
  <2>1. Readable' = Readable /\ BeingUndone' \in SUBSET BeingUndone
    BY <1>10 DEF Disconnect, Readable, BeingUndone
  <2>2. Shelf!Settle
    BY <1>10, <2>1 DEF Disconnect, Shelf!Settle
  <2> QED
    BY <2>2 DEF Shelf!Next
<1>11. ASSUME NEW n \in Notes, MoveToTrash(n)
      PROVE  [Shelf!Next]_(Shelf!vars)
  <2>1. Readable' = Readable /\ BeingUndone' = BeingUndone
    BY <1>11 DEF MoveToTrash, Readable, BeingUndone
  <2>2. Shelf!Discard(n)
    BY <1>11, <2>1 DEF MoveToTrash, Shelf!Discard
  <2> QED
    BY <2>2 DEF Shelf!Next
<1>12. ASSUME NEW n \in Notes, Restore(n)
      PROVE  [Shelf!Next]_(Shelf!vars)
  <2>1. Readable' = Readable /\ BeingUndone' = BeingUndone
    BY <1>12 DEF Restore, Readable, BeingUndone
  <2>2. Shelf!Recover(n)
    BY <1>12, <2>1 DEF Restore, Shelf!Recover
  <2> QED
    BY <2>2 DEF Shelf!Next
<1>13. CASE Crash
  <2>1. Readable' = Readable /\ BeingUndone' = {}
    BY <1>13 DEF Crash, Running, Ended, Readable, BeingUndone
  <2>2. Shelf!Settle
    BY <1>13, <2>1 DEF Crash, Shelf!Settle
  <2> QED
    BY <2>2 DEF Shelf!Next
<1>14. CASE UNCHANGED vars
  BY <1>14, OffTheShelf DEF vars
<1> QED
  BY <1>1, <1>2, <1>3, <1>4, <1>5, <1>6, <1>7, <1>8, <1>9, <1>10, <1>11,
     <1>12, <1>13, <1>14
  DEF Next, PurgeStep, CloseStep, Quiet

(* NoteAttachments implements AttachmentShelf, under every combination of  *)
(* faults: for its user an attachment appears and disappears in one        *)
(* instant, on live notes only and within the limit, although row and file *)
(* are written and removed separately; one drops off a shelf by itself     *)
(* only if its upload took it for failed.                                  *)
THEOREM Implementation == Spec => ImplementsShelf
<1>1. Init => Shelf!Init
  BY DEF Init, Shelf!Init, Readable, BeingUndone, Requests
<1>2. IInv /\ IInv' /\ RowsHaveFile /\ [Next]_vars => [Shelf!Next]_(Shelf!vars)
  BY ShelfStep DEF IInv
<1> QED
  BY <1>1, <1>2, Invariance, FilesKept, PTL DEF Spec, Shelf!Spec, ImplementsShelf

-----------------------------------------------------------------------------
(* What no fault disturbs: an upload has its row only at its end, and no   *)
(* file before it is written or after it has failed.                       *)
Tidy ==
    /\ cancelled = {}
    /\ \A u \in Uploads : pc[u] # "done" => \A n \in Notes : u \notin rows[n]
    /\ \A u \in Uploads : pc[u] \in {"idle", "checked", "failed"} => file[u] = "none"

(* A stored file has its row, or somebody in charge of it, or lost its     *)
(* note.                                                                   *)
Accounted ==
    \A u \in Uploads : file[u] = "stored" =>
        u \in rows[target[u]] \/ InCharge(u) \/ note[target[u]] = "gone"

(* Without faults a call fails only where the code makes it fail.          *)
LEMMA TidyStep ==
    ASSUME Faults = {}, TypeOK, Tidy, [Next]_vars
    PROVE  Tidy'
<1> USE RequestAssumption DEF TypeOK, Tidy, Requests, Steps
<1>1. ASSUME NEW u \in Uploads, UploadCheck(u)
      PROVE  Tidy'
  BY <1>1 DEF UploadCheck, Reply, Goto
<1>2. ASSUME NEW u \in Uploads, UploadWriteTemp(u)
      PROVE  Tidy'
  BY <1>2 DEF UploadWriteTemp, Goto
<1>3. ASSUME NEW u \in Uploads, UploadScanAndRename(u)
      PROVE  Tidy'
  BY <1>3 DEF UploadScanAndRename, Goto
<1>4. ASSUME NEW u \in Uploads, UploadLockNote(u)
      PROVE  Tidy'
  BY <1>4 DEF UploadLockNote, Reply, Goto
<1>5. ASSUME NEW u \in Uploads, UploadCount(u)
      PROVE  Tidy'
  BY <1>5 DEF UploadCount, Reply, Goto
<1>6. ASSUME NEW u \in Uploads, UploadCommit(u)
      PROVE  Tidy'
  BY <1>6 DEF UploadCommit, Reply, Goto
<1>7. ASSUME NEW u \in Uploads, UploadUndo(u)
      PROVE  Tidy'
  BY <1>7 DEF UploadUndo, Unlink, Goto
<1>8. ASSUME NEW d \in Removals, RemoveRow(d)
      PROVE  Tidy'
  BY <1>8 DEF RemoveRow, Reply, Goto
<1>9. ASSUME NEW p \in Purges, PurgeList(p)
      PROVE  Tidy'
  BY <1>9 DEF PurgeList, Reply, Goto
<1>10. ASSUME NEW p \in Purges, PurgeNote(p)
      PROVE  Tidy'
  BY <1>10 DEF PurgeNote, Reply, Goto
<1>11. ASSUME NEW c \in Closures, CloseList(c)
      PROVE  Tidy'
  BY <1>11 DEF CloseList, Reply, Goto
<1>12. ASSUME NEW c \in Closures, CloseAccount(c)
      PROVE  Tidy'
  BY <1>12 DEF CloseAccount, Reply, Goto
<1>13. ASSUME NEW r \in Requests, UnlinkOne(r)
      PROVE  Tidy'
  BY <1>13 DEF UnlinkOne, Unlink, Goto
<1>14. ASSUME NEW r \in Requests, Disconnect(r)
      PROVE  Tidy'
  BY <1>14 DEF Disconnect
<1>15. ASSUME NEW n \in Notes, MoveToTrash(n)
      PROVE  Tidy'
  BY <1>15 DEF MoveToTrash
<1>16. ASSUME NEW n \in Notes, Restore(n)
      PROVE  Tidy'
  BY <1>16 DEF Restore
<1>17. CASE Crash
  BY <1>17 DEF Crash
<1>18. CASE UNCHANGED vars
  BY <1>18 DEF vars
<1> QED
  BY <1>1, <1>2, <1>3, <1>4, <1>5, <1>6, <1>7, <1>8, <1>9, <1>10, <1>11,
     <1>12, <1>13, <1>14, <1>15, <1>16, <1>17, <1>18
  DEF Next, UploadStep, PurgeStep, CloseStep, Quiet

(* Whoever takes a row away takes charge of the file, or the note goes.    *)
LEMMA AccountedStep ==
    ASSUME Faults = {}, TypeOK, TypeOK', Tidy, Tidy', OwnNote, Accounted, [Next]_vars
    PROVE  Accounted'
<1> USE RequestAssumption DEF TypeOK, Tidy, OwnNote, Accounted, InCharge, Requests, Steps
<1>1. ASSUME NEW u \in Uploads, UploadCheck(u)
      PROVE  Accounted'
  BY <1>1 DEF UploadCheck, Reply, Goto
<1>2. ASSUME NEW u \in Uploads, UploadWriteTemp(u)
      PROVE  Accounted'
  BY <1>2 DEF UploadWriteTemp, Goto
<1>3. ASSUME NEW u \in Uploads, UploadScanAndRename(u)
      PROVE  Accounted'
  BY <1>3 DEF UploadScanAndRename, Goto
<1>4. ASSUME NEW u \in Uploads, UploadLockNote(u)
      PROVE  Accounted'
  BY <1>4 DEF UploadLockNote, Reply, Goto
<1>5. ASSUME NEW u \in Uploads, UploadCount(u)
      PROVE  Accounted'
  BY <1>5 DEF UploadCount, Reply, Goto
<1>6. ASSUME NEW u \in Uploads, UploadCommit(u)
      PROVE  Accounted'
  BY <1>6 DEF UploadCommit, Reply, Goto
<1>7. ASSUME NEW u \in Uploads, UploadUndo(u)
      PROVE  Accounted'
  BY <1>7 DEF UploadUndo, Unlink, Goto
<1>8. ASSUME NEW d \in Removals, RemoveRow(d)
      PROVE  Accounted'
  BY <1>8 DEF RemoveRow, Reply, Goto
<1>9. ASSUME NEW p \in Purges, PurgeList(p)
      PROVE  Accounted'
  BY <1>9 DEF PurgeList, Reply, Goto
<1>10. ASSUME NEW p \in Purges, PurgeNote(p)
      PROVE  Accounted'
  BY <1>10 DEF PurgeNote, Reply, Goto
<1>11. ASSUME NEW c \in Closures, CloseList(c)
      PROVE  Accounted'
  BY <1>11 DEF CloseList, Reply, Goto
<1>12. ASSUME NEW c \in Closures, CloseAccount(c)
      PROVE  Accounted'
  BY <1>12 DEF CloseAccount, Reply, Goto
<1>13. ASSUME NEW r \in Requests, UnlinkOne(r)
      PROVE  Accounted'
  BY <1>13 DEF UnlinkOne, Unlink, Goto
<1>14. ASSUME NEW r \in Requests, Disconnect(r)
      PROVE  Accounted'
  BY <1>14 DEF Disconnect
<1>15. ASSUME NEW n \in Notes, MoveToTrash(n)
      PROVE  Accounted'
  BY <1>15 DEF MoveToTrash
<1>16. ASSUME NEW n \in Notes, Restore(n)
      PROVE  Accounted'
  BY <1>16 DEF Restore
<1>17. CASE Crash
  BY <1>17 DEF Crash
<1>18. CASE UNCHANGED vars
  BY <1>18 DEF vars
<1> QED
  BY <1>1, <1>2, <1>3, <1>4, <1>5, <1>6, <1>7, <1>8, <1>9, <1>10, <1>11,
     <1>12, <1>13, <1>14, <1>15, <1>16, <1>17, <1>18
  DEF Next, UploadStep, PurgeStep, CloseStep, Quiet

(* Both hold throughout.                                                   *)
LEMMA NothingLost ==
    ASSUME Faults = {}
    PROVE  Spec => [](Tidy /\ Accounted)
<1>1. Init => Tidy /\ Accounted
  BY DEF Init, Tidy, Accounted, Requests
<1>2. IInv /\ IInv' /\ Tidy /\ Accounted /\ [Next]_vars => (Tidy /\ Accounted)'
  BY TidyStep, AccountedStep DEF IInv
<1> QED
  BY <1>1, <1>2, Invariance, PTL DEF Spec

(* FailuresUndone: without faults an upload that reports an error, at      *)
(* whichever step, has left neither row nor file.                          *)
THEOREM FailuresUndone ==
    ASSUME Faults = {}
    PROVE  Spec => []FailedUploadLeavesNothing
<1>1. Tidy => FailedUploadLeavesNothing
  BY DEF Tidy, FailedUploadLeavesNothing
<1> QED
  BY <1>1, NothingLost, PTL

(* OrphansExplained: without faults no path of uploads and removals leaks  *)
(* a file; those left behind belong to notes deleted for good.             *)
THEOREM OrphansExplained ==
    ASSUME Faults = {}
    PROVE  Spec => []OrphansOnlyOfDeletedNotes
<1>1. TypeOK /\ Accounted => OrphansOnlyOfDeletedNotes
  BY DEF TypeOK, Accounted, Orphan, OrphansOnlyOfDeletedNotes, Requests
<1> QED
  BY <1>1, NothingLost, TypeCorrect, PTL

=============================================================================
