--------------------------- MODULE NoteLifecycleProofs ---------------------------
(***************************************************************************)
(* What NoteLifecycle guarantees for every set of notes, tags and requests *)
(* and under failing statements: a pin stays on the board, the tags of a   *)
(* note are those its content was saved with, and the code keeps the       *)
(* promise of Notebook.                                                    *)
(*                                                                         *)
(* The argument is one about locks.  Whoever writes a note that others see *)
(* holds its row, so that nobody else adds a link to it; whoever deletes   *)
(* or renames a tag holds its row, which no save has shared.  So a request *)
(* that unlinks has every link it must remove either still before it or    *)
(* under its lock, and a save that links has every tag it wants, as far as *)
(* it exists, before it, on the note or added.                             *)
(***************************************************************************)
EXTENDS NoteLifecycle, TLAPS, FiniteSetTheorems

(* Which statements requests of a kind get to, and with what target.       *)
Itinerary ==
    /\ \A s \in Saves :
          /\ pc[s] \in {"idle", "note", "unlink", "link", "ended"}
          /\ pc[s] \in {"note", "unlink", "link"} => target[s] \in Notes
          /\ pc[s] # "link" => added[s] = {}
    /\ \A m \in Moves : pc[m] \in {"idle", "ended"}
    /\ \A p \in Purges : pc[p] \in {"idle", "unlink", "ended"}
    /\ \A f \in TagForms : pc[f] \in {"idle", "name", "ended"}
    /\ \A d \in TagDeletes : pc[d] \in {"idle", "unlink", "ended"}

(* A note, a tag to be made is nowhere before the request that makes it    *)
(* has ended.                                                              *)
Newcomers ==
    /\ \A s \in Saves : pc[s] # "ended" =>
          /\ note[s] = Absent
          /\ content[s] = Absent
          /\ links[s] = {}
          /\ \A r \in Saves : target[r] = s => r = s
    /\ \A f \in TagForms : pc[f] # "ended" =>
          /\ f \notin Existing
          /\ \A s \in Saves : f \notin wanted[s]

(* Writing(s): the save is past the UPDATE, or the INSERT, of its note.    *)
Writing(s) == pc[s] \in {"unlink", "link"}

NoteHolders ==
    /\ \A s \in Saves : Writing(s) /\ target[s] # s =>
          noteLock[target[s]] = s /\ note[target[s]] \in Writable
    /\ \A p \in Purges : pc[p] = "unlink" =>
          /\ target[p] \in Notes
          /\ noteLock[target[p]] = p /\ note[target[p]] \in InTrash

TagLocked(r) == target[r] \in Existing /\ tagLock[target[r]] = r

TagsHeld ==
    /\ \A d \in TagDeletes : pc[d] = "unlink" => TagLocked(d)
    /\ \A f \in TagForms : pc[f] = "name" =>
          (target[f] = f \/ TagLocked(f)) /\ asked[f] \in Names
    /\ \A s \in Saves : \A t \in shared[s] : t \in Existing /\ tagLock[t] = NoRequest

(* The deletion of a tag locks links of that tag only.                     *)
LinksHeld ==
    /\ \A d \in TagDeletes : pc[d] = "unlink" => rest[d] \subseteq Notes \X {target[d]}
    /\ \A n \in Notes, t \in Tags : linkLock[n][t] \in TagDeletes =>
          pc[linkLock[n][t]] = "unlink" /\ target[linkLock[n][t]] = t

(* A link is still to be visited by r, or r has it under its lock.         *)
Reached(r, n, t) == (pc[r] = "unlink" /\ <<n, t>> \in rest[r]) \/ linkLock[n][t] = r

Unlinking ==
    /\ \A s \in Saves : Writing(s) =>
          \A t \in links[target[s]] \ wanted[s] : Reached(s, target[s], t)
    /\ \A p \in Purges : pc[p] = "unlink" =>
          \A t \in links[target[p]] : Reached(p, target[p], t)
    /\ \A d \in TagDeletes : pc[d] = "unlink" =>
          \A n \in Notes : target[d] \in links[n] => Reached(d, n, target[d])

(* A wanted tag is still to be linked by s, on the note already, or added. *)
Found(s, t) ==
    \/ <<target[s], t>> \in rest[s]
    \/ t \in links[target[s]] /\ linkLock[target[s]][t] # s
    \/ t \in added[s]

Linking ==
    \A s \in Saves :
        /\ shared[s] \subseteq added[s]
        /\ pc[s] = "link" =>
              /\ rest[s] \subseteq {target[s]} \X wanted[s]
              /\ added[s] \subseteq wanted[s]
              /\ \A t \in wanted[s] \cap Existing : Found(s, t)

(* The content of a note is that of a save that has ended.                 *)
Contents ==
    /\ \A s \in Saves : Cardinality(wanted[s]) <= MaxTags
    /\ \A n \in Notes : content[n] # Absent => pc[content[n]] = "ended"
    /\ \A n \in Notes : links[n] \subseteq Existing

IInv ==
    /\ TypeOK
    /\ Itinerary
    /\ Newcomers
    /\ NoteHolders
    /\ TagsHeld
    /\ LinksHeld
    /\ Unlinking
    /\ Linking
    /\ Contents
    /\ PinnedAreActive
    /\ LinksFitContent

-----------------------------------------------------------------------------
(* The kinds of requests and what is not a request, a row or a name.       *)
LEMMA Kinds ==
    /\ Saves \subseteq Requests /\ Moves \subseteq Requests /\ Purges \subseteq Requests
    /\ TagForms \subseteq Requests /\ TagDeletes \subseteq Requests
    /\ Saves \subseteq Notes /\ TagForms \subseteq Tags
    /\ \A s \in Saves : s \notin Moves /\ s \notin Purges /\ s \notin TagForms /\ s \notin TagDeletes
    /\ \A p \in Purges : p \notin Moves /\ p \notin TagForms /\ p \notin TagDeletes
    /\ \A f \in TagForms : f \notin Moves /\ f \notin TagDeletes
    /\ \A d \in TagDeletes : d \notin Moves
    /\ NoRequest \notin Requests
    /\ Absent \notin Notes /\ Absent \notin Tags /\ Absent \notin Names /\ Absent \notin Rows
  BY RequestAssumption, RowAssumption, AbsentAssumption DEF Disjoint, Requests, Notes, Tags

(* A request that ends without a change to the board takes nothing of the  *)
(* others along.                                                           *)
LEMMA AbortKeepsIInv ==
    ASSUME IInv, NEW r \in Requests, pc[r] # "ended", Abort(r)
    PROVE  IInv'
<1> USE Kinds DEF IInv
<1>1. TypeOK'
  BY DEF TypeOK, Abort, End, Freed, Goto, board, Steps
<1>2. Itinerary'
  BY <1>1 DEF TypeOK, Itinerary, Abort, End, Goto, board
<1>3. Newcomers'
  BY <1>1 DEF TypeOK, Newcomers, Existing, Abort, End, Goto, board
<1>4. NoteHolders'
  BY <1>1 DEF TypeOK, Itinerary, NoteHolders, Writing, Abort, End, Freed, Goto, board
<1>5. TagsHeld'
  BY <1>1 DEF TypeOK, TagsHeld, TagLocked, Existing, Abort, End, Freed, Goto, board
<1>6. LinksHeld'
  BY <1>1 DEF TypeOK, LinksHeld, Abort, End, Freed, Goto, board
<1>7. Unlinking'
  <2> USE DEF TypeOK, Abort, End, Freed, Goto, board, Reached
  <2>1. ASSUME NEW s \in Saves, Writing(s)', NEW t \in links[target[s]] \ wanted[s], s # r
        PROVE  Reached(s, target[s], t)'
    BY <2>1 DEF Itinerary, Unlinking, Writing
  <2>2. ASSUME NEW p \in Purges, (pc[p] = "unlink")', NEW t \in links[target[p]], p # r
        PROVE  Reached(p, target[p], t)'
    BY <2>2 DEF NoteHolders, Unlinking
  <2>3. ASSUME NEW d \in TagDeletes, (pc[d] = "unlink")', NEW n \in Notes,
               target[d] \in links[n], d # r
        PROVE  Reached(d, n, target[d])'
    BY <2>3 DEF TagsHeld, TagLocked, Existing, Unlinking
  <2>4. /\ pc'[r] = "ended" /\ links' = links
        /\ \A q \in Requests \ {r} : target'[q] = target[q] /\ wanted'[q] = wanted[q]
    OBVIOUS
  <2> HIDE DEF TypeOK, Abort, End, Freed, Goto, board, Reached
  <2> QED
    BY <2>1, <2>2, <2>3, <2>4 DEF Unlinking, Writing
<1>8. Linking'
  BY <1>1 DEF TypeOK, Itinerary, Linking, Found, Existing, Abort, End, Freed, Goto, board
<1>9. Contents'
  BY <1>1, FS_EmptySet, RowAssumption DEF TypeOK, Contents, Existing, Abort, End, Goto, board
<1>10. PinnedAreActive'
  BY DEF PinnedAreActive, Abort, board
<1>11. LinksFitContent'
  BY <1>1 DEF TypeOK, Contents, LinksFitContent, Existing, Abort, board
<1> QED
  BY <1>1, <1>2, <1>3, <1>4, <1>5, <1>6, <1>7, <1>8, <1>9, <1>10, <1>11

(* A form is refused.                                                      *)
LEMMA RefuseKeepsIInv ==
    ASSUME IInv, NEW s \in Saves, pc[s] = "idle", Goto(s, "ended"), UNCHANGED <<wanted, target>>,
           UNCHANGED <<board, locks, asked, progress>>
    PROVE  IInv'
<1> USE Kinds DEF IInv
<1>1. TypeOK'
  BY DEF TypeOK, Steps, Goto, board, locks, progress
<1>2. Itinerary'
  BY <1>1 DEF TypeOK, Itinerary, Goto, board, locks, progress
<1>3. Newcomers'
  BY <1>1 DEF TypeOK, Newcomers, Existing, Goto, board, locks, progress
<1>4. NoteHolders'
  BY <1>1 DEF TypeOK, Itinerary, NoteHolders, Writing, Goto, board, locks, progress
<1>5. TagsHeld'
  BY <1>1 DEF TypeOK, TagsHeld, TagLocked, Existing, Goto, board, locks, progress
<1>6. LinksHeld'
  BY <1>1 DEF TypeOK, LinksHeld, Goto, board, locks, progress
<1>7. Unlinking'
  BY <1>1 DEF TypeOK, Itinerary, Unlinking, Writing, Reached, Goto, board, locks, progress
<1>8. Linking'
  BY <1>1 DEF TypeOK, Itinerary, Linking, Found, Existing, Goto, board, locks, progress
<1>9. Contents'
  BY <1>1 DEF TypeOK, Contents, Existing, Goto, board, locks, progress
<1>10. PinnedAreActive'
  BY <1>1 DEF PinnedAreActive, Goto, board, locks, progress
<1>11. LinksFitContent'
  BY <1>1 DEF TypeOK, Contents, LinksFitContent, Existing, Goto, board, locks, progress
<1> QED
  BY <1>1, <1>2, <1>3, <1>4, <1>5, <1>6, <1>7, <1>8, <1>9, <1>10, <1>11

(* A form is accepted with tags that exist.                                *)
LEMMA AcceptKeepsIInv ==
    ASSUME IInv, NEW s \in Saves, pc[s] = "idle",
           NEW W \in SUBSET Existing, Cardinality(W) <= MaxTags,
           NEW n \in Present \cup {s},
           wanted' = [wanted EXCEPT ![s] = W], target' = [target EXCEPT ![s] = n],
           Goto(s, IF n = s THEN "unlink" ELSE "note"),
           UNCHANGED <<board, locks, asked, progress>>
    PROVE  IInv'
<1> USE Kinds DEF IInv
<1>1. TypeOK'
  BY DEF TypeOK, Steps, Present, Existing, Goto, board, locks, progress
<1>2. Itinerary'
  BY <1>1 DEF TypeOK, Itinerary, Present, Goto, board, locks, progress
<1>3. Newcomers'
  BY <1>1 DEF TypeOK, Newcomers, Existing, Present, Goto, board, locks, progress
<1>4. NoteHolders'
  BY <1>1 DEF TypeOK, Itinerary, NoteHolders, Writing, Newcomers, Present, Goto, board, locks, progress
<1>5. TagsHeld'
  BY <1>1 DEF TypeOK, TagsHeld, TagLocked, Existing, Goto, board, locks, progress
<1>6. LinksHeld'
  BY <1>1 DEF TypeOK, LinksHeld, Goto, board, locks, progress
<1>7. Unlinking'
  BY <1>1 DEF TypeOK, Itinerary, Unlinking, Writing, Reached, Newcomers, Present, Goto, board, locks, progress
<1>8. Linking'
  BY <1>1 DEF TypeOK, Itinerary, Linking, Found, Existing, Goto, board, locks, progress
<1>9. Contents'
  BY <1>1 DEF TypeOK, Contents, Existing, Goto, board, locks, progress
<1>10. PinnedAreActive'
  BY <1>1 DEF PinnedAreActive, Goto, board, locks, progress
<1>11. LinksFitContent'
  BY <1>1 DEF TypeOK, Contents, LinksFitContent, Existing, Goto, board, locks, progress
<1> QED
  BY <1>1, <1>2, <1>3, <1>4, <1>5, <1>6, <1>7, <1>8, <1>9, <1>10, <1>11

(* POST /note up to the repository.                                        *)
LEMMA ValidateKeepsIInv ==
    ASSUME IInv, NEW s \in Saves, Validate(s)
    PROVE  IInv'
<1>1. CASE Goto(s, "ended") /\ UNCHANGED <<wanted, target>>
  BY <1>1, RefuseKeepsIInv DEF Validate
<1>2. CASE ~(Goto(s, "ended") /\ UNCHANGED <<wanted, target>>)
  <2>1. PICK W \in SUBSET Tags : ValidSelection(W) /\ wanted' = [wanted EXCEPT ![s] = W]
    BY <1>2 DEF Validate
  <2>2. PICK n \in Present \cup {s} :
           /\ target' = [target EXCEPT ![s] = n]
           /\ Goto(s, IF n = s THEN "unlink" ELSE "note")
    BY <1>2 DEF Validate
  <2> QED
    BY <2>1, <2>2, AcceptKeepsIInv DEF Validate, ValidSelection
<1> QED
  BY <1>1, <1>2

(* A save or a permanent deletion takes the row of its note.               *)
LEMMA LockNoteKeepsIInv ==
    ASSUME IInv, NEW r \in Saves \cup Purges, NEW n \in Notes, NEW doomed \in SUBSET Tags,
           noteLock[n] = NoRequest, LockNote(r, n, doomed),
           pc[r] \in {"idle", "note"},
           r \in Saves => /\ note[n] \in Writable /\ target[r] = n /\ target' = target
                         /\ pc[r] = "note" /\ doomed = links[n] \ wanted[r],
           r \in Purges => /\ note[n] \in InTrash /\ doomed = links[n]
                          /\ target' = [target EXCEPT ![r] = n]
    PROVE  IInv'
<1> USE Kinds DEF IInv
<1>1. TypeOK'
  BY DEF TypeOK, Steps, LockNote, Goto, board
<1>2. Itinerary'
  BY <1>1 DEF TypeOK, Itinerary, LockNote, Goto, board
<1>3. Newcomers'
  BY <1>1 DEF TypeOK, Newcomers, Existing, LockNote, Goto, board
<1>4. NoteHolders'
  BY <1>1 DEF TypeOK, Itinerary, NoteHolders, Writing, Newcomers, LockNote, Goto, board
<1>5. TagsHeld'
  BY <1>1 DEF TypeOK, TagsHeld, TagLocked, Existing, LockNote, Goto, board
<1>6. LinksHeld'
  BY <1>1 DEF TypeOK, LinksHeld, LockNote, Goto, board
<1>7. Unlinking'
  BY <1>1 DEF TypeOK, Itinerary, Unlinking, Writing, Reached, NoteHolders, LockNote, Goto, board
<1>8. Linking'
  BY <1>1 DEF TypeOK, Itinerary, Linking, Found, Existing, LockNote, Goto, board
<1>9. Contents'
  BY <1>1 DEF TypeOK, Contents, Existing, LockNote, Goto, board
<1>10. PinnedAreActive'
  BY <1>1 DEF PinnedAreActive, LockNote, Goto, board
<1>11. LinksFitContent'
  BY <1>1 DEF TypeOK, Contents, LinksFitContent, Existing, LockNote, Goto, board
<1> QED
  BY <1>1, <1>2, <1>3, <1>4, <1>5, <1>6, <1>7, <1>8, <1>9, <1>10, <1>11

(* A link is deleted, or found to be gone.                                 *)
LEMMA UnlinkKeepsIInv ==
    ASSUME IInv, NEW r \in Saves \cup Purges \cup TagDeletes, UnlinkOne(r)
    PROVE  IInv'
<1> USE Kinds DEF IInv
<1>1. TypeOK'
  BY DEF TypeOK, Steps, UnlinkOne, board, inputs
<1>2. Itinerary'
  BY <1>1 DEF TypeOK, Itinerary, UnlinkOne, board, inputs
<1>3. Newcomers'
  BY <1>1 DEF TypeOK, Newcomers, Existing, UnlinkOne, board, inputs
<1>4. NoteHolders'
  BY <1>1 DEF TypeOK, Itinerary, NoteHolders, Writing, UnlinkOne, board, inputs
<1>5. TagsHeld'
  BY <1>1 DEF TypeOK, TagsHeld, TagLocked, Existing, UnlinkOne, board, inputs
<1>6. LinksHeld'
  BY <1>1 DEF TypeOK, LinksHeld, UnlinkOne, board, inputs
<1>7. Unlinking'
  BY <1>1 DEF TypeOK, Itinerary, Unlinking, Writing, Reached, UnlinkOne, board, inputs
<1>8. Linking'
  BY <1>1 DEF TypeOK, Itinerary, Linking, Found, Existing, UnlinkOne, board, inputs
<1>9. Contents'
  BY <1>1 DEF TypeOK, Contents, Existing, UnlinkOne, board, inputs
<1>10. PinnedAreActive'
  BY <1>1 DEF PinnedAreActive, UnlinkOne, board, inputs
<1>11. LinksFitContent'
  BY <1>1 DEF TypeOK, Contents, LinksFitContent, Existing, UnlinkOne, board, inputs
<1> QED
  BY <1>1, <1>2, <1>3, <1>4, <1>5, <1>6, <1>7, <1>8, <1>9, <1>10, <1>11

(* The INSERT of a save takes its rows.                                    *)
LEMMA StartLinkingKeepsIInv ==
    ASSUME IInv, NEW s \in Saves, StartLinking(s)
    PROVE  IInv'
<1> USE Kinds DEF IInv
<1>1. TypeOK'
  BY DEF TypeOK, Steps, Itinerary, Existing, StartLinking, Goto, board, locks, inputs
<1>2. Itinerary'
  BY <1>1 DEF TypeOK, Itinerary, StartLinking, Goto, board, locks, inputs
<1>3. Newcomers'
  BY <1>1 DEF TypeOK, Newcomers, Existing, StartLinking, Goto, board, locks, inputs
<1>4. NoteHolders'
  BY <1>1 DEF TypeOK, Itinerary, NoteHolders, Writing, StartLinking, Goto, board, locks, inputs
<1>5. TagsHeld'
  BY <1>1 DEF TypeOK, TagsHeld, TagLocked, Existing, StartLinking, Goto, board, locks, inputs
<1>6. LinksHeld'
  BY <1>1 DEF TypeOK, LinksHeld, StartLinking, Goto, board, locks, inputs
<1>7. Unlinking'
  BY <1>1 DEF TypeOK, Itinerary, Unlinking, Writing, Reached, StartLinking, Goto, board, locks, inputs
<1>8. Linking'
  BY <1>1 DEF TypeOK, Itinerary, Linking, Found, Existing, StartLinking, Goto, board, locks, inputs
<1>9. Contents'
  BY <1>1 DEF TypeOK, Contents, Existing, StartLinking, Goto, board, locks, inputs
<1>10. PinnedAreActive'
  BY <1>1 DEF PinnedAreActive, StartLinking, Goto, board, locks, inputs
<1>11. LinksFitContent'
  BY <1>1 DEF TypeOK, Contents, LinksFitContent, Existing, StartLinking, Goto, board, locks, inputs
<1> QED
  BY <1>1, <1>2, <1>3, <1>4, <1>5, <1>6, <1>7, <1>8, <1>9, <1>10, <1>11

(* A link is inserted, or found to be there.                               *)
LEMMA LinkKeepsIInv ==
    ASSUME IInv, NEW s \in Saves, LinkOne(s)
    PROVE  IInv'
<1> USE Kinds DEF IInv
<1>1. TypeOK'
  BY DEF TypeOK, Steps, LinkOne, board, locks, inputs
<1>2. Itinerary'
  BY <1>1 DEF TypeOK, Itinerary, LinkOne, board, locks, inputs
<1>3. Newcomers'
  BY <1>1 DEF TypeOK, Newcomers, Existing, LinkOne, board, locks, inputs
<1>4. NoteHolders'
  BY <1>1 DEF TypeOK, Itinerary, NoteHolders, Writing, LinkOne, board, locks, inputs
<1>5. TagsHeld'
  BY <1>1 DEF TypeOK, TagsHeld, TagLocked, Existing, LinkOne, board, locks, inputs
<1>6. LinksHeld'
  BY <1>1 DEF TypeOK, LinksHeld, LinkOne, board, locks, inputs
<1>7. Unlinking'
  BY <1>1 DEF TypeOK, Itinerary, Unlinking, Writing, Reached, LinkOne, board, locks, inputs
<1>8. Linking'
  BY <1>1 DEF TypeOK, Itinerary, Linking, Found, Existing, LinkOne, board, locks, inputs
<1>9. Contents'
  BY <1>1 DEF TypeOK, Contents, Existing, LinkOne, board, locks, inputs
<1>10. PinnedAreActive'
  BY <1>1 DEF PinnedAreActive, LinkOne, board, locks, inputs
<1>11. LinksFitContent'
  BY <1>1 DEF TypeOK, Contents, LinksFitContent, Existing, LinkOne, board, locks, inputs
<1> QED
  BY <1>1, <1>2, <1>3, <1>4, <1>5, <1>6, <1>7, <1>8, <1>9, <1>10, <1>11

(* The foreign key of a link shares its tag.                               *)
LEMMA ShareKeepsIInv ==
    ASSUME IInv, NEW s \in Saves, pc[s] = "link", rest[s] = {}, NEW t \in added[s],
           tagLock[t] = NoRequest, t \in Existing,
           shared' = [shared EXCEPT ![s] = @ \cup {t}],
           UNCHANGED <<board, locks, pc, inputs, rest, added>>
    PROVE  IInv'
<1> USE Kinds DEF IInv
<1>1. TypeOK'
  BY DEF TypeOK, Steps, board, locks, inputs
<1>2. Itinerary'
  BY <1>1 DEF TypeOK, Itinerary, board, locks, inputs
<1>3. Newcomers'
  BY <1>1 DEF TypeOK, Newcomers, Existing, board, locks, inputs
<1>4. NoteHolders'
  BY <1>1 DEF TypeOK, Itinerary, NoteHolders, Writing, board, locks, inputs
<1>5. TagsHeld'
  BY <1>1 DEF TypeOK, TagsHeld, TagLocked, Existing, board, locks, inputs
<1>6. LinksHeld'
  BY <1>1 DEF TypeOK, LinksHeld, board, locks, inputs
<1>7. Unlinking'
  BY <1>1 DEF TypeOK, Itinerary, Unlinking, Writing, Reached, board, locks, inputs
<1>8. Linking'
  BY <1>1 DEF TypeOK, Itinerary, Linking, Found, Existing, board, locks, inputs
<1>9. Contents'
  BY <1>1 DEF TypeOK, Contents, Existing, board, locks, inputs
<1>10. PinnedAreActive'
  BY <1>1 DEF PinnedAreActive, board, locks, inputs
<1>11. LinksFitContent'
  BY <1>1 DEF TypeOK, Contents, LinksFitContent, Existing, board, locks, inputs
<1> QED
  BY <1>1, <1>2, <1>3, <1>4, <1>5, <1>6, <1>7, <1>8, <1>9, <1>10, <1>11

(* What a save leaves on its note is what it wanted, as far as it exists.  *)
LEMMA SavedLinks ==
    ASSUME IInv, NEW s \in Saves, CommitSave(s)
    PROVE  Kept(s, target[s]) \cup added[s] = wanted[s] \cap Existing
<1> USE Kinds DEF IInv
<1>1. target[s] \in Notes /\ wanted[s] \subseteq Tags
  BY DEF TypeOK, Itinerary, CommitSave
<1>2. Kept(s, target[s]) \subseteq wanted[s] \cap Existing
  BY <1>1 DEF Kept, CommitSave, Unlinking, Writing, Reached, Contents
<1>3. added[s] \subseteq wanted[s] \cap Existing
  BY DEF CommitSave, Linking, TagsHeld
<1>4. wanted[s] \cap Existing \subseteq Kept(s, target[s]) \cup added[s]
  BY <1>1 DEF CommitSave, Linking, Found, Kept
<1> QED
  BY <1>2, <1>3, <1>4

(* Nobody else is at work on the note a save commits.                      *)
LEMMA SaveAlone ==
    ASSUME IInv, NEW s \in Saves, Writing(s)
    PROVE  /\ \A q \in Saves \ {s} : Writing(q) => target[q] # target[s]
           /\ \A p \in Purges : pc[p] = "unlink" => target[p] # target[s]
  BY Kinds DEF IInv, Itinerary, Newcomers, NoteHolders, Writing, Writable, InTrash, Rows

(* What the end of request r leaves of it and of the others.               *)
Ended(r) ==
    /\ \A n \in Notes : noteLock'[n] = IF noteLock[n] = r THEN NoRequest ELSE noteLock[n]
    /\ \A n \in Notes, t \in Tags :
          linkLock'[n][t] = IF linkLock[n][t] = r THEN NoRequest ELSE linkLock[n][t]
    /\ \A t \in Tags : tagLock'[t] = IF tagLock[t] = r THEN NoRequest ELSE tagLock[t]
    /\ pc'[r] = "ended" /\ added'[r] = {} /\ shared'[r] = {} /\ rest'[r] = {}
    /\ target'[r] = Absent
    /\ \A q \in Requests : q # r =>
          /\ pc'[q] = pc[q] /\ target'[q] = target[q] /\ asked'[q] = asked[q]
          /\ rest'[q] = rest[q] /\ added'[q] = added[q] /\ shared'[q] = shared[q]

(* And so it is.                                                           *)
LEMMA EndEffect ==
    ASSUME TypeOK, NEW r \in Requests, End(r)
    PROVE  Ended(r)
  BY DEF TypeOK, End, Freed, Goto, Ended

(* The variables that belong to requests keep their types at an end.       *)
LEMMA EndTypes ==
    ASSUME TypeOK, NEW r \in Requests, End(r)
    PROVE  /\ noteLock' \in [Notes -> Requests \cup {NoRequest}]
           /\ linkLock' \in [Notes -> [Tags -> Requests \cup {NoRequest}]]
           /\ tagLock' \in [Tags -> Requests \cup {NoRequest}]
           /\ pc' \in [Requests -> Steps]
           /\ target' \in [Requests -> Notes \cup Tags \cup {Absent}]
           /\ asked' \in [Requests -> Names \cup {Absent}]
           /\ rest' \in [Requests -> SUBSET (Notes \X Tags)]
           /\ added' \in [Requests -> SUBSET Tags]
           /\ shared' \in [Requests -> SUBSET Tags]
  BY DEF TypeOK, End, Freed, Goto, Steps

(* The COMMIT of a save.                                                   *)
LEMMA CommitSaveKeepsIInv ==
    ASSUME IInv, NEW s \in Saves, CommitSave(s)
    PROVE  IInv'
<1> DEFINE n == target[s]
<1> USE Kinds DEF IInv
<1>1. /\ pc[s] = "link" /\ n \in Notes
      /\ wanted' = wanted /\ name' = name /\ Existing' = Existing
      /\ note' = IF n = s THEN [note EXCEPT ![s] = Fresh] ELSE note
      /\ content' = [content EXCEPT ![n] = s]
      /\ links' = [links EXCEPT ![n] = wanted[s] \cap Existing]
  BY SavedLinks DEF TypeOK, Itinerary, Newcomers, CommitSave, Existing
<1>2. /\ \A q \in Saves \ {s} : Writing(q) => target[q] # n
      /\ \A p \in Purges : pc[p] = "unlink" => target[p] # n
  BY <1>1, SaveAlone DEF Writing
<1>3. End(s) /\ Ended(s)
  BY EndEffect DEF CommitSave
<1> HIDE DEF n
<1>4. /\ note'[n] = (IF n = s THEN Fresh ELSE note[n])
      /\ content'[n] = s
      /\ links'[n] = wanted[s] \cap Existing
      /\ \A m \in Notes : m # n =>
            note'[m] = note[m] /\ content'[m] = content[m] /\ links'[m] = links[m]
  BY <1>1 DEF TypeOK
<1>5. TypeOK'
  <2>1. /\ note' \in [Notes -> Rows \cup {Absent}]
        /\ content' \in [Notes -> Saves \cup {Absent}]
        /\ links' \in [Notes -> SUBSET Tags]
        /\ name' \in [Tags -> Names \cup {Absent}]
        /\ wanted' \in [Requests -> SUBSET Tags]
    BY <1>1 DEF TypeOK, Fresh, Rows
  <2> QED
    BY <2>1, <1>3, EndTypes DEF TypeOK
<1>6. Itinerary'
  BY <1>3 DEF Ended, Itinerary
<1>7. Newcomers'
  <2>1. \A r \in Saves : pc[r] # "ended" => r = s \/ n # r
    BY <1>1 DEF Newcomers, n
  <2>2. \A r \in Saves : pc'[r] # "ended" => pc[r] # "ended" /\ r # s
    BY <1>3 DEF Ended
  <2>3. \A r \in Saves, q \in Saves : target'[q] = r => target[q] = r
    BY <1>3 DEF Ended
  <2>4. \A f \in TagForms : pc'[f] = pc[f]
    BY <1>3 DEF Ended
  <2> QED
    BY <1>1, <1>4, <2>1, <2>2, <2>3, <2>4 DEF Newcomers
<1>8. NoteHolders'
  BY <1>2, <1>3, <1>4 DEF Ended, Itinerary, NoteHolders, Writing
<1>9. TagsHeld'
  BY <1>1, <1>3 DEF Ended, TagsHeld, TagLocked, Existing
<1>10. LinksHeld'
  BY <1>3 DEF Ended, LinksHeld
<1>11. Unlinking'
  <2> USE DEF Ended, Reached
  <2>1. ASSUME NEW q \in Saves, Writing(q)', NEW t \in (links[target[q]] \ wanted[q])'
        PROVE  Reached(q, target[q], t)'
    <3>1. q # s /\ Writing(q) /\ target'[q] = target[q] /\ target[q] # n
      BY <1>2, <1>3, <2>1 DEF Writing
    <3>2. target[q] \in Notes /\ links'[target[q]] = links[target[q]]
      BY <1>4, <3>1 DEF Itinerary, Writing
    <3>3. t \in Tags /\ Reached(q, target[q], t)
      BY <1>1, <2>1, <3>1, <3>2 DEF TypeOK, Unlinking
    <3> QED
      BY <1>3, <3>1, <3>2, <3>3
  <2>2. ASSUME NEW p \in Purges, pc'[p] = "unlink", NEW t \in links'[target'[p]]
        PROVE  Reached(p, target[p], t)'
    <3>1. pc[p] = "unlink" /\ target'[p] = target[p] /\ target[p] # n /\ target[p] \in Notes
      BY <1>2, <1>3, <2>2 DEF NoteHolders
    <3>2. t \in Tags /\ Reached(p, target[p], t)
      BY <1>4, <2>2, <3>1 DEF TypeOK, Unlinking
    <3> QED
      BY <1>3, <3>1, <3>2
  <2>3. ASSUME NEW d \in TagDeletes, pc'[d] = "unlink", NEW m \in Notes, target'[d] \in links'[m]
        PROVE  Reached(d, m, target[d])'
    <3>1. pc[d] = "unlink" /\ target'[d] = target[d] /\ TagLocked(d) /\ target[d] \in Tags
      BY <1>3, <2>3 DEF TagsHeld, TagLocked, Existing
    <3>2. added[s] = shared[s] /\ links'[n] = Kept(s, n) \cup added[s]
      BY SavedLinks, <1>4 DEF CommitSave, n
    <3>3. target[d] \notin shared[s]
      BY <3>1 DEF TagsHeld, TagLocked
    <3>4. target[d] \in links[m]
      BY <1>4, <2>3, <3>1, <3>2, <3>3 DEF Kept
    <3> QED
      BY <1>3, <3>1, <3>4 DEF Unlinking
  <2> QED
    BY <2>1, <2>2, <2>3 DEF Unlinking
<1>12. Linking'
  <2>1. ASSUME NEW q \in Saves, pc'[q] = "link"
        PROVE  /\ rest'[q] \subseteq {target'[q]} \X wanted'[q]
               /\ added'[q] \subseteq wanted'[q]
               /\ \A t \in wanted'[q] \cap Existing' : Found(q, t)'
    <3>1. /\ q # s /\ pc[q] = "link" /\ target[q] # n /\ target[q] \in Notes
          /\ target'[q] = target[q] /\ rest'[q] = rest[q] /\ added'[q] = added[q]
      BY <1>2, <1>3, <2>1 DEF Ended, Writing, Itinerary
    <3>2. links'[target[q]] = links[target[q]]
      BY <1>4, <3>1
    <3>3. \A t \in Tags : linkLock'[target[q]][t] # q \/ linkLock[target[q]][t] = q
      BY <1>3, <3>1 DEF Ended
    <3>4. ASSUME NEW t \in wanted[q] \cap Existing
          PROVE  Found(q, t)'
      BY <3>1, <3>2, <3>3 DEF Linking, Found, Existing
    <3> QED
      BY <1>1, <3>1, <3>4 DEF Linking
  <2>2. \A q \in Saves : shared'[q] \subseteq added'[q]
    BY <1>3 DEF Ended, Linking
  <2> QED
    BY <2>1, <2>2 DEF Linking
<1>13. Contents'
  BY <1>1, <1>3, <1>4 DEF Ended, TypeOK, Contents
<1>14. PinnedAreActive'
  BY <1>4 DEF PinnedAreActive, Fresh, Active, Rows
<1>15. LinksFitContent'
  BY <1>1, <1>3, <1>4 DEF Ended, TypeOK, Contents, LinksFitContent
<1> QED
  BY <1>5, <1>6, <1>7, <1>8, <1>9, <1>10, <1>11, <1>12, <1>13, <1>14, <1>15

(* Whoever goes on has before it, and under its locks, what it had.        *)
LEMMA OthersReach ==
    ASSUME IInv, NEW r \in Requests, Ended(r), NEW q \in Requests, q # r,
           NEW n \in Notes, NEW t \in Tags, Reached(q, n, t)
    PROVE  Reached(q, n, t)'
  BY DEF Ended, Reached

(* A statement on one note.                                                *)
LEMMA ExecKeepsIInv ==
    ASSUME IInv, NEW m \in Moves, NEW n \in Notes, NEW from \in SUBSET Rows, NEW row,
           ExecNoteState(m, n, from, row),
           note[n] \in from => row \in Rows /\ (row.pinned => row \in Active)
    PROVE  IInv'
<1> USE Kinds DEF IInv
<1>1. /\ noteLock[n] = NoRequest /\ content' = content /\ links' = links
      /\ name' = name /\ wanted' = wanted /\ Existing' = Existing
      /\ note' = IF note[n] \in from THEN [note EXCEPT ![n] = row] ELSE note
  BY DEF ExecNoteState, Existing
<1>2. End(m) /\ Ended(m)
  BY EndEffect DEF ExecNoteState
<1>3. /\ note'[n] = note[n] \/ (note[n] \in from /\ note'[n] = row)
      /\ \A k \in Notes : k # n => note'[k] = note[k]
  BY <1>1 DEF TypeOK
<1>4. TypeOK'
  <2>1. note' \in [Notes -> Rows \cup {Absent}]
    BY <1>1 DEF TypeOK
  <2> QED
    BY <2>1, <1>1, <1>2, EndTypes DEF TypeOK
<1>5. Itinerary'
  BY <1>2 DEF Ended, Itinerary
<1>6. Newcomers'
  <2>1. \A s \in Saves : pc'[s] # "ended" => note'[s] = Absent
    BY <1>2, <1>3 DEF Ended, Newcomers
  <2>2. \A s \in Saves, q \in Saves : target'[q] = s => target[q] = s
    BY <1>2 DEF Ended
  <2>3. \A q \in Saves \cup TagForms : pc'[q] = pc[q]
    BY <1>2 DEF Ended
  <2> QED
    BY <1>1, <2>1, <2>2, <2>3 DEF Newcomers
<1>7. NoteHolders'
  BY <1>1, <1>2, <1>3 DEF Ended, Itinerary, NoteHolders, Writing
<1>8. TagsHeld'
  BY <1>1, <1>2 DEF Ended, TagsHeld, TagLocked, Existing
<1>9. LinksHeld'
  BY <1>2 DEF Ended, LinksHeld
<1>10. Unlinking'
  <2>1. ASSUME NEW q \in Saves, Writing(q)', NEW t \in (links[target[q]] \ wanted[q])'
        PROVE  Reached(q, target[q], t)'
    <3>1. q # m /\ Writing(q) /\ target'[q] = target[q] /\ target[q] \in Notes
      BY <1>2, <2>1 DEF Ended, Writing, Itinerary
    <3>2. t \in Tags /\ Reached(q, target[q], t)
      BY <1>1, <2>1, <3>1 DEF TypeOK, Unlinking
    <3> QED
      BY <1>2, <3>1, <3>2, OthersReach
  <2>2. ASSUME NEW p \in Purges, pc'[p] = "unlink", NEW t \in links'[target'[p]]
        PROVE  Reached(p, target[p], t)'
    <3>1. p # m /\ pc[p] = "unlink" /\ target'[p] = target[p] /\ target[p] \in Notes
      BY <1>2, <2>2 DEF Ended, NoteHolders
    <3>2. t \in Tags /\ Reached(p, target[p], t)
      BY <1>1, <2>2, <3>1 DEF TypeOK, Unlinking
    <3> QED
      BY <1>2, <3>1, <3>2, OthersReach
  <2>3. ASSUME NEW d \in TagDeletes, pc'[d] = "unlink", NEW k \in Notes, target'[d] \in links'[k]
        PROVE  Reached(d, k, target[d])'
    <3>1. d # m /\ pc[d] = "unlink" /\ target'[d] = target[d] /\ target[d] \in Tags
      BY <1>2, <2>3 DEF Ended, TagsHeld, TagLocked, Existing
    <3>2. Reached(d, k, target[d])
      BY <1>1, <2>3, <3>1 DEF Unlinking
    <3> QED
      BY <1>2, <3>1, <3>2, OthersReach
  <2> QED
    BY <2>1, <2>2, <2>3 DEF Unlinking
<1>11. Linking'
  <2>1. ASSUME NEW q \in Saves, pc'[q] = "link"
        PROVE  /\ rest'[q] \subseteq {target'[q]} \X wanted'[q]
               /\ added'[q] \subseteq wanted'[q]
               /\ \A t \in wanted'[q] \cap Existing' : Found(q, t)'
    <3>1. /\ q # m /\ pc[q] = "link" /\ target[q] \in Notes
          /\ target'[q] = target[q] /\ rest'[q] = rest[q] /\ added'[q] = added[q]
      BY <1>2, <2>1 DEF Ended, Itinerary
    <3>2. \A t \in Tags : linkLock'[target[q]][t] # q \/ linkLock[target[q]][t] = q
      BY <1>2, <3>1 DEF Ended
    <3>3. ASSUME NEW t \in wanted[q] \cap Existing
          PROVE  Found(q, t)'
      BY <1>1, <3>1, <3>2 DEF Linking, Found, Existing
    <3> QED
      BY <1>1, <3>1, <3>3 DEF Linking
  <2>2. \A q \in Saves : shared'[q] \subseteq added'[q]
    BY <1>2 DEF Ended, Linking
  <2> QED
    BY <2>1, <2>2 DEF Linking
<1>12. Contents'
  BY <1>1, <1>2 DEF Ended, TypeOK, Contents
<1>13. PinnedAreActive'
  BY <1>3 DEF PinnedAreActive
<1>14. LinksFitContent'
  BY <1>1 DEF LinksFitContent
<1> QED
  BY <1>4, <1>5, <1>6, <1>7, <1>8, <1>9, <1>10, <1>11, <1>12, <1>13, <1>14

(* The COMMIT of a permanent deletion: no link is left.                    *)
LEMMA CommitPurgeKeepsIInv ==
    ASSUME IInv, NEW p \in Purges, CommitPurge(p)
    PROVE  IInv'
<1> DEFINE n == target[p]
<1> USE Kinds DEF IInv
<1>1. /\ pc[p] = "unlink" /\ n \in Notes
      /\ wanted' = wanted /\ name' = name /\ Existing' = Existing
      /\ note' = [note EXCEPT ![n] = Absent]
      /\ content' = [content EXCEPT ![n] = Absent]
      /\ links' = [links EXCEPT ![n] = {}]
  <2>1. pc[p] = "unlink" /\ n \in Notes /\ rest[p] = {}
    BY DEF CommitPurge, NoteHolders
  <2>2. Kept(p, n) = {}
    BY <2>1 DEF Kept, Unlinking, Reached
  <2> QED
    BY <2>1, <2>2 DEF CommitPurge, Existing
<1>2. \A q \in Saves : Writing(q) => target[q] # n
  BY <1>1, SaveAlone DEF Writing
<1>3. \A q \in Purges : q # p /\ pc[q] = "unlink" => target[q] # n
  BY <1>1 DEF NoteHolders
<1>4. End(p) /\ Ended(p)
  BY EndEffect DEF CommitPurge
<1> HIDE DEF n
<1>5. /\ note'[n] = Absent /\ content'[n] = Absent /\ links'[n] = {}
      /\ \A m \in Notes : m # n =>
            note'[m] = note[m] /\ content'[m] = content[m] /\ links'[m] = links[m]
  BY <1>1 DEF TypeOK
<1>6. TypeOK'
  <2>1. /\ note' \in [Notes -> Rows \cup {Absent}]
        /\ content' \in [Notes -> Saves \cup {Absent}]
        /\ links' \in [Notes -> SUBSET Tags]
    BY <1>1 DEF TypeOK
  <2> QED
    BY <2>1, <1>1, <1>4, EndTypes DEF TypeOK
<1>7. Itinerary'
  BY <1>4 DEF Ended, Itinerary
<1>8. Newcomers'
  <2>1. \A s \in Saves : pc'[s] # "ended" =>
           note'[s] = Absent /\ content'[s] = Absent /\ links'[s] = {}
    BY <1>4, <1>5 DEF Ended, Newcomers
  <2>2. \A s \in Saves, q \in Saves : target'[q] = s => target[q] = s
    BY <1>4 DEF Ended
  <2>3. \A q \in Saves \cup TagForms : pc'[q] = pc[q]
    BY <1>4 DEF Ended
  <2> QED
    BY <1>1, <2>1, <2>2, <2>3 DEF Newcomers
<1>9. NoteHolders'
  BY <1>2, <1>3, <1>4, <1>5 DEF Ended, Itinerary, NoteHolders, Writing
<1>10. TagsHeld'
  BY <1>1, <1>4 DEF Ended, TagsHeld, TagLocked, Existing
<1>11. LinksHeld'
  BY <1>4 DEF Ended, LinksHeld
<1>12. Unlinking'
  <2>1. ASSUME NEW q \in Saves, Writing(q)', NEW t \in (links[target[q]] \ wanted[q])'
        PROVE  Reached(q, target[q], t)'
    <3>1. /\ q # p /\ Writing(q) /\ target'[q] = target[q]
          /\ target[q] # n /\ target[q] \in Notes
      BY <1>2, <1>4, <2>1 DEF Ended, Writing, Itinerary
    <3>2. t \in Tags /\ Reached(q, target[q], t)
      BY <1>1, <1>5, <2>1, <3>1 DEF TypeOK, Unlinking
    <3> QED
      BY <1>4, <3>1, <3>2, OthersReach
  <2>2. ASSUME NEW q \in Purges, pc'[q] = "unlink", NEW t \in links'[target'[q]]
        PROVE  Reached(q, target[q], t)'
    <3>1. /\ q # p /\ pc[q] = "unlink" /\ target'[q] = target[q]
          /\ target[q] # n /\ target[q] \in Notes
      BY <1>3, <1>4, <2>2 DEF Ended, NoteHolders
    <3>2. t \in Tags /\ Reached(q, target[q], t)
      BY <1>5, <2>2, <3>1 DEF TypeOK, Unlinking
    <3> QED
      BY <1>4, <3>1, <3>2, OthersReach
  <2>3. ASSUME NEW d \in TagDeletes, pc'[d] = "unlink", NEW k \in Notes, target'[d] \in links'[k]
        PROVE  Reached(d, k, target[d])'
    <3>1. d # p /\ pc[d] = "unlink" /\ target'[d] = target[d] /\ target[d] \in Tags
      BY <1>4, <2>3 DEF Ended, TagsHeld, TagLocked, Existing
    <3>2. Reached(d, k, target[d])
      BY <1>5, <2>3, <3>1 DEF Unlinking
    <3> QED
      BY <1>4, <3>1, <3>2, OthersReach
  <2> QED
    BY <2>1, <2>2, <2>3 DEF Unlinking
<1>13. Linking'
  <2>1. ASSUME NEW q \in Saves, pc'[q] = "link"
        PROVE  /\ rest'[q] \subseteq {target'[q]} \X wanted'[q]
               /\ added'[q] \subseteq wanted'[q]
               /\ \A t \in wanted'[q] \cap Existing' : Found(q, t)'
    <3>1. /\ q # p /\ pc[q] = "link" /\ target[q] \in Notes /\ target[q] # n
          /\ target'[q] = target[q] /\ rest'[q] = rest[q] /\ added'[q] = added[q]
      BY <1>2, <1>4, <2>1 DEF Ended, Itinerary, Writing
    <3>2. \A t \in Tags : linkLock'[target[q]][t] # q \/ linkLock[target[q]][t] = q
      BY <1>4, <3>1 DEF Ended
    <3>3. links'[target[q]] = links[target[q]]
      BY <1>5, <3>1
    <3>4. ASSUME NEW t \in wanted[q] \cap Existing
          PROVE  Found(q, t)'
      BY <3>1, <3>2, <3>3 DEF Linking, Found, Existing
    <3> QED
      BY <1>1, <3>1, <3>4 DEF Linking
  <2>2. \A q \in Saves : shared'[q] \subseteq added'[q]
    BY <1>4 DEF Ended, Linking
  <2> QED
    BY <2>1, <2>2 DEF Linking
<1>14. Contents'
  BY <1>1, <1>4, <1>5 DEF Ended, TypeOK, Contents
<1>15. PinnedAreActive'
  BY <1>5 DEF PinnedAreActive
<1>16. LinksFitContent'
  BY <1>1, <1>5 DEF TypeOK, LinksFitContent
<1> QED
  BY <1>6, <1>7, <1>8, <1>9, <1>10, <1>11, <1>12, <1>13, <1>14, <1>15, <1>16

(* A deleted tag leaves the notes that had it, and no other tag does.      *)
LEMMA DeletedLinks ==
    ASSUME IInv, NEW d \in TagDeletes, CommitTagDelete(d), NEW n \in Notes
    PROVE  Kept(d, n) = links[n] \ {target[d]}
<1> USE Kinds DEF IInv
<1>1. target[d] \in links[n] => linkLock[n][target[d]] = d
  BY DEF CommitTagDelete, Unlinking, Reached
<1>2. \A t \in Tags : linkLock[n][t] = d => t = target[d]
  BY DEF LinksHeld
<1> QED
  BY <1>1, <1>2 DEF Kept, TypeOK

(* The COMMIT of the deletion of a tag.                                    *)
LEMMA CommitTagDeleteKeepsIInv ==
    ASSUME IInv, NEW d \in TagDeletes, CommitTagDelete(d)
    PROVE  IInv'
<1> DEFINE u == target[d]
<1> USE Kinds DEF IInv
<1>1. /\ pc[d] = "unlink" /\ u \in Existing /\ tagLock[u] = d
      /\ note' = note /\ content' = content /\ wanted' = wanted
      /\ name' = [name EXCEPT ![u] = Absent]
      /\ links' = [n \in Notes |-> links[n] \ {u}]
  BY DeletedLinks DEF CommitTagDelete, TagsHeld, TagLocked
<1>2. End(d) /\ Ended(d)
  BY EndEffect DEF CommitTagDelete
<1> HIDE DEF u
<1>3. Existing' = Existing \ {u} /\ \A n \in Notes : links'[n] = links[n] \ {u}
  BY <1>1 DEF TypeOK, Existing
<1>4. /\ \A q \in TagDeletes : q # d /\ pc[q] = "unlink" => target[q] # u
      /\ \A f \in TagForms : pc[f] = "name" => target[f] = f \/ target[f] # u
      /\ \A s \in Saves : u \notin shared[s]
  BY <1>1 DEF TagsHeld, TagLocked
<1>5. TypeOK'
  <2>1. name' \in [Tags -> Names \cup {Absent}] /\ links' \in [Notes -> SUBSET Tags]
    BY <1>1 DEF TypeOK
  <2> QED
    BY <2>1, <1>1, <1>2, EndTypes DEF TypeOK
<1>6. Itinerary'
  BY <1>2 DEF Ended, Itinerary
<1>7. Newcomers'
  <2>1. \A s \in Saves : pc'[s] # "ended" => links'[s] = {}
    BY <1>2, <1>3 DEF Ended, Newcomers
  <2>2. \A s \in Saves, q \in Saves : target'[q] = s => target[q] = s
    BY <1>2 DEF Ended
  <2>3. \A q \in Saves \cup TagForms : pc'[q] = pc[q]
    BY <1>2 DEF Ended
  <2> QED
    BY <1>1, <1>3, <2>1, <2>2, <2>3 DEF Newcomers
<1>8. NoteHolders'
  BY <1>1, <1>2 DEF Ended, Itinerary, NoteHolders, Writing
<1>9. TagsHeld'
  BY <1>2, <1>3, <1>4 DEF Ended, TagsHeld, TagLocked, Existing
<1>10. LinksHeld'
  BY <1>2 DEF Ended, LinksHeld
<1>11. Unlinking'
  <2>1. ASSUME NEW q \in Saves, Writing(q)', NEW t \in (links[target[q]] \ wanted[q])'
        PROVE  Reached(q, target[q], t)'
    <3>1. q # d /\ Writing(q) /\ target'[q] = target[q] /\ target[q] \in Notes
      BY <1>2, <2>1 DEF Ended, Writing, Itinerary
    <3>2. t \in Tags /\ Reached(q, target[q], t)
      BY <1>1, <1>3, <2>1, <3>1 DEF TypeOK, Unlinking
    <3> QED
      BY <1>2, <3>1, <3>2, OthersReach
  <2>2. ASSUME NEW q \in Purges, pc'[q] = "unlink", NEW t \in links'[target'[q]]
        PROVE  Reached(q, target[q], t)'
    <3>1. q # d /\ pc[q] = "unlink" /\ target'[q] = target[q] /\ target[q] \in Notes
      BY <1>2, <2>2 DEF Ended, NoteHolders
    <3>2. t \in Tags /\ Reached(q, target[q], t)
      BY <1>3, <2>2, <3>1 DEF TypeOK, Unlinking
    <3> QED
      BY <1>2, <3>1, <3>2, OthersReach
  <2>3. ASSUME NEW q \in TagDeletes, pc'[q] = "unlink", NEW k \in Notes, target'[q] \in links'[k]
        PROVE  Reached(q, k, target[q])'
    <3>1. q # d /\ pc[q] = "unlink" /\ target'[q] = target[q] /\ target[q] \in Tags
      BY <1>2, <2>3 DEF Ended, TagsHeld, TagLocked, Existing
    <3>2. Reached(q, k, target[q])
      BY <1>3, <2>3, <3>1 DEF Unlinking
    <3> QED
      BY <1>2, <3>1, <3>2, OthersReach
  <2> QED
    BY <2>1, <2>2, <2>3 DEF Unlinking
<1>12. Linking'
  <2>1. ASSUME NEW q \in Saves, pc'[q] = "link"
        PROVE  /\ rest'[q] \subseteq {target'[q]} \X wanted'[q]
               /\ added'[q] \subseteq wanted'[q]
               /\ \A t \in wanted'[q] \cap Existing' : Found(q, t)'
    <3>1. /\ q # d /\ pc[q] = "link" /\ target[q] \in Notes
          /\ target'[q] = target[q] /\ rest'[q] = rest[q] /\ added'[q] = added[q]
      BY <1>2, <2>1 DEF Ended, Itinerary
    <3>2. \A t \in Tags : linkLock'[target[q]][t] # q \/ linkLock[target[q]][t] = q
      BY <1>2, <3>1 DEF Ended
    <3>3. links'[target[q]] = links[target[q]] \ {u}
      BY <1>3, <3>1
    <3>4. ASSUME NEW t \in wanted[q] \cap Existing, t # u
          PROVE  Found(q, t)'
      BY <3>1, <3>2, <3>3, <3>4 DEF Linking, Found, Existing
    <3> QED
      BY <1>1, <1>3, <3>1, <3>4 DEF Linking
  <2>2. \A q \in Saves : shared'[q] \subseteq added'[q]
    BY <1>2 DEF Ended, Linking
  <2> QED
    BY <2>1, <2>2 DEF Linking
<1>13. Contents'
  BY <1>1, <1>2, <1>3 DEF Ended, TypeOK, Contents
<1>14. PinnedAreActive'
  BY <1>1 DEF PinnedAreActive
<1>15. LinksFitContent'
  BY <1>1, <1>3 DEF LinksFitContent
<1> QED
  BY <1>5, <1>6, <1>7, <1>8, <1>9, <1>10, <1>11, <1>12, <1>13, <1>14, <1>15

(* A tag takes a name: it was there, or nobody has wanted it yet.          *)
LEMMA TakeNameKeepsIInv ==
    ASSUME IInv, NEW f \in TagForms, TakeName(f)
    PROVE  IInv'
<1> DEFINE u == target[f]
<1> USE Kinds DEF IInv
<1>1. /\ pc[f] = "name" /\ u \in Tags /\ asked[f] \in Names
      /\ note' = note /\ content' = content /\ links' = links /\ wanted' = wanted
      /\ name' = [name EXCEPT ![u] = asked[f]] \/ name' = name
      /\ u = f \/ u \in Existing
  BY DEF TakeName, TagsHeld, TagLocked, Existing
<1>2. End(f) /\ Ended(f)
  BY EndEffect DEF TakeName
<1> HIDE DEF u
<1>3. /\ Existing' = Existing \/ (u = f /\ Existing' = Existing \cup {f})
      /\ \A s \in Saves : f \notin wanted[s]
      /\ f \notin Existing
  <2>1. f \notin Existing /\ \A s \in Saves : f \notin wanted[s]
    BY <1>1 DEF Newcomers
  <2>2. Existing' = Existing \/ Existing' = Existing \cup {u}
    BY <1>1 DEF TypeOK, Existing
  <2> QED
    BY <2>1, <2>2, <1>1
<1>4. TypeOK'
  <2>1. name' \in [Tags -> Names \cup {Absent}]
    BY <1>1 DEF TypeOK
  <2> QED
    BY <2>1, <1>1, <1>2, EndTypes DEF TypeOK
<1>5. Itinerary'
  BY <1>2 DEF Ended, Itinerary
<1>6. Newcomers'
  <2>1. \A s \in Saves, q \in Saves : target'[q] = s => target[q] = s
    BY <1>2 DEF Ended
  <2>2. \A q \in Saves \cup TagForms : q # f => pc'[q] = pc[q]
    BY <1>2 DEF Ended
  <2>3. pc'[f] = "ended"
    BY <1>2 DEF Ended
  <2> QED
    BY <1>1, <1>3, <2>1, <2>2, <2>3 DEF Newcomers
<1>7. NoteHolders'
  BY <1>1, <1>2 DEF Ended, Itinerary, NoteHolders, Writing
<1>8. TagsHeld'
  BY <1>2, <1>3 DEF Ended, TagsHeld, TagLocked, Existing
<1>9. LinksHeld'
  BY <1>2 DEF Ended, LinksHeld
<1>10. Unlinking'
  <2>1. ASSUME NEW q \in Saves, Writing(q)', NEW t \in (links[target[q]] \ wanted[q])'
        PROVE  Reached(q, target[q], t)'
    <3>1. q # f /\ Writing(q) /\ target'[q] = target[q] /\ target[q] \in Notes
      BY <1>2, <2>1 DEF Ended, Writing, Itinerary
    <3>2. t \in Tags /\ Reached(q, target[q], t)
      BY <1>1, <2>1, <3>1 DEF TypeOK, Unlinking
    <3> QED
      BY <1>2, <3>1, <3>2, OthersReach
  <2>2. ASSUME NEW q \in Purges, pc'[q] = "unlink", NEW t \in links'[target'[q]]
        PROVE  Reached(q, target[q], t)'
    <3>1. q # f /\ pc[q] = "unlink" /\ target'[q] = target[q] /\ target[q] \in Notes
      BY <1>2, <2>2 DEF Ended, NoteHolders
    <3>2. t \in Tags /\ Reached(q, target[q], t)
      BY <1>1, <2>2, <3>1 DEF TypeOK, Unlinking
    <3> QED
      BY <1>2, <3>1, <3>2, OthersReach
  <2>3. ASSUME NEW q \in TagDeletes, pc'[q] = "unlink", NEW k \in Notes, target'[q] \in links'[k]
        PROVE  Reached(q, k, target[q])'
    <3>1. q # f /\ pc[q] = "unlink" /\ target'[q] = target[q] /\ target[q] \in Tags
      BY <1>2, <2>3 DEF Ended, TagsHeld, TagLocked, Existing
    <3>2. Reached(q, k, target[q])
      BY <1>1, <2>3, <3>1 DEF Unlinking
    <3> QED
      BY <1>2, <3>1, <3>2, OthersReach
  <2> QED
    BY <2>1, <2>2, <2>3 DEF Unlinking
<1>11. Linking'
  <2>1. ASSUME NEW q \in Saves, pc'[q] = "link"
        PROVE  /\ rest'[q] \subseteq {target'[q]} \X wanted'[q]
               /\ added'[q] \subseteq wanted'[q]
               /\ \A t \in wanted'[q] \cap Existing' : Found(q, t)'
    <3>1. /\ q # f /\ pc[q] = "link" /\ target[q] \in Notes
          /\ target'[q] = target[q] /\ rest'[q] = rest[q] /\ added'[q] = added[q]
      BY <1>2, <2>1 DEF Ended, Itinerary
    <3>2. \A t \in Tags : linkLock'[target[q]][t] # q \/ linkLock[target[q]][t] = q
      BY <1>2, <3>1 DEF Ended
    <3>3. ASSUME NEW t \in wanted[q] \cap Existing
          PROVE  Found(q, t)'
      BY <1>1, <3>1, <3>2 DEF Linking, Found, Existing
    <3> QED
      BY <1>1, <1>3, <3>1, <3>3 DEF Linking
  <2>2. \A q \in Saves : shared'[q] \subseteq added'[q]
    BY <1>2 DEF Ended, Linking
  <2> QED
    BY <2>1, <2>2 DEF Linking
<1>12. Contents'
  BY <1>1, <1>2, <1>3 DEF Ended, TypeOK, Contents
<1>13. PinnedAreActive'
  BY <1>1 DEF PinnedAreActive
<1>14. LinksFitContent'
  BY <1>1, <1>3 DEF TypeOK, LinksFitContent
<1> QED
  BY <1>4, <1>5, <1>6, <1>7, <1>8, <1>9, <1>10, <1>11, <1>12, <1>13, <1>14

(* A deletion of a tag takes its row, which no save has shared.            *)
LEMMA DeleteTagKeepsIInv ==
    ASSUME IInv, NEW d \in TagDeletes, NEW t \in Tags, pc[d] = "idle",
           tagLock[t] = NoRequest, LockTag(d, t), Goto(d, "unlink"), UNCHANGED asked,
           rest' = [rest EXCEPT ![d] = {n \in Notes : t \in links[n]} \X {t}]
    PROVE  IInv'
<1> USE Kinds DEF IInv
<1>1. TypeOK'
  BY DEF TypeOK, Steps, Existing, LockTag, Sharers, Goto, board
<1>2. Itinerary'
  BY <1>1 DEF TypeOK, Itinerary, LockTag, Sharers, Goto, board
<1>3. Newcomers'
  BY <1>1 DEF TypeOK, Newcomers, Existing, LockTag, Sharers, Goto, board
<1>4. NoteHolders'
  BY <1>1 DEF TypeOK, Itinerary, NoteHolders, Writing, LockTag, Sharers, Goto, board
<1>5. TagsHeld'
  BY <1>1 DEF TypeOK, TagsHeld, TagLocked, Existing, LockTag, Sharers, Goto, board
<1>6. LinksHeld'
  BY <1>1 DEF TypeOK, LinksHeld, Itinerary, LockTag, Sharers, Goto, board
<1>7. Unlinking'
  BY <1>1 DEF TypeOK, Itinerary, Unlinking, Writing, Reached, LockTag, Sharers, Goto, board
<1>8. Linking'
  BY <1>1 DEF TypeOK, Itinerary, Linking, Found, Existing, LockTag, Sharers, Goto, board
<1>9. Contents'
  BY <1>1 DEF TypeOK, Contents, Existing, LockTag, Sharers, Goto, board
<1>10. PinnedAreActive'
  BY <1>1 DEF PinnedAreActive, LockTag, Sharers, Goto, board
<1>11. LinksFitContent'
  BY <1>1 DEF TypeOK, Contents, LinksFitContent, Existing, LockTag, Sharers, Goto, board
<1> QED
  BY <1>1, <1>2, <1>3, <1>4, <1>5, <1>6, <1>7, <1>8, <1>9, <1>10, <1>11

(* A rename of a tag takes its row, which no save has shared.              *)
LEMMA UpdateTagKeepsIInv ==
    ASSUME IInv, NEW f \in TagForms, NEW t \in Tags, NEW g \in Names, pc[f] = "idle",
           tagLock[t] = NoRequest, LockTag(f, t), Goto(f, "name"), UNCHANGED rest,
           asked' = [asked EXCEPT ![f] = g]
    PROVE  IInv'
<1> USE Kinds DEF IInv
<1>1. TypeOK'
  BY DEF TypeOK, Steps, Existing, LockTag, Sharers, Goto, board
<1>2. Itinerary'
  BY <1>1 DEF TypeOK, Itinerary, LockTag, Sharers, Goto, board
<1>3. Newcomers'
  BY <1>1 DEF TypeOK, Newcomers, Existing, LockTag, Sharers, Goto, board
<1>4. NoteHolders'
  BY <1>1 DEF TypeOK, Itinerary, NoteHolders, Writing, LockTag, Sharers, Goto, board
<1>5. TagsHeld'
  BY <1>1 DEF TypeOK, TagsHeld, TagLocked, Existing, LockTag, Sharers, Goto, board
<1>6. LinksHeld'
  BY <1>1 DEF TypeOK, LinksHeld, LockTag, Sharers, Goto, board
<1>7. Unlinking'
  BY <1>1 DEF TypeOK, Itinerary, Unlinking, Writing, Reached, LockTag, Sharers, Goto, board
<1>8. Linking'
  BY <1>1 DEF TypeOK, Itinerary, Linking, Found, Existing, LockTag, Sharers, Goto, board
<1>9. Contents'
  BY <1>1 DEF TypeOK, Contents, Existing, LockTag, Sharers, Goto, board
<1>10. PinnedAreActive'
  BY <1>1 DEF PinnedAreActive, LockTag, Sharers, Goto, board
<1>11. LinksFitContent'
  BY <1>1 DEF TypeOK, Contents, LinksFitContent, Existing, LockTag, Sharers, Goto, board
<1> QED
  BY <1>1, <1>2, <1>3, <1>4, <1>5, <1>6, <1>7, <1>8, <1>9, <1>10, <1>11

(* A form for a new tag.                                                   *)
LEMMA CreateTagKeepsIInv ==
    ASSUME IInv, NEW f \in TagForms, NEW g \in Names, CreateTag(f, g)
    PROVE  IInv'
<1> USE Kinds DEF IInv
<1>1. TypeOK'
  BY DEF TypeOK, Steps, CreateTag, Goto, board, locks, progress
<1>2. Itinerary'
  BY <1>1 DEF TypeOK, Itinerary, CreateTag, Goto, board, locks, progress
<1>3. Newcomers'
  BY <1>1 DEF TypeOK, Newcomers, Existing, CreateTag, Goto, board, locks, progress
<1>4. NoteHolders'
  BY <1>1 DEF TypeOK, Itinerary, NoteHolders, Writing, CreateTag, Goto, board, locks, progress
<1>5. TagsHeld'
  BY <1>1 DEF TypeOK, TagsHeld, TagLocked, Existing, CreateTag, Goto, board, locks, progress
<1>6. LinksHeld'
  BY <1>1 DEF TypeOK, LinksHeld, CreateTag, Goto, board, locks, progress
<1>7. Unlinking'
  BY <1>1 DEF TypeOK, Itinerary, Unlinking, Writing, Reached, CreateTag, Goto, board, locks, progress
<1>8. Linking'
  BY <1>1 DEF TypeOK, Itinerary, Linking, Found, Existing, CreateTag, Goto, board, locks, progress
<1>9. Contents'
  BY <1>1 DEF TypeOK, Contents, Existing, CreateTag, Goto, board, locks, progress
<1>10. PinnedAreActive'
  BY <1>1 DEF PinnedAreActive, CreateTag, Goto, board, locks, progress
<1>11. LinksFitContent'
  BY <1>1 DEF TypeOK, Contents, LinksFitContent, Existing, CreateTag, Goto, board, locks, progress
<1> QED
  BY <1>1, <1>2, <1>3, <1>4, <1>5, <1>6, <1>7, <1>8, <1>9, <1>10, <1>11

(* Nothing happens.                                                        *)
LEMMA StutterKeepsIInv ==
    ASSUME IInv, UNCHANGED vars
    PROVE  IInv'
<1> USE Kinds DEF IInv
<1>1. TypeOK'
  BY DEF TypeOK, Steps, vars, board, locks, inputs, progress
<1>2. Itinerary'
  BY <1>1 DEF TypeOK, Itinerary, vars, board, locks, inputs, progress
<1>3. Newcomers'
  BY <1>1 DEF TypeOK, Newcomers, Existing, vars, board, locks, inputs, progress
<1>4. NoteHolders'
  BY <1>1 DEF TypeOK, Itinerary, NoteHolders, Writing, vars, board, locks, inputs, progress
<1>5. TagsHeld'
  BY <1>1 DEF TypeOK, TagsHeld, TagLocked, Existing, vars, board, locks, inputs, progress
<1>6. LinksHeld'
  BY <1>1 DEF TypeOK, LinksHeld, vars, board, locks, inputs, progress
<1>7. Unlinking'
  BY <1>1 DEF TypeOK, Itinerary, Unlinking, Writing, Reached, vars, board, locks, inputs, progress
<1>8. Linking'
  BY <1>1 DEF TypeOK, Itinerary, Linking, Found, Existing, vars, board, locks, inputs, progress
<1>9. Contents'
  BY <1>1 DEF TypeOK, Contents, Existing, vars, board, locks, inputs, progress
<1>10. PinnedAreActive'
  BY <1>1 DEF PinnedAreActive, vars, board, locks, inputs, progress
<1>11. LinksFitContent'
  BY <1>1 DEF TypeOK, Contents, LinksFitContent, Existing, vars, board, locks, inputs, progress
<1> QED
  BY <1>1, <1>2, <1>3, <1>4, <1>5, <1>6, <1>7, <1>8, <1>9, <1>10, <1>11

(* Pins and archived notes: the rows the five statements write.            *)
LEMMA MovedRows ==
    ASSUME IInv, NEW n \in Notes
    PROVE  /\ note[n] \in Active => \A b \in BOOLEAN : LET row == [note[n] EXCEPT !.pinned = b] IN
                 row \in Rows /\ (row.pinned => row \in Active)
           /\ note[n] \in Active => LET row == ArchivedRow(note[n]) IN
                 row \in Rows /\ (row.pinned => row \in Active)
           /\ note[n] \in Archived => LET row == [note[n] EXCEPT !.archived = FALSE] IN
                 row \in Rows /\ (row.pinned => row \in Active)
           /\ note[n] \in Writable =>
                 LET row == [note[n] EXCEPT !.deleted = TRUE, !.pinned = FALSE] IN
                 row \in Rows /\ (row.pinned => row \in Active)
           /\ note[n] \in InTrash =>
                 LET row == [note[n] EXCEPT !.deleted = FALSE, !.archived = FALSE] IN
                 row \in Rows /\ (row.pinned => row \in Active)
  BY Kinds DEF IInv, PinnedAreActive, Active, Archived, InTrash, Writable, ArchivedRow, Rows

(* The five statements on one note.                                        *)
LEMMA MoveKeepsIInv ==
    ASSUME IInv, NEW m \in Moves, MoveStep(m)
    PROVE  IInv'
<1>1. PICK n \in Notes : SetPinned(m, n) \/ Archive(m, n) \/ Unarchive(m, n)
                         \/ MoveToTrash(m, n) \/ Restore(m, n)
  BY DEF MoveStep
<1>2. Active \subseteq Rows /\ Archived \subseteq Rows /\ Writable \subseteq Rows /\ InTrash \subseteq Rows
  BY DEF Active, Archived, Writable, InTrash
<1>3. CASE SetPinned(m, n)
  <2>1. PICK b \in BOOLEAN : ExecNoteState(m, n, Active, [note[n] EXCEPT !.pinned = b])
    BY <1>3 DEF SetPinned
  <2> QED
    BY <2>1, <1>2, MovedRows, ExecKeepsIInv
<1>4. CASE Archive(m, n)
  BY <1>4, <1>2, MovedRows, ExecKeepsIInv DEF Archive
<1>5. CASE Unarchive(m, n)
  BY <1>5, <1>2, MovedRows, ExecKeepsIInv DEF Unarchive
<1>6. CASE MoveToTrash(m, n)
  BY <1>6, <1>2, MovedRows, ExecKeepsIInv DEF MoveToTrash
<1>7. CASE Restore(m, n)
  BY <1>7, <1>2, MovedRows, ExecKeepsIInv DEF Restore
<1> QED
  BY <1>1, <1>3, <1>4, <1>5, <1>6, <1>7

(* Every step of a save.                                                   *)
LEMMA SaveKeepsIInv ==
    ASSUME IInv, NEW s \in Saves, SaveStep(s)
    PROVE  IInv'
<1> USE Kinds
<1>1. CASE UpdateNote(s)
  <2>1. CASE Abort(s)
    BY <1>1, <2>1, AbortKeepsIInv DEF UpdateNote
  <2>2. CASE ~Abort(s)
    <3>1. target[s] \in Notes /\ links[target[s]] \subseteq Tags
      BY <1>1 DEF UpdateNote, IInv, Itinerary, TypeOK
    <3> QED
      BY <1>1, <2>2, <3>1, LockNoteKeepsIInv DEF UpdateNote, Outdated
  <2> QED
    BY <2>1, <2>2
<1>2. CASE CheckTag(s)
  <2>1. CASE Abort(s)
    BY <1>2, <2>1, AbortKeepsIInv DEF CheckTag
  <2>2. CASE ~Abort(s)
    BY <1>2, <2>2, ShareKeepsIInv DEF CheckTag
  <2> QED
    BY <2>1, <2>2
<1> QED
  BY <1>1, <1>2, ValidateKeepsIInv, UnlinkKeepsIInv, StartLinkingKeepsIInv, LinkKeepsIInv,
     CommitSaveKeepsIInv DEF SaveStep

(* Every step of a permanent deletion.                                     *)
LEMMA PurgeKeepsIInv ==
    ASSUME IInv, NEW p \in Purges, PurgeStep(p)
    PROVE  IInv'
<1> USE Kinds
<1>1. ASSUME NEW n \in Notes, DeletePermanently(p, n)
      PROVE  IInv'
  <2>1. CASE Abort(p)
    BY <1>1, <2>1, AbortKeepsIInv DEF DeletePermanently
  <2>2. CASE ~Abort(p)
    <3>1. links[n] \subseteq Tags
      BY DEF IInv, TypeOK
    <3> QED
      BY <1>1, <2>2, <3>1, LockNoteKeepsIInv DEF DeletePermanently
  <2> QED
    BY <2>1, <2>2
<1> QED
  BY <1>1, UnlinkKeepsIInv, CommitPurgeKeepsIInv DEF PurgeStep

(* Every step of a new or renamed tag.                                     *)
LEMMA TagFormKeepsIInv ==
    ASSUME IInv, NEW f \in TagForms, TagFormStep(f)
    PROVE  IInv'
<1> USE Kinds
<1>1. ASSUME NEW t \in Tags, NEW g \in Names, UpdateTag(f, t, g)
      PROVE  IInv'
  <2>1. CASE Abort(f)
    BY <1>1, <2>1, AbortKeepsIInv DEF UpdateTag
  <2>2. CASE ~Abort(f)
    BY <1>1, <2>2, UpdateTagKeepsIInv DEF UpdateTag
  <2> QED
    BY <2>1, <2>2
<1>2. CASE RefuseTagForm(f)
  BY <1>2, AbortKeepsIInv DEF RefuseTagForm
<1> QED
  BY <1>1, <1>2, CreateTagKeepsIInv, TakeNameKeepsIInv DEF TagFormStep

(* Every step of the deletion of a tag.                                    *)
LEMMA TagDeleteKeepsIInv ==
    ASSUME IInv, NEW d \in TagDeletes, TagDeleteStep(d)
    PROVE  IInv'
<1> USE Kinds
<1>1. ASSUME NEW t \in Tags, DeleteTag(d, t)
      PROVE  IInv'
  <2>1. CASE Abort(d)
    BY <1>1, <2>1, AbortKeepsIInv DEF DeleteTag
  <2>2. CASE ~Abort(d)
    BY <1>1, <2>2, DeleteTagKeepsIInv DEF DeleteTag
  <2> QED
    BY <2>1, <2>2
<1> QED
  BY <1>1, UnlinkKeepsIInv, CommitTagDeleteKeepsIInv DEF TagDeleteStep

(* A request that is ended from outside was at work.                       *)
LEMMA VictimKeepsIInv ==
    ASSUME IInv, NEW r \in Requests, DeadlockVictim(r) \/ StatementFails(r)
    PROVE  IInv'
<1>1. pc[r] # "ended"
  BY DEF DeadlockVictim, WaitsForItself, Holders, StatementFails, Running
<1> QED
  BY <1>1, AbortKeepsIInv DEF DeadlockVictim, StatementFails

(* Every step.                                                             *)
LEMMA NextKeepsIInv ==
    ASSUME IInv, [Next]_vars
    PROVE  IInv'
  BY SaveKeepsIInv, MoveKeepsIInv, PurgeKeepsIInv, TagFormKeepsIInv, TagDeleteKeepsIInv,
     VictimKeepsIInv, StutterKeepsIInv DEF Next, Quiet

(* The board at first, when nobody is at work.                             *)
LEMMA InitIInv ==
    ASSUME Init
    PROVE  IInv
<1> USE Kinds DEF Init
<1>1. TypeOK
  BY RowAssumption DEF TypeOK, Steps, Notes, Tags
<1>2. Itinerary /\ TagsHeld /\ LinksHeld
  BY DEF Itinerary, TagsHeld, LinksHeld
<1>3. KeptTags = Existing
  BY RowAssumption DEF Existing, Tags
<1>4. Newcomers
  <2>1. \A f \in TagForms : f \notin KeptTags
    BY RowAssumption DEF Disjoint, Requests
  <2> QED
    BY <2>1, <1>3 DEF Newcomers
<1>5. NoteHolders /\ Unlinking /\ Linking
  BY DEF NoteHolders, Unlinking, Linking, Writing
<1>6. Contents
  BY <1>3, RowAssumption, FS_EmptySet DEF Contents
<1>7. PinnedAreActive
  BY DEF PinnedAreActive
<1>8. LinksFitContent
  BY DEF LinksFitContent
<1> QED
  BY <1>1, <1>2, <1>4, <1>5, <1>6, <1>7, <1>8 DEF IInv

-----------------------------------------------------------------------------
(* The inductive invariant holds throughout.                               *)
LEMMA Invariance == Spec => []IInv
<1>1. Init => IInv
  BY InitIInv
<1>2. IInv /\ [Next]_vars => IInv'
  BY NextKeepsIInv
<1> QED
  BY <1>1, <1>2, PTL DEF Spec

(* Type correctness.                                                       *)
THEOREM TypeCorrect == Spec => []TypeOK
<1>1. IInv => TypeOK
  BY DEF IInv
<1> QED
  BY <1>1, Invariance, PTL

(* A note that is archived or in the trash is not pinned, whatever moves   *)
(* reach it in whatever order: ListNotes may sort by the pin alone.        *)
THEOREM PinsStayOnBoard == Spec => []PinnedAreActive
<1>1. IInv => PinnedAreActive
  BY DEF IInv
<1> QED
  BY <1>1, Invariance, PTL

(* A note has the tags of the save its text is from, as far as they exist: *)
(* two saves never mix, and neither the deletion nor the renaming of a tag *)
(* leaves a link behind or takes another one along.                        *)
THEOREM TagsFitContent == Spec => []LinksFitContent
<1>1. IInv => LinksFitContent
  BY DEF IInv
<1> QED
  BY <1>1, Invariance, PTL

-----------------------------------------------------------------------------
(* Where the board shows each note.                                        *)
placed == [n \in Notes |-> Place(n)]

(* A step that leaves the rows alone is none of the notebook.              *)
LEMMA StayOnBoard ==
    ASSUME UNCHANGED board
    PROVE  UNCHANGED Book!vars
  BY DEF board, Book!vars, Place

(* Each place is a kind of rows.                                           *)
LEMMA PlaceOfRow ==
    ASSUME IInv, NEW n \in Notes
    PROVE  /\ Place(n) = Absent <=> note[n] = Absent
           /\ Place(n) \in {"active", "pinned"} <=> note[n] \in Active
           /\ Place(n) = "archived" <=> note[n] \in Archived
           /\ Place(n) = "trash" <=> note[n] \in InTrash
           /\ Place(n) \in {"active", "pinned", "archived"} <=> note[n] \in Writable
<1>1. note[n] \in Rows \cup {Absent}
  BY DEF IInv, TypeOK
<1>2. CASE note[n] = Absent
  BY <1>2, Kinds, AbsentAssumption DEF Place, Active, Archived, InTrash, Writable
<1>3. CASE note[n] \in Rows
  <2>1. note[n] # Absent
    BY <1>3, Kinds
  <2>2. note[n].archived \in BOOLEAN /\ note[n].deleted \in BOOLEAN /\ note[n].pinned \in BOOLEAN
    BY <1>3 DEF Rows
  <2>3. note[n].pinned => note[n] \in Active
    BY <2>1 DEF IInv, PinnedAreActive
  <2> QED
    BY <1>3, <2>1, <2>2, <2>3, AbsentAssumption DEF Place, Active, Archived, InTrash, Writable
<1> QED
  BY <1>1, <1>2, <1>3

(* The COMMIT of a save is Create or Save.                                 *)
LEMMA SaveBooks ==
    ASSUME IInv, NEW s \in Saves, CommitSave(s)
    PROVE  Book!Next
<1> DEFINE n == target[s]
<1>1. /\ pc[s] = "link" /\ n \in Notes /\ name' = name
      /\ note' = IF n = s THEN [note EXCEPT ![s] = Fresh] ELSE note
      /\ content' = [content EXCEPT ![n] = s]
      /\ links' = [links EXCEPT ![n] = wanted[s] \cap Existing]
  BY SavedLinks, Kinds DEF IInv, TypeOK, Itinerary, CommitSave
<1>2. wanted[s] \cap Existing \in Book!Selections
  <2>1. IsFiniteSet(wanted[s]) /\ Cardinality(wanted[s]) <= MaxTags
    BY Kinds, RowAssumption, FS_Subset DEF IInv, TypeOK, Contents
  <2>2. Cardinality(wanted[s] \cap Existing) <= Cardinality(wanted[s])
    BY <2>1, FS_Subset
  <2>3. IsFiniteSet(wanted[s] \cap Existing)
    BY <2>1, FS_Subset
  <2>4. Cardinality(wanted[s] \cap Existing) <= MaxTags
    BY <2>1, <2>2, <2>3, FS_CardinalityType, RowAssumption
  <2>5. Book!Existing = Existing
    BY DEF Book!Existing, Existing
  <2>6. wanted[s] \cap Existing \in SUBSET Book!Existing
    BY <2>5
  <2>7. Book!Cardinality(wanted[s] \cap Existing) = Cardinality(wanted[s] \cap Existing)
    BY DEF Book!Cardinality, Cardinality
  <2> QED
    BY <2>4, <2>6, <2>7 DEF Book!Selections
<1>3. Book!Write(n)
  BY <1>1, <1>2 DEF Book!Write
<1>4. CASE n = s
  <2>1. note[s] = Absent
    BY <1>1 DEF IInv, Newcomers
  <2>2. note' = [note EXCEPT ![s] = Fresh] /\ note \in [Notes -> Rows \cup {Absent}] /\ s \in Notes
    BY <1>1, <1>4, Kinds DEF IInv, TypeOK
  <2>3. placed[s] = Absent
    BY <2>1, <2>2 DEF placed, Place
  <2>4. note'[s] = Fresh /\ \A k \in Notes : k # s => note'[k] = note[k]
    BY <2>2
  <2>5. Fresh \in Rows /\ ~Fresh.archived /\ ~Fresh.deleted /\ ~Fresh.pinned
    BY DEF Fresh, Rows
  <2>6. Place(s)' = "active" /\ \A k \in Notes : k # s => Place(k)' = Place(k)
    BY <2>4, <2>5, AbsentAssumption DEF Place
  <2>7. placed' = [placed EXCEPT ![s] = "active"]
    BY <2>2, <2>6 DEF placed
  <2>8. Book!Create(s)
    BY <1>3, <1>4, <2>3, <2>7 DEF Book!Create, placed
  <2> QED
    BY <2>2, <2>8 DEF Book!Next
<1>5. CASE n # s
  <2>1. note[n] \in Writable /\ note' = note
    BY <1>1, <1>5 DEF IInv, NoteHolders, Writing
  <2>2. placed[n] \in Book!Writable
    BY <1>1, <2>1, PlaceOfRow DEF placed, Book!Writable, Book!Places
  <2>3. placed' = placed
    BY <2>1 DEF placed, Place
  <2>4. Book!Save(n)
    BY <1>3, <2>2, <2>3 DEF Book!Save, placed
  <2> QED
    BY <1>1, <2>4 DEF Book!Next
<1> QED
  BY <1>4, <1>5

(* A row takes its note from one place to another, or nothing changes.     *)
LEMMA ExecBooks ==
    ASSUME IInv, NEW m \in Moves, NEW n \in Notes, NEW from \in SUBSET Rows, NEW row,
           ExecNoteState(m, n, from, row)
    PROVE  \/ note[n] \notin from /\ UNCHANGED Book!vars
           \/ /\ note[n] \in from /\ note'[n] = row
              /\ placed' = [placed EXCEPT ![n] = Place(n)']
              /\ UNCHANGED <<content, links, name>>
<1>1. CASE note[n] \notin from
  BY <1>1, StayOnBoard DEF ExecNoteState, board
<1>2. CASE note[n] \in from
  <2>1. note' = [note EXCEPT ![n] = row] /\ note \in [Notes -> Rows \cup {Absent}]
    BY <1>2 DEF ExecNoteState, IInv, TypeOK
  <2>2. note'[n] = row /\ \A k \in Notes : k # n => note'[k] = note[k]
    BY <2>1
  <2>3. \A k \in Notes : k # n => Place(k)' = Place(k)
    BY <2>2 DEF Place
  <2>4. placed' = [placed EXCEPT ![n] = Place(n)']
    BY <2>3 DEF placed
  <2> QED
    BY <1>2, <2>2, <2>4 DEF ExecNoteState
<1> QED
  BY <1>1, <1>2

(* The COMMIT of a permanent deletion is Destroy.                          *)
LEMMA PurgeBooks ==
    ASSUME IInv, NEW p \in Purges, CommitPurge(p)
    PROVE  Book!Next
<1> USE DEF IInv
<1>1. PICK n \in Notes :
         n = target[p] /\ pc[p] = "unlink" /\ rest[p] = {} /\ note[n] \in InTrash
  BY DEF CommitPurge, NoteHolders
<1>2. Kept(p, n) = {}
  BY <1>1 DEF Kept, Unlinking, Reached
<1>3. /\ note' = [note EXCEPT ![n] = Absent]
      /\ content' = [content EXCEPT ![n] = Absent]
      /\ links' = [links EXCEPT ![n] = {}]
      /\ name' = name
  BY <1>1, <1>2 DEF CommitPurge
<1>4. note'[n] = Absent /\ \A k \in Notes : k # n => note'[k] = note[k]
  BY <1>1, <1>3 DEF TypeOK
<1>5. Place(n)' = Absent /\ \A k \in Notes : k # n => Place(k)' = Place(k)
  BY <1>4 DEF Place
<1>6. placed' = [placed EXCEPT ![n] = Absent]
  BY <1>5 DEF placed
<1>7. placed[n] = "trash"
  BY <1>1, PlaceOfRow DEF placed
<1>8. Book!Destroy(n)
  BY <1>3, <1>6, <1>7 DEF Book!Destroy, placed
<1> QED
  BY <1>1, <1>8 DEF Book!Next

(* The COMMIT of the deletion of a tag is DeleteTag.                       *)
LEMMA TagDeleteBooks ==
    ASSUME IInv, NEW d \in TagDeletes, CommitTagDelete(d)
    PROVE  Book!Next
<1>1. target[d] \in Tags
  BY DEF IInv, CommitTagDelete, TagsHeld, TagLocked, Existing
<1>2. /\ name' = [name EXCEPT ![target[d]] = Absent]
      /\ links' = [n \in Notes |-> links[n] \ {target[d]}]
      /\ note' = note /\ content' = content
  BY DeletedLinks DEF CommitTagDelete
<1>3. placed' = placed
  BY <1>2 DEF placed, Place
<1>4. Book!DeleteTag(target[d])
  BY <1>2, <1>3 DEF Book!DeleteTag, placed
<1> QED
  BY <1>1, <1>4 DEF Book!Next

(* A tag form that ends well is NameTag.                                   *)
LEMMA TakeNameBooks ==
    ASSUME IInv, NEW f \in TagForms, TakeName(f)
    PROVE  [Book!Next]_Book!vars
<1>1. target[f] \in Tags /\ asked[f] \in Names
  BY Kinds DEF IInv, TakeName, TagsHeld, TagLocked, Existing
<1>2. note' = note /\ content' = content /\ links' = links
  BY DEF TakeName
<1>3. placed' = placed
  BY <1>2 DEF placed, Place
<1>4. CASE Namesakes(f) = {}
  <2>1. Book!NameTag(target[f], asked[f])
    BY <1>2, <1>3, <1>4 DEF TakeName, Namesakes, Book!NameTag, placed
  <2> QED
    BY <1>1, <2>1 DEF Book!Next
<1>5. CASE Namesakes(f) # {}
  BY <1>2, <1>5, StayOnBoard DEF TakeName, board
<1> QED
  BY <1>4, <1>5

(* The five statements on one note.                                        *)
LEMMA MoveBooks ==
    ASSUME IInv, NEW m \in Moves, MoveStep(m)
    PROVE  [Book!Next]_Book!vars
<1>1. PICK n \in Notes : SetPinned(m, n) \/ Archive(m, n) \/ Unarchive(m, n)
                         \/ MoveToTrash(m, n) \/ Restore(m, n)
  BY DEF MoveStep
<1>2. Active \subseteq Rows /\ Archived \subseteq Rows /\ Writable \subseteq Rows /\ InTrash \subseteq Rows
  BY DEF Active, Archived, Writable, InTrash
<1>3. placed[n] = Place(n)
  BY DEF placed
<1>4. \A from \in SUBSET Rows : note[n] \in from => note[n] \in Rows /\ note[n] # Absent
  BY Kinds
<1>5. CASE SetPinned(m, n)
  <2>1. PICK b \in BOOLEAN : ExecNoteState(m, n, Active, [note[n] EXCEPT !.pinned = b])
    BY <1>5 DEF SetPinned
  <2> DEFINE row == [note[n] EXCEPT !.pinned = b]
  <2>2. \/ UNCHANGED Book!vars
        \/ /\ note[n] \in Active /\ note'[n] = row
           /\ placed' = [placed EXCEPT ![n] = Place(n)']
           /\ UNCHANGED <<content, links, name>>
    BY <2>1, <1>2, ExecBooks
  <2>3. CASE note[n] \in Active /\ note'[n] = row
    <3>1. row \in Rows /\ ~row.archived /\ ~row.deleted /\ row.pinned = b
      BY <2>3 DEF Active, Rows
    <3>2. Place(n)' = IF b THEN "pinned" ELSE "active"
      BY <2>3, <3>1, Kinds DEF Place
    <3>3. Place(n) \in {"active", "pinned"}
      BY <2>3, PlaceOfRow
    <3>4. CASE Place(n)' = Place(n)
      <4>1. placed' = placed \/ UNCHANGED Book!vars
        BY <1>3, <2>2, <3>4 DEF placed
      <4> QED
        BY <2>2, <4>1 DEF Book!vars, placed
    <3>5. CASE Place(n)' # Place(n)
      <4>1. Book!Pin(n) \/ Book!Unpin(n) \/ UNCHANGED Book!vars
        BY <1>3, <2>2, <3>2, <3>3, <3>5 DEF Book!Pin, Book!Unpin, Book!Move, placed
      <4> QED
        BY <4>1 DEF Book!Next
    <3> QED
      BY <3>4, <3>5
  <2> QED
    BY <2>2, <2>3
<1>6. CASE Archive(m, n)
  <2> DEFINE row == ArchivedRow(note[n])
  <2>1. \/ UNCHANGED Book!vars
        \/ /\ note[n] \in Active /\ note'[n] = row
           /\ placed' = [placed EXCEPT ![n] = Place(n)']
           /\ UNCHANGED <<content, links, name>>
    BY <1>6, <1>2, ExecBooks DEF Archive
  <2>2. CASE note[n] \in Active /\ note'[n] = row
    <3>1. row \in Rows /\ row.archived /\ ~row.deleted /\ ~row.pinned
      BY <2>2, <1>4 DEF IInv, PinnedAreActive, Active, Archived, InTrash, Writable, Rows, ArchivedRow
    <3>2. Place(n)' = "archived"
      BY <2>2, <3>1, Kinds DEF Place
    <3>3. Book!Archive(n) \/ UNCHANGED Book!vars
      BY <1>3, <2>1, <2>2, <3>2, PlaceOfRow
      DEF Book!Archive, Book!Move, Book!Writable, Book!Places, placed
    <3> QED
      BY <3>3 DEF Book!Next
  <2> QED
    BY <2>1, <2>2
<1>7. CASE Unarchive(m, n)
  <2> DEFINE row == [note[n] EXCEPT !.archived = FALSE]
  <2>1. \/ UNCHANGED Book!vars
        \/ /\ note[n] \in Archived /\ note'[n] = row
           /\ placed' = [placed EXCEPT ![n] = Place(n)']
           /\ UNCHANGED <<content, links, name>>
    BY <1>7, <1>2, ExecBooks DEF Unarchive
  <2>2. CASE note[n] \in Archived /\ note'[n] = row
    <3>1. row \in Rows /\ ~row.archived /\ ~row.deleted /\ ~row.pinned
      BY <2>2, <1>4 DEF IInv, PinnedAreActive, Active, Archived, InTrash, Writable, Rows, ArchivedRow
    <3>2. Place(n)' = "active"
      BY <2>2, <3>1, Kinds DEF Place
    <3>3. Book!Unarchive(n) \/ UNCHANGED Book!vars
      BY <1>3, <2>1, <2>2, <3>2, PlaceOfRow
      DEF Book!Unarchive, Book!Move, Book!Writable, Book!Places, placed
    <3> QED
      BY <3>3 DEF Book!Next
  <2> QED
    BY <2>1, <2>2
<1>8. CASE MoveToTrash(m, n)
  <2> DEFINE row == [note[n] EXCEPT !.deleted = TRUE, !.pinned = FALSE]
  <2>1. \/ UNCHANGED Book!vars
        \/ /\ note[n] \in Writable /\ note'[n] = row
           /\ placed' = [placed EXCEPT ![n] = Place(n)']
           /\ UNCHANGED <<content, links, name>>
    BY <1>8, <1>2, ExecBooks DEF MoveToTrash
  <2>2. CASE note[n] \in Writable /\ note'[n] = row
    <3>1. row \in Rows /\ row.deleted
      BY <2>2, <1>4 DEF IInv, PinnedAreActive, Active, Archived, InTrash, Writable, Rows, ArchivedRow
    <3>2. Place(n)' = "trash"
      BY <2>2, <3>1, Kinds DEF Place
    <3>3. Book!MoveToTrash(n) \/ UNCHANGED Book!vars
      BY <1>3, <2>1, <2>2, <3>2, PlaceOfRow
      DEF Book!MoveToTrash, Book!Move, Book!Writable, Book!Places, placed
    <3> QED
      BY <3>3 DEF Book!Next
  <2> QED
    BY <2>1, <2>2
<1>9. CASE Restore(m, n)
  <2> DEFINE row == [note[n] EXCEPT !.deleted = FALSE, !.archived = FALSE]
  <2>1. \/ UNCHANGED Book!vars
        \/ /\ note[n] \in InTrash /\ note'[n] = row
           /\ placed' = [placed EXCEPT ![n] = Place(n)']
           /\ UNCHANGED <<content, links, name>>
    BY <1>9, <1>2, ExecBooks DEF Restore
  <2>2. CASE note[n] \in InTrash /\ note'[n] = row
    <3>1. row \in Rows /\ ~row.archived /\ ~row.deleted /\ ~row.pinned
      BY <2>2, <1>4 DEF IInv, PinnedAreActive, Active, Archived, InTrash, Writable, Rows, ArchivedRow
    <3>2. Place(n)' = "active"
      BY <2>2, <3>1, Kinds DEF Place
    <3>3. Book!Restore(n) \/ UNCHANGED Book!vars
      BY <1>3, <2>1, <2>2, <3>2, PlaceOfRow
      DEF Book!Restore, Book!Move, Book!Writable, Book!Places, placed
    <3> QED
      BY <3>3 DEF Book!Next
  <2> QED
    BY <2>1, <2>2
<1> QED
  BY <1>1, <1>5, <1>6, <1>7, <1>8, <1>9

(* Every step is one of the notebook, or leaves it alone.                  *)
LEMMA NextBooks ==
    ASSUME IInv, [Next]_vars
    PROVE  [Book!Next]_Book!vars
<1>1. ASSUME UNCHANGED board
      PROVE  [Book!Next]_Book!vars
  BY <1>1, StayOnBoard
<1>2. ASSUME NEW s \in Saves, SaveStep(s)
      PROVE  [Book!Next]_Book!vars
  BY <1>1, <1>2, SaveBooks DEF SaveStep, Validate, UpdateNote, LockNote, UnlinkOne, StartLinking,
     LinkOne, CheckTag, Abort
<1>3. ASSUME NEW p \in Purges, PurgeStep(p)
      PROVE  [Book!Next]_Book!vars
  BY <1>1, <1>3, PurgeBooks DEF PurgeStep, DeletePermanently, LockNote, UnlinkOne, Abort
<1>4. ASSUME NEW f \in TagForms, TagFormStep(f)
      PROVE  [Book!Next]_Book!vars
  BY <1>1, <1>4, TakeNameBooks DEF TagFormStep, UpdateTag, LockTag, CreateTag, RefuseTagForm, Abort
<1>5. ASSUME NEW d \in TagDeletes, TagDeleteStep(d)
      PROVE  [Book!Next]_Book!vars
  BY <1>1, <1>5, TagDeleteBooks DEF TagDeleteStep, DeleteTag, LockTag, UnlinkOne, Abort
<1>6. ASSUME NEW r \in Requests, DeadlockVictim(r) \/ StatementFails(r)
      PROVE  [Book!Next]_Book!vars
  BY <1>1, <1>6 DEF DeadlockVictim, StatementFails, Abort
<1>7. ASSUME UNCHANGED vars
      PROVE  [Book!Next]_Book!vars
  BY <1>1, <1>7 DEF vars
<1> QED
  BY <1>2, <1>3, <1>4, <1>5, <1>6, <1>7, MoveBooks DEF Next, Quiet

(* The board at first is one a notebook may begin with.                    *)
LEMMA InitBooks ==
    ASSUME Init
    PROVE  Book!Init
<1>1. TypeOK
  BY InitIInv DEF IInv
<1>2. placed \in [Notes -> Book!Places \cup {Absent}]
  BY DEF placed, Place, Book!Places
<1> QED
  BY <1>1, <1>2 DEF TypeOK, Init, Book!Init, placed

(* Whatever requests run at once, and whichever of their statements fail,  *)
(* the board is the one of Notebook: every request takes place in one      *)
(* instant, at its COMMIT, on a note and on tags that are still there.     *)
THEOREM NotebookKept == Spec => ImplementsNotebook
<1>1. Init => Book!Init
  BY InitBooks
<1>2. IInv /\ [Next]_vars => [Book!Next]_Book!vars
  BY NextBooks
<1> QED
  BY <1>1, <1>2, Invariance, PTL DEF Spec, ImplementsNotebook, Book!Spec

-----------------------------------------------------------------------------
(* A lock is held by a request at work, on what it is about, and what a    *)
(* request has under its lock it need not visit any more.                  *)
NoteOwners ==
    \A n \in Notes : noteLock[n] # NoRequest =>
        /\ noteLock[n] \in Saves \cup Purges
        /\ pc[noteLock[n]] \in {"unlink", "link"}
        /\ target[noteLock[n]] = n

LinkOwners ==
    \A n \in Notes, t \in Tags : linkLock[n][t] # NoRequest =>
        /\ linkLock[n][t] \in Saves \cup Purges \cup TagDeletes
        /\ pc[linkLock[n][t]] \in {"unlink", "link"}
        /\ linkLock[n][t] \in Saves \cup Purges => target[linkLock[n][t]] = n
        /\ linkLock[n][t] \in Saves => t \notin wanted[linkLock[n][t]]
        /\ <<n, t>> \notin rest[linkLock[n][t]]

TagOwners ==
    \A t \in Tags : tagLock[t] # NoRequest =>
        /\ tagLock[t] \in TagForms \cup TagDeletes
        /\ pc[tagLock[t]] \in {"name", "unlink"}
        /\ target[tagLock[t]] = t

(* A save removes links of its note it does not want, a purge links of its *)
(* note.                                                                   *)
OnItsNote ==
    /\ \A r \in Requests : pc[r] = "idle" => rest[r] = {}
    /\ \A s \in Saves : pc[s] = "unlink" =>
          rest[s] \subseteq {target[s]} \X (Tags \ wanted[s])
    /\ \A p \in Purges : pc[p] = "unlink" => rest[p] \subseteq {target[p]} \X Tags

Owners == NoteOwners /\ LinkOwners /\ TagOwners /\ OnItsNote


(* A request that ends gives up its locks and no others.                   *)
LEMMA EndKeepsOwners ==
    ASSUME TypeOK, Owners, NEW r \in Requests, End(r),
           \A q \in Requests : q # r => wanted'[q] = wanted[q]
    PROVE  Owners'
<1> USE Kinds DEF Owners
<1>1. Ended(r)
  BY EndEffect
<1>2. NoteOwners'
  BY <1>1 DEF TypeOK, NoteOwners, Ended
<1>3. LinkOwners'
  BY <1>1 DEF TypeOK, LinkOwners, Ended
<1>4. TagOwners'
  BY <1>1 DEF TypeOK, TagOwners, Ended
<1>5. OnItsNote'
  BY <1>1 DEF TypeOK, OnItsNote, Ended
<1> QED
  BY <1>2, <1>3, <1>4, <1>5

LEMMA AbortKeepsOwners ==
    ASSUME TypeOK, Owners, NEW r \in Requests, Abort(r)
    PROVE  Owners'
<1>1. End(r) /\ \A q \in Requests : q # r => wanted'[q] = wanted[q]
  BY DEF Abort, TypeOK
<1> QED
  BY <1>1, EndKeepsOwners

(* A save begins: it holds nothing yet.                                    *)
LEMMA ValidateKeepsOwners ==
    ASSUME IInv, Owners, NEW s \in Saves, Validate(s)
    PROVE  Owners'
<1> USE Kinds DEF Owners, IInv, TypeOK
<1>1. /\ UNCHANGED <<noteLock, linkLock, tagLock, rest>>
      /\ pc[s] = "idle" /\ rest[s] = {}
      /\ pc'[s] \in {"note", "unlink", "ended"}
      /\ \A q \in Requests : q # s =>
            pc'[q] = pc[q] /\ target'[q] = target[q] /\ wanted'[q] = wanted[q]
  BY DEF Validate, Goto, locks, progress, OnItsNote
<1>2. NoteOwners'
  BY <1>1 DEF NoteOwners
<1>3. LinkOwners'
  <2>1. ASSUME NEW m \in Notes, NEW v \in Tags, linkLock[m][v] # NoRequest
        PROVE  linkLock[m][v] \in Requests /\ linkLock[m][v] # s
    <3>1. linkLock[m][v] \in Requests /\ pc[linkLock[m][v]] \in {"unlink", "link"}
      BY <2>1 DEF LinkOwners
    <3> QED
      BY <1>1, <3>1
  <2>2. ASSUME NEW q \in Requests, q # s
        PROVE  /\ pc'[q] = pc[q] /\ target'[q] = target[q]
               /\ wanted'[q] = wanted[q] /\ rest'[q] = rest[q]
    BY <1>1, <2>2
  <2>3. linkLock' = linkLock
    BY <1>1
  <2> HIDE DEF IInv, TypeOK
  <2> QED
    BY <2>1, <2>2, <2>3 DEF LinkOwners
<1>4. TagOwners'
  BY <1>1 DEF TagOwners
<1>5. OnItsNote'
  BY <1>1 DEF OnItsNote
<1> QED
  BY <1>2, <1>3, <1>4, <1>5

(* The row of a note is locked.                                            *)
LEMMA LockNoteKeepsOwners ==
    ASSUME IInv, Owners, NEW r \in Saves \cup Purges, NEW n \in Notes,
           NEW doomed \in SUBSET Tags, LockNote(r, n, doomed),
           noteLock[n] = NoRequest, pc[r] \in {"idle", "note"},
           target' = [target EXCEPT ![r] = n],
           r \in Saves => doomed \cap wanted[r] = {}
    PROVE  Owners'
<1> USE Kinds DEF Owners, IInv, TypeOK, LockNote, Goto, board
<1>1. /\ UNCHANGED <<linkLock, tagLock, wanted>>
      /\ noteLock' = [noteLock EXCEPT ![n] = r]
      /\ target'[r] = n /\ pc'[r] = "unlink" /\ rest'[r] = {n} \X doomed
      /\ \A q \in Requests : q # r =>
            pc'[q] = pc[q] /\ target'[q] = target[q] /\ rest'[q] = rest[q]
  OBVIOUS
<1> HIDE DEF LockNote, Goto, board
<1>2. NoteOwners'
  <2>1. ASSUME NEW m \in Notes, m # n, noteLock[m] # NoRequest
        PROVE  noteLock[m] \in Requests /\ noteLock[m] # r
    BY <2>1 DEF NoteOwners
  <2>2. noteLock'[n] = r /\ \A m \in Notes : m # n => noteLock'[m] = noteLock[m]
    BY <1>1
  <2> QED
    BY <1>1, <2>1, <2>2 DEF NoteOwners
<1>3. LinkOwners'
  <2>1. ASSUME NEW m \in Notes, NEW v \in Tags, linkLock[m][v] # NoRequest
        PROVE  linkLock[m][v] \in Requests /\ linkLock[m][v] # r
    BY <1>1, <2>1 DEF LinkOwners
  <2> QED
    BY <1>1, <2>1 DEF LinkOwners
<1>4. TagOwners'
  BY <1>1 DEF TagOwners
<1>5. OnItsNote'
  <2>1. r \in Saves => rest'[r] \subseteq {target'[r]} \X (Tags \ wanted'[r])
    BY <1>1
  <2>2. r \in Purges => rest'[r] \subseteq {target'[r]} \X Tags
    BY <1>1
  <2>3. /\ \A q \in Requests : q # r /\ pc'[q] = "idle" => rest'[q] = {}
        /\ \A q \in Saves : q # r /\ pc'[q] = "unlink" =>
              rest'[q] \subseteq {target'[q]} \X (Tags \ wanted'[q])
        /\ \A q \in Purges : q # r /\ pc'[q] = "unlink" =>
              rest'[q] \subseteq {target'[q]} \X Tags
    BY <1>1 DEF OnItsNote
  <2> QED
    BY <1>1, <2>1, <2>2, <2>3 DEF OnItsNote
<1> QED
  BY <1>2, <1>3, <1>4, <1>5

(* A link is locked, and visited in the same instant.                      *)
LEMMA UnlinkKeepsOwners ==
    ASSUME IInv, Owners, NEW r \in Saves \cup Purges \cup TagDeletes, UnlinkOne(r)
    PROVE  Owners'
<1> USE Kinds DEF Owners, IInv, TypeOK, inputs
<1>1. PICK n \in Notes, t \in Tags :
         /\ <<n, t>> \in rest[r]
         /\ linkLock[n][t] = NoRequest
         /\ rest' = [rest EXCEPT ![r] = @ \ {<<n, t>>}]
         /\ linkLock' = IF t \in links[n] THEN [linkLock EXCEPT ![n][t] = r] ELSE linkLock
  BY DEF UnlinkOne
<1>2. pc[r] = "unlink" /\ UNCHANGED <<noteLock, tagLock, pc, target, wanted>>
  BY DEF UnlinkOne
<1>3. NoteOwners'
  BY <1>2 DEF NoteOwners
<1>4. LinkOwners'
  <2>1. r \in Saves \cup Purges => target[r] = n
    BY <1>1, <1>2 DEF OnItsNote
  <2>2. r \in Saves => t \notin wanted[r]
    BY <1>1, <1>2 DEF OnItsNote
  <2>3. /\ rest'[r] = rest[r] \ {<<n, t>>}
        /\ \A q \in Requests : q # r => rest'[q] = rest[q]
    BY <1>1
  <2>4. ASSUME NEW m \in Notes, NEW v \in Tags, linkLock'[m][v] # NoRequest
        PROVE  \/ linkLock'[m][v] = linkLock[m][v]
               \/ m = n /\ v = t /\ linkLock'[m][v] = r
    BY <1>1, <2>4
  <2>5. \A q \in Requests : rest'[q] \subseteq rest[q]
    BY <2>3
  <2>6. <<n, t>> \notin rest'[r]
    BY <2>3
  <2> QED
    <3> SUFFICES ASSUME NEW m \in Notes, NEW v \in Tags, linkLock'[m][v] # NoRequest
                 PROVE  /\ linkLock'[m][v] \in Saves \cup Purges \cup TagDeletes
                        /\ pc[linkLock'[m][v]] \in {"unlink", "link"}
                        /\ linkLock'[m][v] \in Saves \cup Purges => target[linkLock'[m][v]] = m
                        /\ linkLock'[m][v] \in Saves => v \notin wanted[linkLock'[m][v]]
                        /\ <<m, v>> \notin rest'[linkLock'[m][v]]
      BY <1>2 DEF LinkOwners
    <3>1. CASE linkLock'[m][v] = linkLock[m][v]
      <4>1. linkLock[m][v] \in Requests
        BY <3>1
      <4> QED
        BY <2>5, <3>1, <4>1 DEF LinkOwners
    <3>2. CASE m = n /\ v = t /\ linkLock'[m][v] = r
      BY <1>2, <2>1, <2>2, <2>6, <3>2
    <3> QED
      BY <2>4, <3>1, <3>2
<1>5. TagOwners'
  BY <1>2 DEF TagOwners
<1>6. OnItsNote'
  BY <1>1, <1>2 DEF OnItsNote
<1> QED
  BY <1>3, <1>4, <1>5, <1>6

(* The INSERT of a save takes rows with tags it wants.                     *)
LEMMA LinkingKeepsOwners ==
    ASSUME IInv, Owners, NEW s \in Saves,
           StartLinking(s) \/ LinkOne(s) \/ (CheckTag(s) /\ ~Abort(s))
    PROVE  Owners'
<1> USE Kinds DEF Owners, IInv, TypeOK, locks, inputs
<1>1. /\ UNCHANGED <<noteLock, linkLock, tagLock, target, wanted>>
      /\ pc[s] \in {"unlink", "link"} /\ pc'[s] = "link"
      /\ \A q \in Requests : q # s => pc'[q] = pc[q] /\ rest'[q] = rest[q]
  <2>1. CASE StartLinking(s)
    BY <2>1 DEF StartLinking, Goto
  <2>2. CASE LinkOne(s)
    BY <2>2 DEF LinkOne
  <2>3. CASE CheckTag(s) /\ ~Abort(s)
    BY <2>3 DEF CheckTag
  <2> QED
    BY <2>1, <2>2, <2>3
<1>2. rest'[s] \subseteq {target[s]} \X wanted[s]
  <2>1. CASE StartLinking(s)
    BY <2>1 DEF StartLinking
  <2>2. CASE LinkOne(s)
    BY <2>2 DEF LinkOne, Linking
  <2>3. CASE CheckTag(s) /\ ~Abort(s)
    BY <2>3 DEF CheckTag, Linking
  <2> QED
    BY <2>1, <2>2, <2>3
<1>3. NoteOwners'
  BY <1>1 DEF NoteOwners
<1>4. LinkOwners'
  BY <1>1, <1>2 DEF LinkOwners
<1>5. TagOwners'
  BY <1>1 DEF TagOwners
<1>6. OnItsNote'
  BY <1>1 DEF OnItsNote
<1> QED
  BY <1>3, <1>4, <1>5, <1>6

(* A tag is locked, or a new one begun.                                    *)
LEMMA TagLockKeepsOwners ==
    ASSUME IInv, Owners, NEW r \in TagForms \cup TagDeletes, NEW t \in Tags,
           pc[r] = "idle",
           target' = [target EXCEPT ![r] = t],
           \/ tagLock[t] = NoRequest /\ tagLock' = [tagLock EXCEPT ![t] = r]
           \/ tagLock' = tagLock,
           UNCHANGED <<noteLock, linkLock, wanted>>,
           pc' = [pc EXCEPT ![r] = "name"] \/ pc' = [pc EXCEPT ![r] = "unlink"],
           \A q \in Requests : q # r => rest'[q] = rest[q]
    PROVE  Owners'
<1> USE Kinds DEF Owners, IInv, TypeOK
<1>1. NoteOwners'
  BY DEF NoteOwners
<1>2. LinkOwners'
  BY DEF LinkOwners
<1>3. TagOwners'
  <2>1. \A v \in Tags : v # t \/ tagLock' = tagLock => tagLock'[v] = tagLock[v]
    OBVIOUS
  <2>2. \A v \in Tags : tagLock[v] # NoRequest => tagLock[v] \in Requests /\ tagLock[v] # r
    BY DEF TagOwners
  <2>3. /\ target'[r] = t /\ pc'[r] \in {"name", "unlink"}
        /\ \A q \in Requests : q # r => target'[q] = target[q] /\ pc'[q] = pc[q]
    OBVIOUS
  <2>4. tagLock'[t] \in {r, tagLock[t]}
    OBVIOUS
  <2> QED
    BY <2>1, <2>2, <2>3, <2>4 DEF TagOwners
<1>4. OnItsNote'
  <2>1. /\ pc'[r] \in {"name", "unlink"} /\ r \notin Saves /\ r \notin Purges
        /\ \A q \in Requests : q # r => target'[q] = target[q] /\ pc'[q] = pc[q]
    OBVIOUS
  <2> QED
    BY <2>1 DEF OnItsNote
<1> QED
  BY <1>1, <1>2, <1>3, <1>4

(* Every step.                                                             *)
LEMMA OwnersStep ==
    ASSUME IInv, Owners, [Next]_vars
    PROVE  Owners'
<1> USE Kinds
<1>0. TypeOK
  BY DEF IInv
<1>1. ASSUME NEW s \in Saves, SaveStep(s)
      PROVE  Owners'
  <2>1. CASE UpdateNote(s) /\ ~Abort(s)
    <3>1. /\ target[s] \in Notes /\ target' = [target EXCEPT ![s] = target[s]]
          /\ Outdated(s) \in SUBSET Tags /\ Outdated(s) \cap wanted[s] = {}
      BY <2>1 DEF IInv, TypeOK, Itinerary, UpdateNote, Outdated
    <3> QED
      BY <2>1, <3>1, LockNoteKeepsOwners DEF UpdateNote
  <2>2. CASE CommitSave(s)
    BY <1>0, <2>2, EndKeepsOwners DEF CommitSave
  <2> QED
    BY <1>0, <1>1, <2>1, <2>2, ValidateKeepsOwners, UnlinkKeepsOwners, LinkingKeepsOwners,
       AbortKeepsOwners DEF SaveStep
<1>2. ASSUME NEW m \in Moves, MoveStep(m)
      PROVE  Owners'
  <2>1. End(m) /\ UNCHANGED wanted
    BY <1>2 DEF MoveStep, SetPinned, Archive, Unarchive, MoveToTrash, Restore, ExecNoteState
  <2> QED
    BY <1>0, <2>1, EndKeepsOwners
<1>3. ASSUME NEW p \in Purges, PurgeStep(p)
      PROVE  Owners'
  <2>1. ASSUME NEW n \in Notes, DeletePermanently(p, n), ~Abort(p)
        PROVE  Owners'
    BY <1>0, <2>1, LockNoteKeepsOwners DEF DeletePermanently, TypeOK
  <2>2. CASE CommitPurge(p)
    BY <1>0, <2>2, EndKeepsOwners DEF CommitPurge
  <2> QED
    BY <1>0, <1>3, <2>1, <2>2, UnlinkKeepsOwners, AbortKeepsOwners DEF PurgeStep
<1>4. ASSUME NEW f \in TagForms, TagFormStep(f)
      PROVE  Owners'
  <2>1. ASSUME NEW t \in Tags, NEW g \in Names, UpdateTag(f, t, g), ~Abort(f)
        PROVE  Owners'
    BY <2>1, TagLockKeepsOwners DEF UpdateTag, LockTag, Goto
  <2>2. ASSUME NEW g \in Names, CreateTag(f, g)
        PROVE  Owners'
    BY <2>2, TagLockKeepsOwners DEF CreateTag, Goto, locks, progress
  <2>3. CASE TakeName(f)
    BY <1>0, <2>3, EndKeepsOwners DEF TakeName
  <2> QED
    BY <1>0, <1>4, <2>1, <2>2, <2>3, AbortKeepsOwners DEF TagFormStep, RefuseTagForm
<1>5. ASSUME NEW d \in TagDeletes, TagDeleteStep(d)
      PROVE  Owners'
  <2>1. ASSUME NEW t \in Tags, DeleteTag(d, t), ~Abort(d)
        PROVE  Owners'
    <3>1. /\ pc[d] = "idle" /\ tagLock[t] = NoRequest
          /\ target' = [target EXCEPT ![d] = t]
          /\ tagLock' = [tagLock EXCEPT ![t] = d]
          /\ UNCHANGED <<noteLock, linkLock, wanted>>
          /\ pc' = [pc EXCEPT ![d] = "unlink"]
      BY <2>1 DEF DeleteTag, LockTag, Goto
    <3>2. \A q \in Requests : q # d => rest'[q] = rest[q]
      BY <1>0, <2>1 DEF DeleteTag, TypeOK
    <3> QED
      BY <3>1, <3>2, TagLockKeepsOwners
  <2>2. CASE CommitTagDelete(d)
    BY <1>0, <2>2, EndKeepsOwners DEF CommitTagDelete
  <2> QED
    BY <1>0, <1>5, <2>1, <2>2, UnlinkKeepsOwners, AbortKeepsOwners DEF TagDeleteStep
<1>6. ASSUME NEW r \in Requests, DeadlockVictim(r) \/ StatementFails(r)
      PROVE  Owners'
  BY <1>0, <1>6, AbortKeepsOwners DEF DeadlockVictim, StatementFails
<1>7. CASE UNCHANGED vars
  BY <1>7 DEF vars, board, locks, inputs, progress, Owners, NoteOwners, LinkOwners,
              TagOwners, OnItsNote
<1> QED
  BY <1>1, <1>2, <1>3, <1>4, <1>5, <1>6, <1>7 DEF Next, Quiet

LEMMA OwnersKept == Spec => [](IInv /\ Owners)
<1>1. Init => Owners
  BY Kinds DEF Init, Owners, NoteOwners, LinkOwners, TagOwners, OnItsNote
<1>2. IInv /\ Owners /\ [Next]_vars => Owners'
  BY OwnersStep
<1> QED
  BY <1>1, <1>2, Invariance, PTL DEF Spec

(* What a request waits for: the row of its note, a link on its list, the  *)
(* tag of one of its links, or a tag with the name it asks for.            *)
LEMMA HolderKinds ==
    ASSUME TypeOK, NEW r \in Requests, NEW h \in Holders(r)
    PROVE  /\ h # NoRequest
           /\ \/ pc[r] = "note" /\ h = noteLock[target[r]]
              \/ /\ pc[r] \in {"unlink", "link"}
                 /\ \E n \in Notes, t \in Tags : <<n, t>> \in rest[r] /\ h = linkLock[n][t]
              \/ /\ pc[r] = "link"
                 /\ \E t \in Tags : t \in added[r] /\ h = tagLock[t]
              \/ pc[r] = "name" /\ \E t \in Tags : h = tagLock[t]
<1> USE DEF TypeOK
<1>1. CASE pc[r] = "note"
  BY <1>1 DEF Holders
<1>2. ASSUME pc[r] \in {"unlink", "link"}, h \in Waits(LinkHolders(r))
      PROVE  /\ h # NoRequest
             /\ \E n \in Notes, t \in Tags : <<n, t>> \in rest[r] /\ h = linkLock[n][t]
  <2>1. PICK x \in rest[r] : h = linkLock[x[1]][x[2]]
    BY <1>2 DEF Waits, LinkHolders
  <2>2. x[1] \in Notes /\ x[2] \in Tags /\ x = <<x[1], x[2]>>
    <3>1. x \in Notes \X Tags
      OBVIOUS
    <3> QED
      BY <3>1
  <2>3. h # NoRequest
    BY <1>2 DEF Waits
  <2> QED
    BY <2>1, <2>2, <2>3
<1>3. ASSUME pc[r] = "link", h \in Waits(TagHolders(added[r] \ shared[r]))
      PROVE  h # NoRequest /\ \E t \in Tags : t \in added[r] /\ h = tagLock[t]
  BY <1>3 DEF Waits, TagHolders
<1>4. CASE pc[r] = "name"
  BY <1>4 DEF Holders, TagHolders, Namesakes
<1>5. pc[r] \in {"note", "unlink", "link", "name"}
  BY DEF Holders
<1> QED
  BY <1>1, <1>2, <1>3, <1>4, <1>5 DEF Holders

(* Whoever is waited for is at work: no lock outlives its request.         *)
LEMMA HoldersRun ==
    ASSUME IInv, Owners, NEW r \in Requests, NEW h \in Holders(r)
    PROVE  h \in Requests /\ Running(h) /\ pc[h] # "note"
<1> USE Kinds DEF IInv, Owners, Running
<1>1. TypeOK
  OBVIOUS
<1>2. ASSUME NEW n \in Notes, noteLock[n] # NoRequest
      PROVE  /\ noteLock[n] \in Requests /\ Running(noteLock[n])
             /\ pc[noteLock[n]] # "note"
  BY <1>2 DEF NoteOwners
<1>3. ASSUME NEW n \in Notes, NEW t \in Tags, linkLock[n][t] # NoRequest
      PROVE  /\ linkLock[n][t] \in Requests /\ Running(linkLock[n][t])
             /\ pc[linkLock[n][t]] # "note"
  BY <1>3 DEF LinkOwners
<1>4. ASSUME NEW t \in Tags, tagLock[t] # NoRequest
      PROVE  tagLock[t] \in Requests /\ Running(tagLock[t]) /\ pc[tagLock[t]] # "note"
  BY <1>4 DEF TagOwners
<1>5. pc[r] = "note" => target[r] \in Notes
  BY DEF Itinerary, Requests
<1> HIDE DEF IInv, Owners, Running
<1>6. /\ h # NoRequest
      /\ \/ pc[r] = "note" /\ h = noteLock[target[r]]
         \/ /\ pc[r] \in {"unlink", "link"}
            /\ \E n \in Notes, t \in Tags : <<n, t>> \in rest[r] /\ h = linkLock[n][t]
         \/ /\ pc[r] = "link"
            /\ \E t \in Tags : t \in added[r] /\ h = tagLock[t]
         \/ pc[r] = "name" /\ \E t \in Tags : h = tagLock[t]
  BY <1>1, HolderKinds, Zenon
<1> QED
  BY <1>2, <1>3, <1>4, <1>5, <1>6

(* Whom it is that the kinds of requests wait for.                         *)
LEMMA OrderHolds ==
    ASSUME IInv, Owners
    PROVE  WaitOrder
<1> USE Kinds DEF IInv, Owners
<1>0. TypeOK
  OBVIOUS
<1>1. ASSUME NEW t \in Tags, tagLock[t] # NoRequest
      PROVE  tagLock[t] \in TagForms \cup TagDeletes
  BY <1>1 DEF TagOwners
<1>2. ASSUME NEW s \in Saves, pc[s] # "note", NEW h \in Holders(s)
      PROVE  h \in TagForms \cup TagDeletes
  <2>1. ASSUME pc[s] \in {"unlink", "link"}, NEW n \in Notes, NEW t \in Tags,
               <<n, t>> \in rest[s], h = linkLock[n][t], h # NoRequest
        PROVE  h \in TagDeletes
    <3>1. n = target[s]
      BY <2>1 DEF OnItsNote, Linking
    <3>2. h # s
      BY <2>1 DEF LinkOwners
    <3>3. /\ h \in Saves \cup Purges \cup TagDeletes
          /\ h \in Saves \cup Purges => target[h] = n /\ pc[h] \in {"unlink", "link"}
      BY <2>1 DEF LinkOwners
    <3>4. CASE target[s] = s
      <4>1. note[s] = Absent /\ (h \in Saves => target[h] # s)
        BY <2>1, <3>2, <3>4 DEF Newcomers
      <4>2. h \notin Purges
        BY <3>1, <3>3, <3>4, <4>1 DEF NoteHolders, InTrash, Itinerary
      <4> QED
        BY <3>1, <3>3, <3>4, <4>1, <4>2
    <3>5. CASE target[s] # s
      <4>1. noteLock[n] = s /\ n # s
        BY <2>1, <3>1, <3>5 DEF NoteHolders, Writing
      <4>2. CASE h \in Saves
        <5>1. n # h
          BY <2>1, <3>1, <3>2, <3>3, <4>2 DEF Newcomers
        <5> QED
          BY <3>2, <3>3, <4>1, <4>2, <5>1 DEF NoteHolders, Writing
      <4>3. CASE h \in Purges
        BY <3>2, <3>3, <4>1, <4>3 DEF NoteHolders, Itinerary
      <4> QED
        BY <3>3, <4>2, <4>3
    <3> QED
      BY <3>4, <3>5
  <2>2. /\ h # NoRequest
        /\ \/ /\ pc[s] \in {"unlink", "link"}
              /\ \E n \in Notes, t \in Tags : <<n, t>> \in rest[s] /\ h = linkLock[n][t]
           \/ \E t \in Tags : h = tagLock[t]
    BY <1>0, <1>2, HolderKinds DEF Itinerary
  <2> HIDE DEF IInv, Owners
  <2> QED
    BY <1>1, <2>1, <2>2
<1>3. ASSUME NEW p \in Purges, pc[p] # "note", NEW h \in Holders(p)
      PROVE  h \in TagForms \cup TagDeletes
  <2>1. ASSUME pc[p] = "unlink", NEW n \in Notes, NEW t \in Tags,
               <<n, t>> \in rest[p], h = linkLock[n][t], h # NoRequest
        PROVE  h \in TagDeletes
    <3>1. n = target[p] /\ noteLock[n] = p /\ note[n] \in InTrash
      BY <2>1 DEF OnItsNote, NoteHolders
    <3>2. h # p
      BY <2>1 DEF LinkOwners
    <3>3. /\ h \in Saves \cup Purges \cup TagDeletes
          /\ h \in Saves \cup Purges => target[h] = n /\ pc[h] \in {"unlink", "link"}
      BY <2>1 DEF LinkOwners
    <3>4. CASE h \in Saves
      <4>1. n # h
        BY <3>1, <3>3, <3>4 DEF Newcomers, InTrash
      <4> QED
        BY <3>1, <3>2, <3>3, <3>4, <4>1 DEF NoteHolders, Writing
    <3>5. CASE h \in Purges
      BY <3>1, <3>2, <3>3, <3>5 DEF NoteHolders, Itinerary
    <3> QED
      BY <3>3, <3>4, <3>5
  <2>2. pc[p] \in {"idle", "unlink", "ended"}
    BY DEF Itinerary
  <2>3. /\ h # NoRequest /\ pc[p] = "unlink"
        /\ \E n \in Notes, t \in Tags : <<n, t>> \in rest[p] /\ h = linkLock[n][t]
    BY <1>0, <1>3, <2>2, HolderKinds
  <2> HIDE DEF IInv, Owners
  <2> QED
    BY <2>1, <2>3
<1>4. ASSUME NEW d \in TagDeletes, NEW h \in Holders(d)
      PROVE  h \in Saves \cup Purges
  <2>1. PICK n \in Notes, t \in Tags : <<n, t>> \in rest[d] /\ h = linkLock[n][t]
    BY <1>0, HolderKinds DEF Itinerary
  <2>2. pc[d] = "unlink" /\ h # NoRequest
    BY <1>0, HolderKinds DEF Itinerary
  <2>3. t = target[d] /\ tagLock[t] = d
    BY <2>1, <2>2 DEF LinksHeld, TagsHeld, TagLocked
  <2>4. h # d /\ h \in Saves \cup Purges \cup TagDeletes
    BY <2>1, <2>2 DEF LinkOwners
  <2>5. ASSUME h \in TagDeletes
        PROVE  FALSE
    BY <2>1, <2>3, <2>4, <2>5 DEF LinksHeld, TagsHeld, TagLocked
  <2> QED
    BY <2>4, <2>5
<1>5. ASSUME NEW f \in TagForms, NEW h \in Holders(f)
      PROVE  h \in TagForms \cup TagDeletes
  BY <1>0, <1>1, HolderKinds DEF Itinerary
<1> QED
  BY <1>2, <1>3, <1>4, <1>5 DEF WaitOrder

(* A save or a purge that has its note waits only for those who change     *)
(* tags, the deletion of a tag only for those who write notes, the form of *)
(* a tag only for those who change tags, for every number of each.         *)
THEOREM WaitsOrdered == Spec => []WaitOrder
  BY OwnersKept, OrderHolds, PTL

-----------------------------------------------------------------------------
(* Requests that all wait, and only for each other.                        *)
Tangled(S) ==
    /\ S \in (SUBSET Requests) \ {{}}
    /\ \A r \in S : Holders(r) # {} /\ Holders(r) \subseteq S

(* Where some are tangled there are some no fewer of which would be.       *)
LEMMA SmallestTangle ==
    ASSUME IsFiniteSet(Requests), NEW S, Tangled(S)
    PROVE  \E M : Tangled(M) /\ \A T \in SUBSET M : Tangled(T) => T = M
<1> DEFINE All == {T \in SUBSET Requests : Tangled(T)}
<1>1. IsWellFoundedOn(StrictSubsetOrdering(Requests), SUBSET Requests)
  BY FS_StrictSubsetOrderingWellFounded, FS_FiniteSubsetsOfFinite
<1>2. All \subseteq SUBSET Requests /\ All # {}
  BY DEF Tangled
<1>3. PICK M \in All : \A T \in All : <<T, M>> \notin StrictSubsetOrdering(Requests)
  <2> HIDE DEF All
  <2> QED
    BY <1>1, <1>2, WFMin
<1>4. \A T \in SUBSET M : Tangled(T) => T = M
  BY <1>3 DEF StrictSubsetOrdering
<1> QED
  BY <1>3, <1>4

(* In the smallest of them everybody waits for himself in the end.         *)
LEMMA TangleIsCircle ==
    ASSUME NEW M, Tangled(M), \A T \in SUBSET M : Tangled(T) => T = M, NEW v \in M
    PROVE  WaitsForItself(v)
<1>1. Holders(v) # {} /\ Holders(v) \subseteq M
  BY DEF Tangled
<1>2. ASSUME NEW S \in SUBSET Requests, Holders(v) \subseteq S,
             \A s \in S : Holders(s) \subseteq S
      PROVE  v \in S
  <2>1. Tangled(S \cap M)
    BY <1>1, <1>2 DEF Tangled
  <2> QED
    BY <2>1
<1> QED
  BY <1>1, <1>2 DEF WaitsForItself

(* As long as a request runs, one of those that run waits for nobody, or   *)
(* is in a circle that PostgreSQL breaks: whatever number of saves, purges *)
(* and changes of tags meet, no lock is left behind and none waits for     *)
(* ever for a request that is not there any more.                          *)
THEOREM NobodyLeftWaiting ==
    ASSUME IsFiniteSet(Requests)
    PROVE  Spec => []SomebodyGoesOn
<1>1. ASSUME IInv, Owners
      PROVE  SomebodyGoesOn
  <2> SUFFICES ASSUME NEW q \in Requests, Running(q),
                      \A r \in Requests : Running(r) => Holders(r) # {}
               PROVE  \E r \in Requests : Running(r) /\ WaitsForItself(r)
    BY DEF SomebodyGoesOn
  <2> DEFINE S == {r \in Requests : Running(r)}
  <2>1. Tangled(S)
    BY <1>1, HoldersRun DEF Tangled
  <2>2. PICK M : Tangled(M) /\ \A T \in SUBSET M : Tangled(T) => T = M
    <3> HIDE DEF S
    <3> QED
      BY <2>1, SmallestTangle
  <2>3. PICK v \in M : TRUE
    BY <2>2 DEF Tangled
  <2>4. WaitsForItself(v) /\ v \in Requests
    BY <2>2, TangleIsCircle DEF Tangled
  <2>5. Running(v)
    BY <2>4 DEF WaitsForItself, Holders, Running
  <2> QED
    BY <2>4, <2>5
<1> QED
  BY <1>1, OwnersKept, PTL

(* A request that PostgreSQL has to fail to break a circle is a change of  *)
(* tags or waits for one: saves, moves and purges by themselves never end  *)
(* in a deadlock, whatever notes they write in whatever order.             *)
THEOREM DeadlocksNeedTags ==
    Spec => [](\A r \in Requests : WaitsForItself(r) =>
                  \E h \in TagForms \cup TagDeletes : Running(h))
<1>1. ASSUME IInv, Owners, NEW r \in Requests, WaitsForItself(r)
      PROVE  \E h \in TagForms \cup TagDeletes : Running(h)
  <2>1. PICK h \in Holders(r) : TRUE
    BY <1>1 DEF WaitsForItself
  <2>2. pc[r] # "note"
    <3> SUFFICES ASSUME pc[r] = "note"
                 PROVE  FALSE
      OBVIOUS
    <3>1. \A s \in Requests : Holders(s) \subseteq Requests \ {r}
      BY <1>1, HoldersRun
    <3> QED
      BY <1>1, <3>1 DEF WaitsForItself
  <2>3. CASE r \in Saves \cup Purges
    BY <1>1, <2>1, <2>2, <2>3, OrderHolds, HoldersRun DEF WaitOrder
  <2>4. CASE r \in TagForms \cup TagDeletes
    BY <2>4, <1>1 DEF WaitsForItself, Holders, Running
  <2>5. CASE r \in Moves
    BY <1>1, <2>5 DEF WaitsForItself, Holders, IInv, Itinerary
  <2> QED
    BY <2>3, <2>4, <2>5 DEF Requests
<1> DEFINE Entangled == \A r \in Requests : WaitsForItself(r) =>
                           \E h \in TagForms \cup TagDeletes : Running(h)
<1>2. IInv /\ Owners => Entangled
  BY <1>1
<1>3. Spec => []Entangled
  <2> HIDE DEF Entangled
  <2> QED
    BY <1>2, OwnersKept, PTL
<1> QED
  BY <1>3

=============================================================================
