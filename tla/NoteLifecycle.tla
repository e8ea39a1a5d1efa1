----------------------------- MODULE NoteLifecycle -----------------------------
(***************************************************************************)
(* The notes and the tags of one user: notes are written, pinned, archived *)
(* thrown away, restored and deleted for good, tags are made, renamed and  *)
(* deleted, by requests that run at once on public.notes, notes_content,   *)
(* note_tags and note_tag_links.                                           *)
(*                                                                         *)
(* The grain is the SQL statement under READ COMMITTED.  A transaction     *)
(* changes what others see when it commits; until then the rows it has     *)
(* written are locked, and a link it has inserted keeps its tag from being *)
(* deleted or renamed.  A note, a tag that a request makes is named after  *)
(* the request.                                                            *)
(***************************************************************************)
EXTENDS Naturals, FiniteSets

CONSTANTS
    KeptNotes,    \* the notes there are at first
    KeptTags,     \* the tags there are at first, called by their own names
    Saves,        \* POST /note, with an id or without
    Moves,        \* POST /note/{id}/pin, unpin, archive, unarchive, restore
                  \* and DELETE /note/{id}
    Purges,       \* DELETE /note/{id}/destroy
    TagForms,     \* POST /tags and POST /tags/{id}
    TagDeletes,   \* POST /tags/{id}/delete
    Names,        \* what tags may be called
    MaxTags,      \* validations.MaxNoteTags
    Absent,       \* no row, null
    NoRequest,    \* a row nobody has locked
    Faults        \* what may go wrong around the code

Notes == KeptNotes \cup Saves
Tags == KeptTags \cup TagForms
Requests == Saves \cup Moves \cup Purges \cup TagForms \cup TagDeletes

FaultKinds == {"database"}  \* a statement fails, or the answer to COMMIT is lost

Disjoint(A, B) == A \cap B = {}

ASSUME RequestAssumption ==
    /\ Disjoint(Saves, Moves \cup Purges \cup TagForms \cup TagDeletes)
    /\ Disjoint(Moves, Purges \cup TagForms \cup TagDeletes)
    /\ Disjoint(Purges, TagForms \cup TagDeletes)
    /\ Disjoint(TagForms, TagDeletes)
    /\ NoRequest \notin Requests

ASSUME RowAssumption ==
    /\ Disjoint(KeptNotes \cup KeptTags, Requests)
    /\ Disjoint(KeptNotes, KeptTags)
    /\ KeptTags \subseteq Names
    /\ Absent \notin Notes \cup Tags \cup Names
    /\ IsFiniteSet(Tags)
    /\ MaxTags \in Nat

ASSUME FaultAssumption == Faults \subseteq FaultKinds

VARIABLES
    note,      \* note[n]: the committed row of public.notes
    content,   \* content[n]: the save that wrote its row of notes_content
    links,     \* links[n]: the tags in its committed rows of note_tag_links
    name,      \* name[t]: the name, and slug, of a committed row of note_tags
    noteLock,  \* noteLock[n]: who has written the row of note n
    linkLock,  \* linkLock[n][t]: who has deleted the link of n with t
    tagLock,   \* tagLock[t]: who has deleted or renamed tag t
    pc,        \* pc[r]: the next statement of request r
    target,    \* target[r]: the note or tag a request is about
    wanted,    \* wanted[r]: the tags a save selects
    asked,     \* asked[r]: the name a tag is to have
    rest,      \* rest[r]: the links a statement of r has yet to reach
    added,     \* added[r]: the tags save r has inserted links with
    shared     \* shared[r]: those of them it has locked for its foreign keys

board == <<note, content, links, name>>
locks == <<noteLock, linkLock, tagLock>>
inputs == <<target, wanted, asked>>
progress == <<rest, added, shared>>
vars == <<board, locks, pc, inputs, progress>>

Rows == [archived: BOOLEAN, deleted: BOOLEAN, pinned: BOOLEAN]

ASSUME AbsentAssumption == Absent \notin Rows \cup {"active", "pinned", "archived", "trash"}

Active == {r \in Rows : ~r.archived /\ ~r.deleted}
Archived == {r \in Rows : r.archived /\ ~r.deleted}
InTrash == {r \in Rows : r.deleted}
WritableAny == Rows   \* variant: a note in the trash is written too
Writable == Rows \ InTrash
Steps == {"idle", "note", "unlink", "link", "name", "ended"}

Running(r) == pc[r] \notin {"idle", "ended"}

TypeOK ==
    /\ note \in [Notes -> Rows \cup {Absent}]
    /\ content \in [Notes -> Saves \cup {Absent}]
    /\ links \in [Notes -> SUBSET Tags]
    /\ name \in [Tags -> Names \cup {Absent}]
    /\ noteLock \in [Notes -> Requests \cup {NoRequest}]
    /\ linkLock \in [Notes -> [Tags -> Requests \cup {NoRequest}]]
    /\ tagLock \in [Tags -> Requests \cup {NoRequest}]
    /\ pc \in [Requests -> Steps]
    /\ target \in [Requests -> Notes \cup Tags \cup {Absent}]
    /\ wanted \in [Requests -> SUBSET Tags]
    /\ asked \in [Requests -> Names \cup {Absent}]
    /\ rest \in [Requests -> SUBSET (Notes \X Tags)]
    /\ added \in [Requests -> SUBSET Tags]
    /\ shared \in [Requests -> SUBSET Tags]

FreshUnset ==   \* variant: a column without its default
    [archived |-> FALSE, deleted |-> FALSE, pinned |-> Absent]
Fresh == [archived |-> FALSE, deleted |-> FALSE, pinned |-> FALSE]
Existing == {t \in Tags : name[t] # Absent}

Init ==
    /\ note \in [Notes -> {r \in Rows : r.pinned => r \in Active} \cup {Absent}]
    /\ \A n \in Notes : note[n] = Absent <=> n \in Saves
    /\ content = [n \in Notes |-> Absent]
    /\ links \in [Notes -> {W \in SUBSET KeptTags : Cardinality(W) <= MaxTags}]
    /\ \A n \in Saves : links[n] = {}
    /\ name = [t \in Tags |-> IF t \in KeptTags THEN t ELSE Absent]
    /\ noteLock = [n \in Notes |-> NoRequest]
    /\ linkLock = [n \in Notes |-> [t \in Tags |-> NoRequest]]
    /\ tagLock = [t \in Tags |-> NoRequest]
    /\ pc = [r \in Requests |-> "idle"]
    /\ target = [r \in Requests |-> Absent]
    /\ wanted = [r \in Requests |-> {}]
    /\ asked = [r \in Requests |-> Absent]
    /\ rest = [r \in Requests |-> {}]
    /\ added = [r \in Requests |-> {}]
    /\ shared = [r \in Requests |-> {}]

Goto(r, step) == pc' = [pc EXCEPT ![r] = step]
-----------------------------------------------------------------------------
(* The end of a request: of its transaction, and of what it was about.     *)
FreedNone(lock, r) == lock   \* variant: the transaction is left open
Freed(lock, r) == [x \in DOMAIN lock |-> IF lock[x] = r THEN NoRequest ELSE lock[x]]

End(r) ==
    /\ noteLock' = Freed(noteLock, r)
    /\ linkLock' = [n \in Notes |-> Freed(linkLock[n], r)]
    /\ tagLock' = Freed(tagLock, r)
    /\ target' = [target EXCEPT ![r] = Absent]
    /\ asked' = [asked EXCEPT ![r] = Absent]
    /\ rest' = [rest EXCEPT ![r] = {}]
    /\ added' = [added EXCEPT ![r] = {}]
    /\ shared' = [shared EXCEPT ![r] = {}]
    /\ Goto(r, "ended")

(* "defer tx.Rollback(ctx)": an error anywhere undoes the transaction.     *)
Abort(r) ==
    /\ End(r)
    /\ wanted' = [wanted EXCEPT ![r] = {}]
    /\ UNCHANGED board

StatementFails(r) ==
    /\ "database" \in Faults
    /\ Running(r)
    /\ Abort(r)

-----------------------------------------------------------------------------
(* POST /note.  NoteService.Save lists the tags there are and refuses a    *)
(* selection with another or with too many; it may refuse the title or the *)
(* text as well.  A selection is a set, for NormalizeTagIDs drops          *)
(* duplicates.  With no id a note is made: its rows are inserted where     *)
(* nobody else can see them yet, and those statements wait for nobody.     *)
Present == {n \in Notes : note[n] # Absent}

ValidSelection(W) == W \subseteq Existing /\ Cardinality(W) <= MaxTags

Validate(s) ==
    /\ pc[s] = "idle"
    /\ \/ /\ \E W \in SUBSET Tags : ValidSelection(W) /\ wanted' = [wanted EXCEPT ![s] = W]
          /\ \E n \in Present \cup {s} :
                /\ target' = [target EXCEPT ![s] = n]
                /\ Goto(s, IF n = s THEN "unlink" ELSE "note")
       \/ Goto(s, "ended") /\ UNCHANGED <<wanted, target>>
    /\ UNCHANGED <<board, locks, asked, progress>>

LockNote(r, n, doomed) ==
    /\ noteLock' = [noteLock EXCEPT ![n] = r]
    /\ rest' = [rest EXCEPT ![r] = {n} \X doomed]
    /\ Goto(r, "unlink")
    /\ UNCHANGED <<board, linkLock, tagLock, wanted, asked, added, shared>>

(* Variant: the tags no longer selected keep their links.                  *)
NoneOutdated(s) == {}

(* "note_tag_links.tag_id <> all($3)"                                      *)
Outdated(s) == links[target[s]] \ wanted[s]

(* Variant: the note is only read, so that two saves of it run at once.    *)
ReadNote(s) ==
    /\ pc[s] = "note"
    /\ \/ /\ note[target[s]] \in Writable
          /\ rest' = [rest EXCEPT ![s] = {target[s]} \X Outdated(s)]
          /\ Goto(s, "unlink")
          /\ UNCHANGED <<board, locks, inputs, added, shared>>
       \/ Abort(s)

(* Update: the note is locked by the UPDATE of updated_at, which asks for  *)
(* one not in the trash, and so is its content by the next statement, that *)
(* may be refused for a blank colour.  The links to delete are looked up   *)
(* again when their turn comes.                                            *)
UpdateNote(s) ==
    /\ pc[s] = "note"
    /\ noteLock[target[s]] = NoRequest
    /\ \/ /\ note[target[s]] \in Writable
          /\ LockNote(s, target[s], Outdated(s))
          /\ UNCHANGED target
       \/ Abort(s)

(* A link that is about to be deleted may be gone by now, or somebody else *)
(* deleting it, and then the statement waits.                              *)
UnlinkOne(r) ==
    /\ pc[r] = "unlink"
    /\ \E n \in Notes, t \in Tags :
          /\ <<n, t>> \in rest[r]
          /\ linkLock[n][t] = NoRequest
          /\ rest' = [rest EXCEPT ![r] = @ \ {<<n, t>>}]
          /\ linkLock' = IF t \in links[n] THEN [linkLock EXCEPT ![n][t] = r] ELSE linkLock
    /\ UNCHANGED <<board, noteLock, tagLock, pc, inputs, added, shared>>

(* "insert ... select ... from note_tags where id = any($3)": a tag that   *)
(* was deleted since the form was checked is not selected any more.        *)
StartLinking(s) ==
    /\ pc[s] = "unlink"
    /\ rest[s] = {}
    /\ rest' = [rest EXCEPT ![s] = {target[s]} \X (wanted[s] \cap Existing)]
    /\ Goto(s, "link")
    /\ UNCHANGED <<board, locks, inputs, added, shared>>

(* "on conflict do nothing", once it is known whether the link stays.      *)
LinkOne(s) ==
    /\ pc[s] = "link"
    /\ \E t \in Tags :
          /\ <<target[s], t>> \in rest[s]
          /\ linkLock[target[s]][t] = NoRequest
          /\ rest' = [rest EXCEPT ![s] = @ \ {<<target[s], t>>}]
          /\ added' = IF t \in links[target[s]] THEN added ELSE [added EXCEPT ![s] = @ \cup {t}]
    /\ UNCHANGED <<board, locks, pc, inputs, shared>>

(* When all rows are in, the foreign key of each is checked: that locks    *)
(* the tag against those who would delete or rename it, waits for the one  *)
(* who is doing so and fails if it is gone.                                *)
CheckTag(s) ==
    /\ pc[s] = "link"
    /\ rest[s] = {}
    /\ \E t \in added[s] \ shared[s] :
          /\ tagLock[t] = NoRequest
          /\ \/ /\ t \in Existing
                /\ shared' = [shared EXCEPT ![s] = @ \cup {t}]
                /\ UNCHANGED <<board, locks, pc, inputs, rest, added>>
             \/ t \notin Existing /\ Abort(s)

(* What a transaction leaves of the links of a note.                       *)
Kept(r, n) == {t \in links[n] : linkLock[n][t] # r}

CommitSave(s) ==
    /\ pc[s] = "link"
    /\ rest[s] = {}
    /\ added[s] = shared[s]
    /\ note' = IF target[s] = s THEN [note EXCEPT ![s] = Fresh] ELSE note
    /\ content' = [content EXCEPT ![target[s]] = s]
    /\ links' = [links EXCEPT ![target[s]] = Kept(s, target[s]) \cup added[s]]
    /\ End(s)
    /\ UNCHANGED <<name, wanted>>

-----------------------------------------------------------------------------
(* execNoteState: one statement on one note, and no row is ErrNotFound.    *)
ExecNoteState(m, n, from, row) ==
    /\ pc[m] = "idle"
    /\ noteLock[n] = NoRequest
    /\ note' = IF note[n] \in from THEN [note EXCEPT ![n] = row] ELSE note
    /\ End(m)
    /\ UNCHANGED <<content, links, name, wanted>>

(* Variant: the pin stays on.                                              *)
ArchivedPinned(row) == [row EXCEPT !.archived = TRUE]
ArchivedRow(row) == [row EXCEPT !.archived = TRUE, !.pinned = FALSE]

SetPinned(m, n) ==
    \E pinned \in BOOLEAN : ExecNoteState(m, n, Active, [note[n] EXCEPT !.pinned = pinned])
Archive(m, n) == ExecNoteState(m, n, Active, ArchivedRow(note[n]))
Unarchive(m, n) == ExecNoteState(m, n, Archived, [note[n] EXCEPT !.archived = FALSE])
MoveToTrash(m, n) ==
    ExecNoteState(m, n, Writable, [note[n] EXCEPT !.deleted = TRUE, !.pinned = FALSE])
Restore(m, n) ==
    ExecNoteState(m, n, InTrash, [note[n] EXCEPT !.deleted = FALSE, !.archived = FALSE])

(* DELETE FROM notes, of a note in the trash, which takes its links along. *)
DeletePermanently(p, n) ==
    /\ pc[p] = "idle"
    /\ noteLock[n] = NoRequest
    /\ \/ /\ note[n] \in InTrash
          /\ LockNote(p, n, links[n])
          /\ target' = [target EXCEPT ![p] = n]
       \/ note[n] \notin InTrash /\ Abort(p)

CommitPurge(p) ==
    /\ pc[p] = "unlink"
    /\ rest[p] = {}
    /\ note' = [note EXCEPT ![target[p]] = Absent]
    /\ content' = [content EXCEPT ![target[p]] = Absent]
    /\ links' = [links EXCEPT ![target[p]] = Kept(p, target[p])]
    /\ End(p)
    /\ UNCHANGED <<name, wanted>>

-----------------------------------------------------------------------------
(* A tag is written when nobody else has written it and, its row or its    *)
(* name being about to go, no save holds it for a link.                    *)
Sharers(t) == {s \in Saves : t \in shared[s]}

LockTag(r, t) ==
    /\ t \in Existing
    /\ Sharers(t) = {}
    /\ tagLock' = [tagLock EXCEPT ![t] = r]
    /\ target' = [target EXCEPT ![r] = t]
    /\ UNCHANGED <<board, noteLock, linkLock, wanted, added, shared>>

(* DELETE FROM note_tags, which takes the links of the tag along.          *)
DeleteTag(d, t) ==
    /\ pc[d] = "idle"
    /\ tagLock[t] = NoRequest
    /\ \/ /\ LockTag(d, t)
          /\ rest' = [rest EXCEPT ![d] = {n \in Notes : t \in links[n]} \X {t}]
          /\ Goto(d, "unlink")
          /\ UNCHANGED asked
       \/ t \notin Existing /\ Abort(d)

CommitTagDelete(d) ==
    /\ pc[d] = "unlink"
    /\ rest[d] = {}
    /\ name' = [name EXCEPT ![target[d]] = Absent]
    /\ links' = [n \in Notes |-> Kept(d, n)]
    /\ End(d)
    /\ UNCHANGED <<note, content, wanted>>

(* UPDATE note_tags: with the name it has (another colour) it neither      *)
(* waits for a save that has linked the tag nor looks at other names.      *)
UpdateTag(f, t, g) ==
    /\ pc[f] = "idle"
    /\ tagLock[t] = NoRequest
    /\ \/ /\ g # name[t]
          /\ LockTag(f, t)
          /\ asked' = [asked EXCEPT ![f] = g]
          /\ Goto(f, "name")
          /\ UNCHANGED rest
       \/ g = name[t] /\ Abort(f)
       \/ t \notin Existing /\ Abort(f)

(* INSERT INTO note_tags.                                                  *)
CreateTag(f, g) ==
    /\ pc[f] = "idle"
    /\ target' = [target EXCEPT ![f] = f]
    /\ asked' = [asked EXCEPT ![f] = g]
    /\ Goto(f, "name")
    /\ UNCHANGED <<board, locks, wanted, progress>>

(* ValidateNoteTagForm refuses the name or the colour.                     *)
RefuseTagForm(f) ==
    /\ pc[f] = "idle"
    /\ Abort(f)

(* The unique index on user and slug, which ends both INSERT and UPDATE: a *)
(* tag of that name that is being deleted or renamed is waited for.        *)
Namesakes(f) == {t \in Tags \ {target[f]} : name[t] = asked[f]}

TakeName(f) ==
    /\ pc[f] = "name"
    /\ \A t \in Namesakes(f) : tagLock[t] = NoRequest
    /\ name' = IF Namesakes(f) = {} THEN [name EXCEPT ![target[f]] = asked[f]] ELSE name
    /\ End(f)
    /\ UNCHANGED <<note, content, links, wanted>>

-----------------------------------------------------------------------------
(* Whom a request waits for, and whether it waits for itself in the end:   *)
(* PostgreSQL ends such a circle by failing the statement of one of them.  *)
LinkHolders(r) == {linkLock[x[1]][x[2]] : x \in rest[r]}
TagHolders(T) == {tagLock[t] : t \in T}

Waits(holders) == IF NoRequest \in holders THEN {} ELSE holders

Holders(r) ==
    CASE pc[r] = "note" -> {noteLock[target[r]]} \ {NoRequest}
      [] pc[r] = "unlink" -> Waits(LinkHolders(r))
      [] pc[r] = "link" ->
            Waits(IF rest[r] # {} THEN LinkHolders(r) ELSE TagHolders(added[r] \ shared[r]))
      [] pc[r] = "name" -> TagHolders(Namesakes(r)) \ {NoRequest}
      [] OTHER -> {}

WaitsForItself(r) ==
    /\ Holders(r) # {}
    /\ \A S \in SUBSET Requests :
          (Holders(r) \subseteq S /\ \A s \in S : Holders(s) \subseteq S) => r \in S

DeadlockVictim(r) ==
    /\ WaitsForItself(r)
    /\ Abort(r)

-----------------------------------------------------------------------------
SaveStep(s) ==
    \/ Validate(s)
    \/ UpdateNote(s)
    \/ UnlinkOne(s)
    \/ StartLinking(s)
    \/ LinkOne(s)
    \/ CheckTag(s)
    \/ CommitSave(s)

MoveStep(m) ==
    \E n \in Notes :
        \/ SetPinned(m, n)
        \/ Archive(m, n)
        \/ Unarchive(m, n)
        \/ MoveToTrash(m, n)
        \/ Restore(m, n)

PurgeStep(p) ==
    \/ \E n \in Notes : DeletePermanently(p, n)
    \/ UnlinkOne(p)
    \/ CommitPurge(p)

TagFormStep(f) ==
    \/ \E t \in Tags, g \in Names : UpdateTag(f, t, g)
    \/ \E g \in Names : CreateTag(f, g)
    \/ RefuseTagForm(f)
    \/ TakeName(f)

TagDeleteStep(d) ==
    \/ \E t \in Tags : DeleteTag(d, t)
    \/ UnlinkOne(d)
    \/ CommitTagDelete(d)

Quiet ==
    /\ \A r \in Requests : ~Running(r)
    /\ UNCHANGED vars

Next ==
    \/ \E s \in Saves : SaveStep(s)
    \/ \E m \in Moves : MoveStep(m)
    \/ \E p \in Purges : PurgeStep(p)
    \/ \E f \in TagForms : TagFormStep(f)
    \/ \E d \in TagDeletes : TagDeleteStep(d)
    \/ \E r \in Requests : DeadlockVictim(r) \/ StatementFails(r)
    \/ Quiet

Spec == Init /\ [][Next]_vars

-----------------------------------------------------------------------------
(* A pin is for notes on the board: SetPinned asks that the note is        *)
(* neither archived nor in the trash, Archive and MoveToTrash take the pin *)
(* off, and Restore and Unarchive rely on its being off.                   *)
PinnedAreActive == \A n \in Notes : note[n] # Absent /\ note[n].pinned => note[n] \in Active

(* Title, text and tags of a note are those of one save, whatever other    *)
(* saves, tag deletions and renames run meanwhile: the tags it selected,   *)
(* without the ones that do not exist any more.                            *)
LinksFitContent ==
    \A n \in Notes :
        content[n] # Absent => links[n] = wanted[content[n]] \cap Existing

(* Whom requests may wait for.  A save or a purge that has its note waits  *)
(* only for those who change tags, so that saves, moves and purges alone   *)
(* never end in a deadlock; the deletion of a tag waits only for those who *)
(* write notes, the form of a tag only for those who change tags.          *)
WaitOrder ==
    /\ \A r \in Saves \cup Purges :
          pc[r] # "note" => Holders(r) \subseteq TagForms \cup TagDeletes
    /\ \A d \in TagDeletes : Holders(d) \subseteq Saves \cup Purges
    /\ \A f \in TagForms : Holders(f) \subseteq TagForms \cup TagDeletes

(* As long as a request runs, one of those that run waits for nobody, or   *)
(* waits for itself in the end and is failed: no lock outlives the request *)
(* that took it, and no circle of waiting requests is overlooked.          *)
SomebodyGoesOn ==
    (\E r \in Requests : Running(r)) =>
        \E r \in Requests : Running(r) /\ (Holders(r) = {} \/ WaitsForItself(r))

(* The board as its user knows it, where a pinned note is a place apart.   *)
Place(n) ==
    IF note[n] = Absent THEN Absent
    ELSE IF note[n].deleted THEN "trash"
    ELSE IF note[n].archived THEN "archived"
    ELSE IF note[n].pinned THEN "pinned" ELSE "active"

Book == INSTANCE Notebook WITH Writers <- Saves, place <- [n \in Notes |-> Place(n)]

(* Every request takes place in one instant, when its transaction commits, *)
(* and what its statements had found out is still true then: no save into  *)
(* the trash, no tag on a note that was deleted meanwhile.                 *)
ImplementsNotebook == Book!Spec

=============================================================================
