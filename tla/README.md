# Bridopen in TLA+

Bridopen is a server for personal notes (Go, `net/http`, PostgreSQL through
pgx, sessions in scs, files on the local disk). It has no domain engine to
speak of; what makes it hard is that every request is a short program of SQL
statements, mails and file-system calls, that requests of one account run at
the same time, and that most of them are not one transaction. The models here
are therefore about concurrent *requests of one account*, at the grain of the
statement, under PostgreSQL's READ COMMITTED.

Paths below are relative to the repository: `NS` =
`src/internal/handlers/notes/service/service.go`, `NR` =
`src/internal/handlers/notes/repositories/repository.go`, `US` and `UR` the
same for `users`, `UH` = `src/internal/handlers/users/handler`.

## Inventory

| Component | State it keeps | Operations | Hard behaviour | What makes it correct |
|---|---|---|---|---|
| Attachments of a note (NS, NR, US) | rows of `note_attachments`, files under the storage directory, row locks | upload, remove, delete a note for good, delete the account | rows and files change in separate steps; seconds pass between the check of an upload and its row; a request's context may end; crash | a row has its file; at most 10 per note; rows only on notes out of the trash; failures undo what they did |
| Mailed links (UR, US, UH/signup, password, recovery_email) | `users`, `users_confirmation_tokens` | sign up, resend, confirm, forget, reset, change password, ask for, confirm and cancel a recovery address | tokens are found outside the transaction that uses them; user and token are locked in opposite orders; the mail fails after the commit | a link does what it was mailed for; what replaces a link kills it; an account is registered once |
| Two-step verification (US, UR, UH/two_factor, auth) | method in `users`, `users_two_factor_challenges`, `users_recovery_codes` | start and verify a setup, a login, a disabling; regenerate and use recovery codes | a code is compared with what was read earlier; use of a recovery code, consumption of the challenge and activation are separate statements | a challenge lets one request pass, within its attempts; a recovery code completes one login |
| User sessions (UR 956-1130, UH/auth, UH/security, `platform/middleware`) | `user_sessions`; scs session data, loaded at the start and saved at the end of a request | sign in, sign out, revoke the others, RequireAuth with its touch | revocation racing a request; last writer of the session data wins; 30 minutes and 1 hour of expiry | who begins after a session was ended is not let in with it; a token never turns from one session into another; rows open and close once |
| Note lifecycle, saving, tags (NS 156-340, NR 87-200, 593-821) | `notes`, `notes_content`, `note_tags`, `note_tag_links` | save, pin, archive, trash, restore, create, rename and delete tags | tags are checked before the transaction; deletions cascade to links a save inserts or deletes; three kinds of requests can wait for one another in a circle | an archived or trashed note is not pinned; text and tags of a note are those of one save; every request takes place in one instant |
| Rate limiter (`src/cmd/http/security.go`) | times per address under a mutex | allow | the clock is read before the lock | no more than 8 in a minute; nobody refused for others' requests |
| Personal data, export | `users_personal_information` | save, export | none: single statements | - |
| Listings, search, rendering, DTOs, legal pages, browser code | none | read | none | - |
| Audit trail | `auditoria.events` | insert, failure only logged | none: nothing depends on it | - |
| Mailer, captcha, ClamAV, CSRF, headers, config | none of their own | calls to the outside | failure | appears in the models as a call that fails |

Interaction is by shared rows: attachments and the lifecycle share the row of a
note and its lock, everything shares the row of the user (whose deletion
cascades into all other tables), sign-in goes through two-step verification into
a user session. There are no callbacks, queues or goroutines of the program's
own; concurrency is that of `net/http` handlers.

## Modules

| Module | Role |
|---|---|
| `AttachmentShelf` | what attachments promise a user: shelves of notes that are live, trashed or gone |
| `NoteAttachments` | the code for it; implements `AttachmentShelf` |
| `NoteAttachmentsProofs` | its theorems |
| `MailedLinks` | what mailed links promise: each is made once, is good until redeemed, replaced or late, and only who presented a good one of the right kind changes the account by it |
| `AccountTokens` | the code for it; implements `MailedLinks` |
| `AccountTokensProofs` | its theorems |
| `SecondFactor` | what two-step verification promises: a code sent is a door that opens once and lets in one visitor; only who came in turns the factor on or off |
| `TwoFactor` | the code for it; implements `SecondFactor` |
| `TwoFactorProofs` | its theorems |
| `SessionGate` | what signing in and out promises: a session opens once, closes for good and admits only while open |
| `UserSessions` | the code for it; implements `SessionGate` |
| `UserSessionsProofs` | its theorems |
| `Notebook` | what the notes of a user promise: every request in one instant, on a note in the place it is meant for |
| `NoteLifecycle` | the code for it; implements `Notebook` |
| `NoteLifecycleProofs` | its theorems |
| `RateLimiter` | the limit on requests from one address |
| `RateLimiterProofs` | its theorems |
| `MC...` | symmetry sets for TLC |

### Conventions the models share

*Requests.* A constant set per route, each element served at most once. A
request that inserts a row (an upload, a link, a challenge, a set of recovery
codes) stands for that row: its key is random or serial and nobody else's.
`pc[r]` is the next statement or call of request `r`; every action is one
statement or call together with the Go code around it up to the next one.

*Transactions.* A variable holds what is committed; a row an open transaction
has written is locked by it (`lock`, `userLock`, `rowLock`), and what it will
have written is applied at COMMIT. An UPDATE that meets a locked row waits and
then looks at the row again; a bulk UPDATE or DELETE takes its rows from what is
committed when it starts and visits them in any order, since PostgreSQL promises
none. Where that can end in a circular wait, one of the requests is failed, as
PostgreSQL does (`DeadlockVictim`): in `AccountTokens` because user and token
really are locked in both orders, in `TwoFactor` because two bulk statements can
meet two sets of recovery codes in different orders, in `NoteLifecycle` because
of tags.

*Faults* are a constant, so that a run or a theorem says which it allows:
`disconnect` (the request's context ends), `database` (a statement fails, or
took effect and its answer was lost), `disk` (`os.Remove` fails), `mail`,
`crash`/`restart` (running requests end where they are, PostgreSQL rolls back).

*Time* is an event: a link or a challenge expires, a challenge is no longer
younger than a minute. *Data* is what the properties tell apart: a code is right
or wrong, a file absent, temporary or stored.

### NoteAttachments

`UploadCheck`, `UploadWriteTemp`, `UploadScanAndRename`, `UploadLockNote`,
`UploadCount`, `UploadCommit` and `UploadUndo` are `NoteService.UploadAttachment`
with `LocalAttachmentStorage.Save` and `NoteRepository.CreateAttachment`;
`RemoveRow` and `UnlinkOne` are `DeleteAttachment`; `PurgeList`, `PurgeNote` and
`UnlinkOne` `DeletePermanently`; `CloseList`, `CloseAccount` and `UnlinkOne`
`DeleteAccount`. `MoveToTrash` and `Restore` are there because they race with
all of these. `Reply` says how a call under a request context may come back.

### AccountTokens

A redeemer (`SelectToken`) finds its token by hash without a lock and then runs
its transaction: `UpdateUser`, `UpdateToken`, `StartRevoking`/`RevokeOne` in the
order the method at hand has (`AfterUser`, `AfterToken`), `Commit`. Issuers add
`FindByEmail`, `Create`, `FindByUser`, `CheckAccount` and `SendMail`; a recovery
change whose mail fails runs `CancelRecoveryEmailChange` (`undoing`).

`MailedLinks` has none of this: each request takes place in one instant. The
mapping puts that instant at the COMMIT. A row is unmade, good, late or void
(`LinkOf`); a redeemer has a link presented from its SELECT until it ends
(`PresentedBy`); a change is refused while it undoes itself (`BeingUndone`). What
the code does not promise is visible in it: a link that was good when presented
is redeemed whatever became of it since (`Redeem`), what is promoted is the
address pending at that instant (`ConfirmRecovery`), and a cancellation may void
a newer link (`CancelRecovery`).

### TwoFactor

Every operation begins with `GetStatus`. Openers (setup, login, disable) go
through `ChallengeCooldown` and `CreateChallenge` (`StartBulk`, `VisitRow`,
`InsertRow`, `Commit`), checkers through `SelectChallenge`, `UseRecoveryCode`,
`CountAttempt`, `ConsumeChallenge`; a setup then replaces the recovery codes and
activates (`Activate`), a disabling reads the status again (`Recheck`) and runs
`Disable` (`DisableUser`, then the same bulk steps). A failed activation deletes
every recovery code (`undoing`).

In `SecondFactor` a challenge is a door, a request with an answer a visitor and a
set of recovery codes a kit. `StageOf`, `DoorOf`, `EntryOf`, `HeldBy` and `KitOf`
read them off the code's state: a visitor comes in at the UPDATE that consumes
its challenge, a kit is there from the COMMIT of `Replace`, the factor turns off
at the COMMIT of `Disable`. Codes that are lost are part of it: a login may burn
a code and not hear of it (`Burn`), and a setup that cannot be activated takes
other kits along (`Discard`).

### UserSessions

A session has two halves that no transaction joins: its row in `user_sessions`
(`row`, opened by `InsertRow`, closed by `Revoke` and `CloseAccount`, kept awake
by `Touch`) and the data scs stores under the token of the cookie (`store`).
`Load` gives a request its own copy of the data under any token a browser was
ever sent; `RenewToken` and `Destroy` change the store in the middle of a
handler; `Save` writes the whole copy back when the request answers, be there
anything to overwrite or not. Because `IdleTimeout` is set, scs saves what it
has loaded whether or not the handler changed it. `Check` is RequireAuth asking
`IsActive`. The revocation of a sign-in (`StartRevoking`, `Revoke`) keeps its
rows locked until `InsertRow` commits; those of the other handlers commit by
themselves. A sign-in that still waits for its second factor ends like one whose
revocation failed: under a new token, with the session it came with, if any.

### NoteLifecycle

`Validate` is `NoteService.Save` up to the repository call: it reads the tags
there are and accepts or refuses the form. `UpdateNote`, `UnlinkOne`,
`StartLinking`, `LinkOne`, `CheckTag` and `CommitSave` are `Update` (or `Create`,
which starts at the links because what it has inserted nobody else can see) with
`syncNoteTags`: the UPDATE takes the row lock, the DELETE visits the links it saw
one at a time and waits where somebody else is deleting one, the INSERT ...
SELECT takes the tags that exist at that moment, and the foreign key of each link
then shares the row of its tag. `DeletePermanently`/`CommitPurge` and
`DeleteTag`/`CommitTagDelete` are one statement each in the code; they have
several steps here because their cascades wait for locked links. `UpdateTag` and
`CreateTag` end in `TakeName`, the unique index on user and slug. The other
operations (`SetPinned`, `Archive`, `Unarchive`, `MoveToTrash`, `Restore`) are
one statement on one row (`ExecNoteState`). In `Notebook` a pinned note is a
place of its own, so that archiving has to take the pin off.

`Holders` says whom a request under way waits for, `WaitsForItself` that this
closes a circle; `DeadlockVictim` is PostgreSQL ending the circle. A request that
has yet to begin (`idle`) holds nothing, so nobody waits for it.

### RateLimiter

`Limiting` is the middleware reading the clock; `Admit` and `Refuse` are `allow`,
one critical section each with the pruning (`Kept`) at its start. A request
stands for the time it leaves in a list, so a list is a set. `Tick` is time,
which does not pass a request that has waited for `Delay`. A restart empties the
lists; the model is one run of the process.

## Runs

| Run | Instance | Question and answer |
|---|---|---|
| `attachments_faults` | 1 note, 2 uploads, a removal, a purge, a closure; limit 1; all faults | rows keep their files but those of uploads reported as failed, the limit holds, uploads reach live notes only, the shelf is implemented |
| `attachments_calm` | 3 uploads; no faults; fair | failed uploads leave nothing, leftovers belong to purged notes, requests end |
| `attachments_orphan` | 1 upload, 1 purge | **violated**: an upload between the list and the deletion of the note leaves its file |
| `attachments_undo` | 1 upload, disconnect | **violated**: the compensation uses the context that has just ended |
| `tokens_recovery` | 3 recovery changes, 1 confirmation, 2 addresses; mail, database, restart | the good link confirms the pending address, and there is one; `MailedLinks` is implemented |
| `tokens_account` | 2 sign-ups, resend, confirmation, forgotten password, reset, a change; mail; fair | one account; reset links wait for its confirmation; a change kills the links before it; requests end, deadlocks included; `MailedLinks` is implemented |
| `tokens_promoted` | 2 recovery changes, 2 confirmations, 2 addresses | **violated**: of two confirmations with one link the second leaves the account without a recovery address; with one confirmation a newer, unconfirmed address is promoted |
| `twofactor_faults` | a setup, 2 logins, 2 codes; 1 attempt; database | one request passes per challenge and within its attempts, one login per recovery code; `SecondFactor` is implemented |
| `twofactor_restarts` | an account two setups have left with two sets of codes, a disabling, a regeneration, a new setup, both methods; restart; fair | only a regeneration, or a setup cut short, leaves codes behind a disabled factor; requests end, deadlocks included; `SecondFactor` is implemented |
| `twofactor_locked` | an enrolled account, 2 logins, 1 code | **violated**: a login within a minute of an exhausted challenge cannot be completed |
| `sessions` | 2 sign-ins from one device, 2 requests for any other routes; database | ended sessions stay out, a token names one session, the gate is implemented |
| `notes` | a kept note and 2 saves, a move, a purge, 2 tags, a tag form, a tag deletion; 1 tag per save; database | no pin off the board, tags fit the content, the notebook is implemented; waits follow an order, and somebody can always go on |

### Bounds, and why they are enough

The sets of requests bound everything; nothing else is cut off. The properties
speak of a pair of requests at most (two that pass, two links, an upload and the
deletion it races), and the instances hold that pair and one more request of
every kind that can disturb it: three recovery changes because one may revoke
the second while the third is cancelled, three uploads for one note so that two
wait for its lock. In `sessions` two sign-ins make an old and a new session of
one device, or two sessions one of which ends the other, and two more requests
are a revocation and whoever races it. In `notes` the two saves meet on the kept
note or make notes of their own, next to one of each kind that locks what a save
needs; the circle of a rename, a tag deletion and a save is reached at depth 8.
Two forms that take one name race in no run (with two saves that is more than TLC
does in minutes); the theorems, which hold for any number of forms, cover them.
In `twofactor_restarts` the two sets of codes let the disabling and the
regeneration lock one each and wait for the other. Two setups with challenges of
their own leave such an account when neither sees the codes of the other.
Limits are set to 1 (`MaxAttachments`, `MaxAttempts`, `MaxTags`): the
last free place or attempt is the one that is fought over, and the theorems
cover every limit. One account is enough since every statement is bound to a
user by its id. Deadlock is checked in every run: when all requests have ended
the model goes on with `Quiet`, so a state without a successor would be a wait
that never ends.

### Fairness

`RequestsEnd` assumes weak fairness of the steps of a request that is under way:
its goroutine is scheduled, the database and the mail server answer, locks are
granted to those who wait. Nothing forces a request to begin, time to pass or a
fault to happen. In `AccountTokens` and `TwoFactor` a detected deadlock is also resolved. The
code gives each step: no handler waits for another except through the database.

## Proofs

TLAPS proves the following for every value of the constants.

**NoteAttachments.** `IInv` says who holds the lock of a note (`LockHeld`), that
an upload that has passed the count still has room (`RoomLeft`, the reason for
`FOR UPDATE`), that a file comes before its row and goes after it (`FileFirst`,
`RowFirst`), and that a row is under the upload's own note (`OwnNote`).
`AttachmentLimit` alone is not inductive: between count and insert only the lock
keeps the others from the last place. From it: `TypeCorrect`, `LimitKept`,
`AddedToLiveNotes`, and, for every combination of faults, `FilesKept` and
`Implementation` (`Spec => ImplementsShelf`). What `database` costs is in their
statements: when the answer to a COMMIT is lost and the context lives, the
compensation removes the file of a row that exists (`RowsHaveFile`: only of an
upload reported as failed; `AttachmentShelf`: such an attachment is doubtful and
may drop off its shelf). Without `database`, `UndoSafe` says that an upload that
compensates has no row, so there is no such attachment. The refinement is proved
action by action (`CommitAttaches`, `UndoDrops`, `RemovalDetaches`,
`PurgeErases`, `ClosingErasesAll`; all else does not show on the shelves). For `Faults = {}` a second
invariant follows every stored file (`Tidy`, `Accounted`: it has its row, or
somebody in charge of it, or its note is gone) and gives `FailuresUndone` and
`OrphansExplained`.

**AccountTokens.** `IInv` adds to the two properties that a recovery change or
its undoing holds the lock of the user from its first statement to its commit
(`HoldsUser`) and that, when it commits, it has reached every committed link
(`HolderReachesAll`): the row of the user serialises changes, and that is the
only reason why two of them cannot leave two links. From it: `TypeCorrect`,
`LinkFits`, `OneLink`. A second invariant says that what a request has found of
the account stays true (`AccountFound`) and that tokens are found and locked only
after they were made, once (`TokensExist`): `AccountOnce`, `ResetsConfirmed`.
`OldLinksDie` compares a state with later ones, so it has an invariant for each
pair of a link and a change of the password (`Reaches`), true where the change
has yet to begin and kept by every step: `LinksDie`.

`LinksKept` (`Spec => ImplementsMailedLinks`) adds to `IInv` and `TokensExist`
what a COMMIT needs to be the instant of its request (`LInv`): the rows a request
has locked are of its own purpose and not deleted (`RowsFit`); a redeemer past
the statement for its token has it locked, or it is gone (`LinkInHand`); a link
is made by its issuer's commit and nothing else (`MadeOnce`); who writes the user
holds it to the end, a cancellation only while the pending address is its own
(`WritersHoldUser`); an account found confirmed stays so (`AccountConfirmed`).
The mapping is given by cases, so the proof states for every action how each link
and each redeemer looks before and after (`LinkIs`, `LinkNext`, `GoesOn`,
`LetsGo`, `CommitLinks`) and then names the action of `MailedLinks`.

**TwoFactor.** `IInv` adds that who has passed left the challenge consumed
(`PassedConsumed`), a row is inserted once (`InsertedOnce`), and a login that has
used a recovery code finds it not fresh and is the only one (`UsedNotFresh`,
`UsedByOne`). The conditions of the one UPDATE that consumes a challenge carry the
whole argument; what was read before does not matter. From it: `TypeCorrect`,
`OnePasses`, `LimitHolds`, `OneLoginPerCode`. `LeftoverOnlyRegenerated` has a
second invariant (`DisableInv`): a disabling holds the row of the user until it
commits and reaches every set of codes committed before (`DisablerReachesAll`),
and a setup whose activation failed does nothing any more but take codes back
(`UndoingGoesOn`). It holds under all faults, a setup that a fault cut short being
the exception the property names. `SecondFactorKept` (`Spec =>
ImplementsSecondFactor`) rests on a third (`GateInv`): a checker has read a
challenge of its own purpose (`SeenFits`) and a bulk statement locks rows of its
own kind (`LocksFit`); the rest is the case analysis of the mapping, one abstract
action for each statement that shows.

**UserSessions.** The invariant has three layers. The rows: a sign-in inserts its
own row and nobody else's, rows that are locked are not revoked and belong to a
sign-in about to insert, and what is revoked or gone stays so. The claims: a
request that reports the end of a session has from its revocation on either seen
the row revoked, or has it in its aim or under its lock. The tokens: a token is
fresh until its request takes it, and nobody else has it before its session is
in place. `EndedStaysOut` and `TokenNamesOneSession` are not inductive by
themselves: the first needs the claims to carry what a request has found out
until it answers, the second that no copy can have a token that is still to be
given out. From it: `TypeCorrect`, `EndedSessionsStayOut`,
`TokensNameOneSession`, and `GateKept` (`Spec => ImplementsGate`).

**NoteLifecycle.** The argument is one about locks. `NoteHolders`: whoever writes
a note that others see holds its row, so nobody else adds a link to it.
`TagsHeld`: whoever deletes or renames a tag holds its row, and no save has
shared it. `Unlinking`: a request that takes links away has each of them either
still before it or under its lock. `Linking`: a save has every tag it wants, as
far as the tag exists, still before it, on the note or added. Together they say
what a COMMIT leaves (`SavedLinks`: exactly the wanted tags that exist;
`DeletedLinks`: exactly the links of the deleted tag go), which is what
`LinksFitContent` needs and cannot carry by itself, since it speaks of committed
rows only. From it: `TypeCorrect`, `PinsStayOnBoard`, `TagsFitContent`, and
`NotebookKept` (`Spec => ImplementsNotebook`), all under failing statements and
whatever victims the deadlock detector picks.

The waits rest on a second invariant, `Owners`: a lock belongs to a request at
work, a note lock or a link lock of a save or purge is on its own note, and what
a request has under its lock it does not visit again. A save or purge that has
its note therefore meets only the deletion of a tag on its links (anybody else
would have to hold the same note), which gives `WaitsOrdered` and
`DeadlocksNeedTags`. `NobodyLeftWaiting` takes, if everybody waited, the smallest
set of requests that wait only for each other (there is one because requests are
finitely many, the one hypothesis of the theorem): in it each is reached from
itself, which is what the detector looks for.

**RateLimiter.** What a list has lost is a window old by the clock
(`ForgottenOld`), because whoever pruned it had read the clock before; and who
is judged by it is at most `Delay` late (`TimesRead`). So a list lacks nothing
younger than `Window - Delay` in the eyes of the request, and has only requests
of its own address that got through (`ListsAllowed`). From it: `TypeCorrect`,
`WindowHolds`, `NobodyRefusedInVain`. The assumptions (`Bounds`: natural numbers,
finitely many requests) are hypotheses of the theorems. No run checks this
module: it is small enough that the proof says everything a run would.

Assumptions on constants: sets of requests are disjoint and finite where
counting needs it, limits are positive, null differs from addresses, rows and the
names of places, tags are finitely many.

**Only model-checked**: liveness (`RequestsEnd`, which is beyond the prover) and,
of course, the violations. Every safety property the passing runs check is
proved.

## What disagrees with the code's own words

The four violations are listed as findings with the lines they contradict. Seen
on the way and outside the models:

- `ExportUserData` (UR 503-587) selects `title`, `content` and `color` from
  `public.notes`; the migrations keep them in `notes_content`.
- `LGPD.md` speaks of `audit_events`; the schema has `auditoria.events`.
- `docs/fluxo-notas-anexos.md` names `attachment_storage.go`, which is now part
  of NS.
- `ResetLinkOnce` (defined in `AccountTokens`, in no run) is false: two requests
  with one reset link both succeed. No text of the repository promises otherwise.
- `OneSessionPerDevice` (defined in `UserSessions`, in no run) is false: of two
  sign-ins from one device that overlap neither revokes the other. The test at
  `src/internal/handlers/users/repositories/repositories_test.go:1411` ("verifica
  Create de sessão (revoga duplicata, insert)") is about one after the other.
- A sign-out whose revocation failed is only logged; a request under way then
  stores the session data again, and the session is good again. `EndedStaysOut`
  excludes exactly this case.
- `GetById` and the lists read a note and its tags in separate statements, so a
  page may show the text of one save with the tags of the next (only what is
  stored is one save's: `LinksFitContent`).
- A tag deleted between the check of the form and the insert of its link is left
  out without a word to the user.
- When the answer to the COMMIT of a new note is lost, the form sent again makes
  a second note.
- A note without a colour gets as far as `chk_notes_content_color_not_blank` and
  fails there as an internal error.
- A lost answer to a COMMIT can leave the row of an attachment without its file:
  the upload is reported as failed and the attachment listed, but not to be opened.
- `FullWindowKept` (defined in `RateLimiter`) is false: a request that
  waits for the mutex while a later one prunes the list can be one too many in
  its window. By how little is what `WindowKept` says.

## Not modelled

- Listings, search, pages, mails, DTOs, browser code, legal pages, the audit
  trail, personal data and the export: they read, format or write single
  statements nothing else depends on.
- Captcha, ClamAV, CSRF, headers, configuration: external or stateless; their
  failure is a call that fails.
- The preview server and `cmd/exp`: test fixtures.
- Inside the modelled parts: the content of files, hashing and encryption of
  codes and tokens, TOTP arithmetic, title, text and colour of a note, the form
  checks before a request begins (a refusal that may happen), and of scs, vendored
  under `src/vendor/github.com/alexedwards/scs`, all but the loading, saving and
  expiry of session data, under the configuration of `src/cmd/http`.
- Across modules: closing the account is an action of `NoteAttachments` and of
  `UserSessions`, each for its own rows, and takes the notes and tags of
  `NoteLifecycle` along in one transaction of its own, which is not repeated
  there. Trash, restore and permanent deletion are in `NoteAttachments` as far as
  attachments depend on them and in `NoteLifecycle` in full.

## Plan

The order in which the modules were written, most important first: attachments,
mailed links, two-step verification, user sessions, notes and tags, the rate
limiter. Left: liveness of `UserSessions` and `NoteLifecycle` (of which
`SomebodyGoesOn` is the safety part).
