----------------------------- MODULE AccountTokens -----------------------------
(***************************************************************************)
(* One account and the links mailed to its owner: to confirm the sign-up,  *)
(* to choose a new password and to confirm a recovery address.  A link is  *)
(* a row of public.users_confirmation_tokens, issued, redeemed and revoked *)
(* by concurrent requests that also write the row of public.users.         *)
(*                                                                         *)
(* The grain is the SQL statement under READ COMMITTED: a statement sees   *)
(* what is committed when it starts, waits for the rows somebody else has  *)
(* written, and looks at them again once they are free.  A row written by  *)
(* an open transaction is locked by it, so the locks of a transaction say  *)
(* what it will have written when it commits.                              *)
(***************************************************************************)
EXTENDS Naturals, FiniteSets

CONSTANTS
    Signups,          \* POST /user/signup
    Resends,          \* POST /user/resend
    Confirms,         \* GET  /confirmation/{token}
    Forgots,          \* POST /user/forgetpassword
    Resets,           \* POST /user/password/{token}
    PasswordChanges,  \* POST /me/password
    RecoveryChanges,  \* POST /me/recovery-email
    RecoveryConfirms, \* GET  /recovery-email/confirmation/{token}
    Addresses,        \* the addresses asked for as recovery addresses
    NoAddress,        \* null
    NoRequest,        \* a row nobody has locked, a password nobody has set
    Faults            \* what may go wrong around the code

Issuers == Signups \cup Resends \cup Forgots \cup RecoveryChanges
Redeemers == Confirms \cup Resets \cup RecoveryConfirms
Requests == Issuers \cup Redeemers \cup PasswordChanges

FaultKinds == {
    "database",  \* a statement fails, or the answer to COMMIT is lost
    "mail",      \* the mail server refuses a message, or seems to
    "restart"}   \* the server stops and is started again

Disjoint(A, B) == A \cap B = {}

ASSUME RequestAssumption ==
    /\ IsFiniteSet(Requests)
    /\ NoRequest \notin Requests
    /\ Disjoint(Signups, Resends \cup Forgots \cup RecoveryChanges)
    /\ Disjoint(Resends, Forgots \cup RecoveryChanges)
    /\ Disjoint(Forgots, RecoveryChanges)
    /\ Disjoint(Issuers, Redeemers \cup PasswordChanges)
    /\ Disjoint(Confirms, Resets \cup RecoveryConfirms)
    /\ Disjoint(Resets, RecoveryConfirms)
    /\ Disjoint(Redeemers, PasswordChanges)

ASSUME AddressAssumption == NoAddress \notin Addresses

ASSUME FaultAssumption == Faults \subseteq FaultKinds

VARIABLES
    user,      \* the committed row of public.users
    token,     \* token[i]: the committed row of the token issuer i made
    mailed,    \* the issuers whose link was put in a mail
    userLock,  \* the transaction that has written the row of the user
    rowLock,   \* rowLock[i]: the transaction that has written token i
    pc,        \* pc[r]: the next statement or call of request r
    seen,      \* seen[r]: the token redeemer r found by its hash
    rest,      \* rest[r]: tokens a bulk revocation of r has yet to reach
    undoing,   \* the recovery changes in CancelRecoveryEmailChange
    address    \* address[b]: what recovery change b asks for

vars == <<user, token, mailed, userLock, rowLock, pc, seen, rest, undoing, address>>

Users == [state: {"none", "inactive", "active"},
          password: Requests \cup {NoRequest},
          recovery: Addresses \cup {NoAddress},
          pending: Addresses \cup {NoAddress}]
TokenStates == {"none", "live", "expired", "used", "gone"}
Ended == {"done", "failed", "dead"}
Steps == {"idle", "begin", "user", "token", "revoke", "rest", "commit", "mail"} \cup Ended

Running(r) == pc[r] \notin Ended \cup {"idle"}

TypeOK ==
    /\ user \in Users
    /\ token \in [Issuers -> TokenStates]
    /\ mailed \subseteq Issuers
    /\ userLock \in Requests \cup {NoRequest}
    /\ rowLock \in [Issuers -> Requests \cup {NoRequest}]
    /\ pc \in [Requests -> Steps]
    /\ seen \in [Redeemers -> Issuers \cup {NoRequest}]
    /\ rest \in [Requests -> SUBSET Issuers]
    /\ undoing \subseteq RecoveryChanges
    /\ address \in [RecoveryChanges -> Addresses]

(* With nobody to sign up the account is there and confirmed.              *)
Init ==
    /\ user = [state |-> IF Signups = {} THEN "active" ELSE "none",
               password |-> NoRequest, recovery |-> NoAddress, pending |-> NoAddress]
    /\ token = [i \in Issuers |-> "none"]
    /\ mailed = {}
    /\ userLock = NoRequest
    /\ rowLock = [i \in Issuers |-> NoRequest]
    /\ pc = [r \in Requests |-> "idle"]
    /\ seen = [r \in Redeemers |-> NoRequest]
    /\ rest = [r \in Requests |-> {}]
    /\ undoing = {}
    /\ address \in [RecoveryChanges -> Addresses]

Goto(r, step) == pc' = [pc EXCEPT ![r] = step]

(* The tokens with the purpose a request names in its statements.          *)
SamePurpose(r) ==
    IF r \in Signups \cup Resends \cup Confirms THEN Signups \cup Resends
    ELSE IF r \in Forgots \cup Resets \cup PasswordChanges THEN Forgots
    ELSE RecoveryChanges

(* Variant: the purpose of another kind of link.                           *)
UnconfirmedResets(r) ==
    {i \in Forgots : token[i] \in {"live", "expired"} /\ rowLock[i] # r}

(* "where ... purpose = $2 and confirmed = false": an expired token is as  *)
(* unconfirmed as a live one.                                              *)
Unconfirmed(r) ==
    {i \in SamePurpose(r) : token[i] \in {"live", "expired"} /\ rowLock[i] # r}

(* The order of the statements in each transaction.                        *)
Opening(r) ==
    IF r \in Resends \cup Forgots THEN "revoke"
    ELSE IF r \in Resets THEN "token"
    ELSE "user"

(* Variant: nothing is revoked after the row of the user was written.      *)
AfterUserCommit(r) ==
    IF r \in RecoveryConfirms \cup Confirms THEN "token" ELSE "commit"

AfterUser(r) ==
    IF r \in RecoveryConfirms \cup Confirms THEN "token" ELSE "revoke"

AfterToken(r) ==
    IF r \in Resets THEN "user"
    ELSE IF r \in RecoveryConfirms THEN "revoke"
    ELSE "commit"

-----------------------------------------------------------------------------
(* What precedes the transaction.                                          *)

(* RegisterUser: FindByEmail, then Create, whose transaction writes rows   *)
(* nobody else can see yet; the second of two loses at users.email unique. *)
FindByEmail(s) ==
    /\ pc[s] = "idle"
    /\ Goto(s, IF user.state = "none" THEN "begin" ELSE "failed")
    /\ UNCHANGED <<user, token, mailed, userLock, rowLock, seen, rest, undoing, address>>

(* Variant: the address is not unique in public.users.                     *)
CreateAnyway(s) ==
    /\ pc[s] = "begin"
    /\ user' = [user EXCEPT !.state = "inactive"]
    /\ token' = [token EXCEPT ![s] = "live"]
    /\ Goto(s, "mail")
    /\ UNCHANGED <<mailed, userLock, rowLock, seen, rest, undoing, address>>

Create(s) ==
    /\ pc[s] = "begin"
    /\ \/ /\ user.state = "none"
          /\ user' = [user EXCEPT !.state = "inactive"]
          /\ token' = [token EXCEPT ![s] = "live"]
          /\ \/ Goto(s, "mail")
             \/ "database" \in Faults /\ Goto(s, "failed")
       \/ /\ user.state # "none" \/ "database" \in Faults
          /\ Goto(s, "failed")
          /\ UNCHANGED <<user, token>>
    /\ UNCHANGED <<mailed, userLock, rowLock, seen, rest, undoing, address>>

(* Variant: whether the account is confirmed is not asked.                 *)
FindByUserAny(r) ==
    /\ pc[r] = "idle"
    /\ Goto(r, IF user.state # "none" THEN Opening(r) ELSE "done")
    /\ UNCHANGED <<user, token, mailed, userLock, rowLock, seen, rest, undoing, address>>

(* CreateEmailConfirmationToken asks for an account not yet confirmed,     *)
(* CreateResetPasswordToken for a confirmed one; without it the page is    *)
(* the same and no mail goes out.                                          *)
FindByUser(r) ==
    /\ pc[r] = "idle"
    /\ IF user.state = (IF r \in Resends THEN "inactive" ELSE "active")
          THEN Goto(r, Opening(r))
          ELSE Goto(r, "done")
    /\ UNCHANGED <<user, token, mailed, userLock, rowLock, seen, rest, undoing, address>>

(* ChangePassword and RequestRecoveryEmailChange: the account is read, the *)
(* form and the current password may be refused.                           *)
CheckAccount(r) ==
    /\ pc[r] = "idle"
    /\ user.state = "active"
    /\ \/ /\ r \in RecoveryChanges => address[r] # user.recovery
          /\ Goto(r, Opening(r))
       \/ Goto(r, "failed")
    /\ UNCHANGED <<user, token, mailed, userLock, rowLock, seen, rest, undoing, address>>

(* Variant: expires_at is not asked for.                                   *)
SelectAnyToken(r) ==
    /\ pc[r] = "idle"
    /\ \E i \in mailed \cap SamePurpose(r) :
          IF /\ token[i] \in {"live", "expired"}
             /\ r \in Confirms => user.state = "inactive"
             /\ r \in RecoveryConfirms => user.pending # NoAddress
             THEN seen' = [seen EXCEPT ![r] = i] /\ Goto(r, Opening(r))
             ELSE Goto(r, "failed") /\ UNCHANGED seen
    /\ UNCHANGED <<user, token, mailed, userLock, rowLock, rest, undoing, address>>

(* The unlocked SELECT that opens PutPasswordByToken, ConfirmUserByToken   *)
(* and ConfirmRecoveryEmailByToken.  The request carries a link that was   *)
(* mailed, and goes on if that token is unconfirmed and not expired.       *)
SelectToken(r) ==
    /\ pc[r] = "idle"
    /\ \E i \in mailed \cap SamePurpose(r) :
          IF /\ token[i] = "live"
             /\ r \in Confirms => user.state = "inactive"
             /\ r \in RecoveryConfirms => user.pending # NoAddress
             THEN seen' = [seen EXCEPT ![r] = i] /\ Goto(r, Opening(r))
             ELSE Goto(r, "failed") /\ UNCHANGED seen
    /\ UNCHANGED <<user, token, mailed, userLock, rowLock, rest, undoing, address>>

-----------------------------------------------------------------------------
(* The statements of the transactions.                                     *)

(* "update public.users ... where id = $1": waits for whoever has written  *)
(* the row.  CancelRecoveryEmailChange writes only a row that still has    *)
(* its own address pending.                                                *)
MatchesAny(r) == TRUE   \* variant: whatever is pending is cleared
Matches(r) == r \in undoing => user.pending = address[r]

UpdateUser(r) ==
    /\ pc[r] = "user"
    /\ \/ Matches(r) /\ userLock = NoRequest /\ userLock' = r
       \/ ~Matches(r) /\ UNCHANGED userLock
    /\ Goto(r, AfterUser(r))
    /\ UNCHANGED <<user, token, mailed, rowLock, seen, rest, undoing, address>>

(* "update public.users_confirmation_tokens ... where id = $1": whether    *)
(* the token is still unconfirmed is not asked again.                      *)
UpdateToken(r) ==
    /\ pc[r] = "token"
    /\ IF token[seen[r]] = "gone"
          THEN UNCHANGED rowLock
          ELSE /\ rowLock[seen[r]] = NoRequest
               /\ rowLock' = [rowLock EXCEPT ![seen[r]] = r]
    /\ Goto(r, AfterToken(r))
    /\ UNCHANGED <<user, token, mailed, userLock, seen, rest, undoing, address>>

(* The bulk revocation starts: it will visit the rows it sees now ...      *)
StartRevoking(r) ==
    /\ pc[r] = "revoke"
    /\ rest' = [rest EXCEPT ![r] = Unconfirmed(r)]
    /\ Goto(r, "rest")
    /\ UNCHANGED <<user, token, mailed, userLock, rowLock, seen, undoing, address>>

(* ... one by one, waiting for each to be free and asking again whether it *)
(* is unconfirmed ...                                                      *)
RevokeOne(r) ==
    /\ pc[r] = "rest"
    /\ \E i \in rest[r] :
          /\ rowLock[i] = NoRequest
          /\ rowLock' = IF token[i] \in {"live", "expired"}
                           THEN [rowLock EXCEPT ![i] = r] ELSE rowLock
          /\ rest' = [rest EXCEPT ![r] = @ \ {i}]
    /\ UNCHANGED <<user, token, mailed, userLock, pc, seen, undoing, address>>

(* ... and ends.                                                           *)
EndRevoking(r) ==
    /\ pc[r] = "rest"
    /\ rest[r] = {}
    /\ Goto(r, "commit")
    /\ UNCHANGED <<user, token, mailed, userLock, rowLock, seen, rest, undoing, address>>

(* What each transaction writes into the row of the user.                  *)
PasswordReset(r) == [user EXCEPT !.password = r]
PasswordUpdated(r) == [user EXCEPT !.password = r]
Activated == [user EXCEPT !.state = "active"]
RecoveryPromoted == [user EXCEPT !.recovery = user.pending, !.pending = NoAddress]
RecoveryPendingBlank(r) == [user EXCEPT !.pending = ""]   \* variant: no address
RecoveryPending(r) == [user EXCEPT !.pending = address[r]]
RecoveryCancelled == [user EXCEPT !.pending = NoAddress]

UserWritten(r) ==
    IF r \in Resets THEN PasswordReset(r)
    ELSE IF r \in PasswordChanges THEN PasswordUpdated(r)
    ELSE IF r \in Confirms THEN Activated
    ELSE IF r \in RecoveryConfirms THEN RecoveryPromoted
    ELSE IF r \in undoing THEN RecoveryCancelled
    ELSE RecoveryPending(r)

(* createAuthToken's insert belongs to the commit here; its foreign key    *)
(* waits for a writer of a unique column of the row of the user.           *)
Inserts(r) == r \in Issuers \ undoing
KeyLocked(r) == userLock \in (RecoveryChanges \cup RecoveryConfirms) \ {r}

FreeRows(r) == [i \in Issuers |-> IF rowLock[i] = r THEN NoRequest ELSE rowLock[i]]
FreeUser(r) == IF userLock = r THEN NoRequest ELSE userLock

(* Where a request goes once its COMMIT has been answered: issuers mail    *)
(* the link, the others have nothing left to do; a change being undone     *)
(* reports the error of the mail whatever becomes of the cancellation.     *)
AfterCommit(r) ==
    IF r \in undoing THEN "failed" ELSE IF r \in Issuers THEN "mail" ELSE "done"

Commit(r) ==
    /\ pc[r] = "commit"
    /\ Inserts(r) => ~KeyLocked(r)
    /\ user' = IF userLock = r THEN UserWritten(r) ELSE user
    /\ token' = [i \in Issuers |->
                    IF i = r /\ Inserts(r) THEN "live"
                    ELSE IF rowLock[i] = r THEN "used" ELSE token[i]]
    /\ userLock' = FreeUser(r)
    /\ rowLock' = FreeRows(r)
    /\ \/ Goto(r, AfterCommit(r))
       \/ "database" \in Faults /\ Goto(r, "failed")
    /\ UNCHANGED <<mailed, seen, rest, undoing, address>>

(* Variant: the error path returns without its deferred rollback.          *)
AbortKeepsLocks(r) ==
    /\ rest' = [rest EXCEPT ![r] = {}]
    /\ Goto(r, "failed")
    /\ UNCHANGED <<user, token, mailed, userLock, rowLock, seen, undoing, address>>

(* "defer tx.Rollback(ctx)": an error anywhere undoes the transaction.     *)
Abort(r) ==
    /\ userLock' = FreeUser(r)
    /\ rowLock' = FreeRows(r)
    /\ rest' = [rest EXCEPT ![r] = {}]
    /\ Goto(r, "failed")
    /\ UNCHANGED <<user, token, mailed, seen, undoing, address>>

StatementFails(r) ==
    /\ "database" \in Faults
    /\ pc[r] \in {"user", "token", "revoke", "rest", "commit"}
    /\ Abort(r)

(* Whom a request waits for, and whether it waits for itself in the end:   *)
(* PostgreSQL ends such a circle by failing the statement of one of them.  *)
Holders(r) ==
    CASE pc[r] = "user" /\ Matches(r) -> {userLock} \ {NoRequest}
      [] pc[r] = "token" -> {rowLock[seen[r]]} \ {NoRequest}
      [] pc[r] = "rest" /\ \A i \in rest[r] : rowLock[i] # NoRequest ->
            {rowLock[i] : i \in rest[r]}
      [] pc[r] = "commit" /\ Inserts(r) /\ KeyLocked(r) -> {userLock}
      [] OTHER -> {}

WaitsForItself(r) ==
    /\ Holders(r) # {}
    /\ \A S \in SUBSET Requests :
          (Holders(r) \subseteq S /\ \A s \in S : Holders(s) \subseteq S) => r \in S

DeadlockVictim(r) ==
    /\ WaitsForItself(r)
    /\ Abort(r)

(* The link is mailed.  A mail server that reports an error may still have *)
(* delivered; RecoveryEmailSave then cancels the change, the others leave  *)
(* the token as it is.                                                     *)
SendMail(i) ==
    /\ pc[i] = "mail"
    /\ \/ mailed' = mailed \cup {i} /\ Goto(i, "done") /\ UNCHANGED undoing
       \/ /\ "mail" \in Faults
          /\ mailed' \in {mailed, mailed \cup {i}}
          /\ IF i \in RecoveryChanges
                THEN undoing' = undoing \cup {i} /\ Goto(i, "user")
                ELSE Goto(i, "failed") /\ UNCHANGED undoing
    /\ UNCHANGED <<user, token, userLock, rowLock, seen, rest, address>>

-----------------------------------------------------------------------------
(* Time passes: expires_at of an unconfirmed token is reached.             *)
Expire(i) ==
    /\ token[i] = "live"
    /\ token' = [token EXCEPT ![i] = "expired"]
    /\ UNCHANGED <<user, mailed, userLock, rowLock, pc, seen, rest, undoing, address>>

(* The server stops, and on its way up runs DeleteExpiredTokens.  Of the   *)
(* confirmed tokens it drops the ones more than a day old.                 *)
Restart ==
    /\ "restart" \in Faults
    /\ \E r \in Requests : Running(r)
    /\ pc' = [r \in Requests |-> IF Running(r) THEN "dead" ELSE pc[r]]
    /\ userLock' = NoRequest
    /\ rowLock' = [i \in Issuers |-> NoRequest]
    /\ rest' = [r \in Requests |-> {}]
    /\ token' = [i \in Issuers |-> IF token[i] = "expired" THEN "gone" ELSE token[i]]
    /\ UNCHANGED <<user, mailed, seen, undoing, address>>

Statement(r) ==
    \/ UpdateUser(r)
    \/ UpdateToken(r)
    \/ StartRevoking(r)
    \/ RevokeOne(r)
    \/ EndRevoking(r)
    \/ Commit(r)
    \/ DeadlockVictim(r)

(* Every request has been served, or carries a link nobody ever got.       *)
Quiet ==
    /\ \A r \in Requests : pc[r] \in Ended \cup {"idle"}
    /\ UNCHANGED vars

Next ==
    \/ \E s \in Signups : FindByEmail(s) \/ Create(s)
    \/ \E r \in Resends \cup Forgots : FindByUser(r)
    \/ \E r \in PasswordChanges \cup RecoveryChanges : CheckAccount(r)
    \/ \E r \in Redeemers : SelectToken(r)
    \/ \E r \in Requests : Statement(r) \/ StatementFails(r)
    \/ \E i \in Issuers : SendMail(i) \/ Expire(i)
    \/ Restart
    \/ Quiet

Spec == Init /\ [][Next]_vars

(* A request once begun is scheduled and the database and the mail server  *)
(* answer; among the statements a request can take none is favoured.       *)
Fairness ==
    \A r \in Requests :
        WF_vars(Statement(r) \/ (r \in Issuers /\ SendMail(r)) \/ (r \in Signups /\ Create(r)))

FairSpec == Spec /\ Fairness

-----------------------------------------------------------------------------
(* A link that still confirms a recovery address confirms the address that *)
(* is pending: changes, confirmations and cancellations write the user and *)
(* the tokens in separate statements, and other requests come in between.  *)
LinkFitsPending ==
    \A b \in RecoveryChanges : token[b] = "live" => user.pending = address[b]

(* However many recovery changes run at once, only one link is good: each  *)
(* revokes the tokens it sees, and it sees them all because it has written *)
(* the row of the user first.  (Two forgotten passwords do leave two good  *)
(* links, since CreateResetPasswordToken takes no such lock.)              *)
OneRecoveryLink ==
    \A b, c \in RecoveryChanges : token[b] = "live" /\ token[c] = "live" => b = c

(* A token in the eyes of MailedLinks.                                     *)
LinkOf(i) ==
    CASE token[i] = "none" -> "unmade"
      [] token[i] = "live" -> "good"
      [] token[i] = "expired" -> "late"
      [] OTHER -> "void"

PresentedBy(r) == IF Running(r) THEN seen[r] ELSE NoRequest
BeingUndone == {b \in undoing : Running(b)}

(* The code keeps the promise of MailedLinks: a request that selects a     *)
(* token without a lock, writes the user and then row after row takes      *)
(* place at its COMMIT, whatever the others have written in between.       *)
Links == INSTANCE MailedLinks WITH
    Nobody <- NoRequest,
    refused <- BeingUndone,
    link <- [i \in Issuers |-> LinkOf(i)],
    presented <- [r \in Redeemers |-> PresentedBy(r)]

ImplementsMailedLinks == Links!Spec

(* Changing the password, by link or in the account page, kills the links  *)
(* issued before: once the request has succeeded no such link is good.     *)
OldLinksDie ==
    \A f \in Forgots, r \in Resets \cup PasswordChanges :
        [](token[f] = "live" /\ pc[r] = "idle" => [](pc[r] = "done" => token[f] # "live"))

(* Every request comes to an end, although PutPasswordByToken locks token  *)
(* before user and UpdatePasswordByID user before token.                   *)
RequestsEnd ==
    \A r \in Requests : Running(r) ~> pc[r] \in Ended

(* Of two sign-ups with the same address, which both found it free, one    *)
(* registers the account and gets a link; the other leaves nothing.        *)
OneAccount ==
    \A s, t \in Signups : token[s] # "none" /\ token[t] # "none" => s = t

(* A reset link is made for a confirmed account only, whatever the order   *)
(* in which sign-up, confirmation and forgotten password come in.          *)
ResetsOfConfirmedAccounts ==
    \A f \in Forgots : token[f] # "none" => user.state = "active"

Confirmed(c) == pc[c] # "done" /\ pc'[c] = "done" /\ seen[c] \in RecoveryChanges

(* "Confirme este e-mail para usa-lo na recuperacao da sua conta", and     *)
(* ConfirmRecoveryEmail "promotes the pending recovery address to final":  *)
(* a confirmation that succeeds makes the address its link was mailed to   *)
(* the recovery address.                                                   *)
ConfirmedIsPromoted ==
    [][\A c \in RecoveryConfirms :
          Confirmed(c) => user'.recovery = address[seen[c]]]_vars

(* A reset link sets the password once; used again it "is invalid".        *)
ResetLinkOnce ==
    \A r, s \in Resets : pc[r] = "done" /\ pc[s] = "done" /\ seen[r] = seen[s] => r = s

=============================================================================
