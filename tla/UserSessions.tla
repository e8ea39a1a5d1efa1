------------------------------- MODULE UserSessions -------------------------------
(***************************************************************************)
(* The sessions of one account.  Each has two halves that no transaction   *)
(* joins: a row of public.user_sessions, written by the handlers, and the  *)
(* session data of scs under the token in the cookie.  scs loads the data  *)
(* when a request begins and saves the request's own copy when it answers, *)
(* whatever has become of the stored data in between; RequireAuth asks the *)
(* row.                                                                    *)
(*                                                                         *)
(* The grain is the SQL statement under READ COMMITTED, as in              *)
(* AccountTokens.  A sign-in stands for the session, and a request for the *)
(* token, that it makes.                                                   *)
(***************************************************************************)
EXTENDS FiniteSets

CONSTANTS
    Signins,      \* POST /user/signin, or /user/twofactor with a right code
    Others,       \* requests for any of the other routes
    Devices,      \* where one signs in from: a user agent with an address
    NoRequest,    \* no token, no session, a row nobody has locked
    Absent,       \* no data under a token
    Faults        \* what may go wrong around the code

Requests == Signins \cup Others

Routes == {
    "visit",         \* GET of a page for everybody
    "page",          \* GET of a page behind RequireAuth, as is all that follows
    "signout",       \* POST /user/signout
    "logout",        \* POST /me/security/sessions/{sessionID}/logout
    "revokeOther",   \* POST /me/security/sessions/revoke-other
    "renew",         \* a new password, a second factor set up or disabled
    "close"}         \* POST /account/delete

FaultKinds == {"database"}   \* a statement fails

ASSUME RequestAssumption ==
    /\ Signins \cap Others = {}
    /\ NoRequest \notin Requests
    /\ Absent \notin Requests \cup {NoRequest}

ASSUME FaultAssumption == Faults \subseteq FaultKinds

VARIABLES
    account,  \* whether the row of public.users is there
    row,      \* row[s]: the committed row of public.user_sessions
    lock,     \* lock[s]: the sign-in whose transaction has revoked row s
    store,    \* store[t]: the session saved under token t, if any
    pc,       \* pc[r]: the next statement or call of request r
    token,    \* token[r], copy[r]: the token and the session in the copy of
    copy,     \*   the session data that request r works on
    entered,  \* entered[r]: the session RequireAuth let request r in with
    aim,      \* aim[r]: the rows the revocation of request r has to visit
    device,   \* device[s]: where sign-in s comes from
    route,    \* route[r]: what the other requests are for
    after     \* after[r]: the requests that had ended sessions, or begun
              \*   one, and were answered when request r began

data == <<store, token, copy>>
given == <<device, route>>
vars == <<account, row, lock, data, pc, entered, aim, given, after>>

RowStates == {"none", "active", "idle", "revoked", "gone"}
Ended == {"done", "failed"}
Steps == {"begin", "password", "renew", "revoke", "visit", "insert", "check",
          "expel", "touch", "close", "destroy", "answer", "refuse"} \cup Ended

Running(r) == pc[r] \notin Ended \cup {"begin"}
Unrevoked(s) == row[s] \in {"active", "idle"}

TypeOK ==
    /\ account \in BOOLEAN
    /\ row \in [Signins -> RowStates]
    /\ lock \in [Signins -> Signins \cup {NoRequest}]
    /\ store \in [Requests -> Signins \cup {NoRequest, Absent}]
    /\ pc \in [Requests -> Steps]
    /\ token \in [Requests -> Requests \cup {NoRequest}]
    /\ copy \in [Requests -> Signins \cup {NoRequest}]
    /\ entered \in [Requests -> Signins \cup {NoRequest}]
    /\ aim \in [Requests -> SUBSET Signins]
    /\ device \in [Signins -> Devices]
    /\ route \in [Others -> Routes]
    /\ after \in [Requests -> SUBSET Requests]

Init ==
    /\ account = TRUE
    /\ row = [s \in Signins |-> "none"]
    /\ lock = [s \in Signins |-> NoRequest]
    /\ store = [t \in Requests |-> Absent]
    /\ pc = [r \in Requests |-> "begin"]
    /\ token = [r \in Requests |-> NoRequest]
    /\ copy = [r \in Requests |-> NoRequest]
    /\ entered = [r \in Requests |-> NoRequest]
    /\ aim = [r \in Requests |-> {}]
    /\ device \in [Signins -> Devices]
    /\ route \in [Others -> Routes]
    /\ after = [r \in Requests |-> {}]

Goto(r, step) == pc' = [pc EXCEPT ![r] = step]

(* A request ends and its copy of the session data with it.                *)
Leave(r, step) ==
    /\ Goto(r, step)
    /\ token' = [token EXCEPT ![r] = NoRequest]
    /\ copy' = [copy EXCEPT ![r] = NoRequest]

For(r, R) == r \in Others /\ route[r] \in R
Guarded(r) == For(r, Routes \ {"visit"})

(* The step after LoadAndSave, and the step after RequireAuth.             *)
Opening(r) ==
    IF r \in Signins THEN "password"
    ELSE IF Guarded(r) THEN "check"
    ELSE "answer"

Handler(r) ==
    IF For(r, {"page"}) THEN "answer"
    ELSE IF For(r, {"renew"}) THEN "renew"
    ELSE IF For(r, {"close"}) THEN "close"
    ELSE "revoke"

-----------------------------------------------------------------------------
(* The session data: scs under HashTokenInStore.                           *)

(* Variant: nobody looks whether there is data under the token.            *)
LoadAnything(r) ==
    /\ pc[r] = "begin"
    /\ \E t \in Requests :
          /\ token' = [token EXCEPT ![r] = t]
          /\ copy' = [copy EXCEPT ![r] = store[t]]
    /\ after' = [after EXCEPT ![r] =
                    {q \in Requests : pc[q] = "done" /\ ~For(q, {"visit", "page", "renew"})}]
    /\ Goto(r, Opening(r))
    /\ UNCHANGED <<account, row, lock, store, entered, aim, given>>

(* LoadAndSave loads the data under the token in the cookie, which may be  *)
(* any token a browser was ever sent; when it is gone, or there was none,  *)
(* the request works on fresh data that has no token yet.                  *)
Load(r) ==
    /\ pc[r] = "begin"
    /\ \/ \E t \in Requests :
            /\ store[t] # Absent
            /\ token' = [token EXCEPT ![r] = t]
            /\ copy' = [copy EXCEPT ![r] = store[t]]
       \/ UNCHANGED <<token, copy>>
    /\ after' = [after EXCEPT ![r] =
                    {q \in Requests : pc[q] = "done" /\ ~For(q, {"visit", "page", "renew"})}]
    /\ Goto(r, Opening(r))
    /\ UNCHANGED <<account, row, lock, store, entered, aim, given>>

(* Variant: Signin goes on under the token it came with.                   *)
KeepToken(r) ==
    /\ pc[r] = "renew"
    /\ token' = [token EXCEPT ![r] = IF @ = NoRequest THEN r ELSE @]
    /\ Goto(r, IF r \in Signins THEN "revoke" ELSE "answer")
    /\ UNCHANGED <<account, row, lock, store, copy, entered, aim, given, after>>

(* RenewToken removes what is stored under the old token and keeps the     *)
(* values for the new one.                                                 *)
RenewToken(r) ==
    /\ pc[r] = "renew"
    /\ store' = [t \in Requests |-> IF t = token[r] THEN Absent ELSE store[t]]
    /\ token' = [token EXCEPT ![r] = r]
    /\ Goto(r, IF r \in Signins THEN "revoke" ELSE "answer")
    /\ UNCHANGED <<account, row, lock, copy, entered, aim, given, after>>

(* Destroy removes the stored data and empties the copy; nothing is saved  *)
(* afterwards and the cookie is dropped.  RequireAuth destroys the data of *)
(* a request it turns away.                                                *)
Destroy(r) ==
    /\ pc[r] \in {"expel", "destroy"}
    /\ store' = [t \in Requests |-> IF t = token[r] THEN Absent ELSE store[t]]
    /\ Leave(r, IF pc[r] = "destroy" THEN "done" ELSE "failed")
    /\ UNCHANGED <<account, row, lock, entered, aim, given, after>>

(* The first byte of the answer: data that was loaded or given a token is  *)
(* saved whole, since an idle timeout makes scs take it for modified, and  *)
(* the cookie is sent.                                                     *)
Save(r) ==
    /\ pc[r] \in {"answer", "refuse"}
    /\ store' = [t \in Requests |-> IF t = token[r] THEN copy[r] ELSE store[t]]
    /\ Leave(r, IF pc[r] = "answer" THEN "done" ELSE "failed")
    /\ UNCHANGED <<account, row, lock, entered, aim, given, after>>

-----------------------------------------------------------------------------
(* Signing in.                                                             *)

(* Wrong credentials are counted in the session data, which gets a token   *)
(* for it if it has none; those of an unconfirmed account are not.         *)
Authenticate(s) ==
    /\ pc[s] = "password"
    /\ \/ account /\ Goto(s, "renew") /\ UNCHANGED token
       \/ /\ Goto(s, "refuse")
          /\ \/ token[s] = NoRequest /\ token' = [token EXCEPT ![s] = s]
             \/ UNCHANGED token
    /\ UNCHANGED <<account, row, lock, store, copy, entered, aim, given, after>>

(* Variant: the new session replaces none.                                 *)
TargetsNone(r, S) ==
    S = IF r \in Signins THEN {} ELSE {s \in Signins : Unrevoked(s) /\ s # copy[r]}

(* What the WHERE of a revocation selects: the session of this request, a  *)
(* session its user picks from the list, the others, or those of the same  *)
(* user agent and address.                                                 *)
Targets(r, S) ==
    \/ r \in Signins /\ S = {s \in Signins : Unrevoked(s) /\ device[s] = device[r]}
    \/ For(r, {"signout"}) /\ S = {copy[r]}
    \/ For(r, {"logout"}) /\ \E s \in Signins : row[s] # "none" /\ S = {s}
    \/ For(r, {"revokeOther"}) /\ S = {s \in Signins : Unrevoked(s) /\ s # copy[r]}

(* A revocation starts: it will visit the rows it sees now ...             *)
StartRevoking(r) ==
    /\ pc[r] = "revoke"
    /\ \E S \in SUBSET Signins : Targets(r, S) /\ aim' = [aim EXCEPT ![r] = S]
    /\ Goto(r, "visit")
    /\ UNCHANGED <<account, row, lock, data, entered, given, after>>

(* Where a request goes when its revocation has revoked the rows R.  That  *)
(* nothing was revoked is an error, which Signout only logs.               *)
AfterRevoking(r, R) ==
    IF For(r, {"signout"}) THEN "destroy"
    ELSE IF For(r, {"revokeOther"}) THEN "answer"
    ELSE IF R = {} THEN "refuse"
    ELSE IF copy[r] \in R THEN "destroy"
    ELSE "answer"

(* ... and, when no transaction has them locked, revokes those that still  *)
(* are not.  A sign-in keeps them locked until its COMMIT.                 *)
Revoke(r) ==
    /\ pc[r] = "visit"
    /\ \A s \in aim[r] : lock[s] = NoRequest
    /\ LET R == {s \in aim[r] : Unrevoked(s)} IN
          IF r \in Signins
          THEN /\ lock' = [s \in Signins |-> IF s \in R THEN r ELSE lock[s]]
               /\ Goto(r, "insert")
               /\ UNCHANGED row
          ELSE /\ row' = [s \in Signins |-> IF s \in R THEN "revoked" ELSE row[s]]
               /\ Goto(r, AfterRevoking(r, R))
               /\ UNCHANGED lock
    /\ UNCHANGED <<account, data, entered, aim, given, after>>

FreeRows(r) == [s \in Signins |-> IF lock[s] = r THEN NoRequest ELSE lock[s]]

(* The INSERT with its COMMIT, and the session put into the copy of the    *)
(* data; the foreign key refuses it when the account is gone.              *)
InsertRow(s) ==
    /\ pc[s] = "insert"
    /\ lock' = FreeRows(s)
    /\ IF account
          THEN /\ row' = [t \in Signins |-> IF t = s THEN "active"
                                            ELSE IF lock[t] = s THEN "revoked" ELSE row[t]]
               /\ copy' = [copy EXCEPT ![s] = s]
               /\ Goto(s, "answer")
          ELSE Goto(s, "refuse") /\ UNCHANGED <<row, copy>>
    /\ UNCHANGED <<account, store, token, entered, aim, given, after>>

-----------------------------------------------------------------------------
(* RequireAuth and what it guards.                                         *)

(* Variant: the session data alone is trusted.                             *)
CheckData(r) ==
    /\ pc[r] = "check"
    /\ IF copy[r] # NoRequest
          THEN entered' = [entered EXCEPT ![r] = copy[r]] /\ Goto(r, "touch")
          ELSE Goto(r, "expel") /\ UNCHANGED entered
    /\ UNCHANGED <<account, row, lock, data, aim, given, after>>

(* IsActive.                                                               *)
Check(r) ==
    /\ pc[r] = "check"
    /\ IF copy[r] # NoRequest /\ row[copy[r]] = "active"
          THEN entered' = [entered EXCEPT ![r] = copy[r]] /\ Goto(r, "touch")
          ELSE Goto(r, "expel") /\ UNCHANGED entered
    /\ UNCHANGED <<account, row, lock, data, aim, given, after>>

(* Variant: revoked_at is not asked.                                       *)
TouchAny(r) ==
    /\ pc[r] = "touch"
    /\ row' = [row EXCEPT ![entered[r]] = "active"]
    /\ Goto(r, Handler(r))
    /\ UNCHANGED <<account, lock, data, entered, aim, given, after>>

(* Touch, left out when the copy says it was done less than a minute ago.  *)
(* It sets last_seen_at of a row that is not revoked, however old.         *)
Touch(r) ==
    /\ pc[r] = "touch"
    /\ \/ UNCHANGED row
       \/ /\ lock[entered[r]] = NoRequest
          /\ Unrevoked(entered[r])
          /\ row' = [row EXCEPT ![entered[r]] = "active"]
    /\ Goto(r, Handler(r))
    /\ UNCHANGED <<account, lock, data, entered, aim, given, after>>

(* DeleteAccount with the right password: the deletion of the user waits   *)
(* for the locked rows and cascades to all of them.                        *)
CloseAccount(c) ==
    /\ pc[c] = "close"
    /\ \/ /\ account
          /\ \A s \in Signins : lock[s] = NoRequest
          /\ account' = FALSE
          /\ row' = [s \in Signins |-> IF row[s] = "none" THEN "none" ELSE "gone"]
          /\ Goto(c, "destroy")
       \/ Goto(c, "refuse") /\ UNCHANGED <<account, row>>
    /\ UNCHANGED <<lock, data, entered, aim, given, after>>

-----------------------------------------------------------------------------
(* Time and failures.                                                      *)

(* Half an hour without a touch ...                                        *)
RowIdle(s) ==
    /\ row[s] = "active"
    /\ row' = [row EXCEPT ![s] = "idle"]
    /\ UNCHANGED <<account, lock, data, pc, entered, aim, given, after>>

(* ... and half an hour without a save, or an hour under one token.        *)
DataExpires(t) ==
    /\ store[t] # Absent
    /\ store' = [store EXCEPT ![t] = Absent]
    /\ UNCHANGED <<account, row, lock, pc, token, copy, entered, aim, given, after>>

(* A statement fails and the handler goes on as it does after any error:   *)
(* Touch and the revocation of Signout are only logged.  When the context  *)
(* of the request has ended or the server stops, so do all that follow, to *)
(* the saving of the data.                                                 *)
AfterError(r) ==
    IF pc[r] = "touch" THEN Handler(r)
    ELSE IF For(r, {"signout"}) /\ pc[r] \in {"revoke", "visit"} THEN "destroy"
    ELSE "refuse"

StatementFails(r) ==
    /\ "database" \in Faults
    /\ Running(r)
    /\ pc[r] \notin {"answer", "refuse"}
    /\ lock' = FreeRows(r)
    /\ aim' = [aim EXCEPT ![r] = {}]
    /\ Goto(r, AfterError(r))
    /\ UNCHANGED <<account, row, data, entered, given, after>>

SaveFails(r) ==
    /\ "database" \in Faults
    /\ pc[r] \in {"answer", "refuse"}
    /\ Leave(r, "failed")
    /\ UNCHANGED <<account, row, lock, store, entered, aim, given, after>>

Step(r) ==
    \/ RenewToken(r)
    \/ Destroy(r)
    \/ Save(r)
    \/ StartRevoking(r)
    \/ Revoke(r)
    \/ Check(r)
    \/ Touch(r)
    \/ r \in Signins /\ (Authenticate(r) \/ InsertRow(r))
    \/ CloseAccount(r)

(* Every request has been served.                                          *)
Quiet ==
    /\ \A r \in Requests : ~Running(r)
    /\ UNCHANGED vars

Next ==
    \/ \E r \in Requests : Load(r) \/ Step(r) \/ StatementFails(r) \/ SaveFails(r)
    \/ \E s \in Signins : RowIdle(s)
    \/ \E t \in Requests : DataExpires(t)
    \/ Quiet

Spec == Init /\ [][Next]_vars

-----------------------------------------------------------------------------
(* Whether q has told its user that session s is over: s was the session   *)
(* of a sign-out or picked for a logout, was there when "encerrar outras"  *)
(* or a new sign-in from the same device began, or lost its account.  A    *)
(* sign-out whose revocation failed is left out: Signout only logs that.   *)
Ends(q, s) ==
    /\ pc[q] = "done"
    /\ \/ For(q, {"signout", "logout"}) /\ aim[q] = {s}
       \/ For(q, {"revokeOther"}) /\ s \in after[q] /\ entered[q] # s
       \/ q \in Signins /\ s \in after[q] /\ device[s] = device[q]
       \/ For(q, {"close"})

(* Whoever begins after the end of a session was reported is never let in  *)
(* with it, although requests under way put its data back into the store   *)
(* and its token back into the cookie.                                     *)
EndedStaysOut ==
    \A r \in Requests, s \in Signins : \A q \in after[r] : Ends(q, s) => entered[r] # s

(* The last request to answer saves its whole copy of the data, and that   *)
(* is harmless to who is signed in: all that requests ever hold or store   *)
(* under one token names one and the same session, or none.  A visitor's   *)
(* token, for one, never turns into that of a session.                     *)
TokenNamesOneSession ==
    \A q \in Requests :
        /\ \A r \in Requests : token[q] = token[r] /\ token[q] # NoRequest => copy[q] = copy[r]
        /\ \A t \in {token[q]} \ {NoRequest} : store[t] \in {Absent, copy[q]}

SessionState(s) ==
    CASE row[s] = "none" -> "new"
      [] Unrevoked(s) -> "open"
      [] OTHER -> "closed"

(* The code keeps the promise of SessionGate: rows are opened once and     *)
(* never reopened, not by a late Touch either, and admit while open only.  *)
Gate == INSTANCE SessionGate WITH
    Sessions <- Signins,
    Outside <- NoRequest,
    session <- [s \in Signins |-> SessionState(s)],
    inside <- entered

ImplementsGate == Gate!Spec

(* "verifica Create de sessão (revoga duplicata, insert)": a sign-in       *)
(* replaces the session of its device, so there is one.                    *)
OneSessionPerDevice ==
    \A s, t \in Signins :
        row[s] = "active" /\ row[t] = "active" /\ device[s] = device[t] => s = t

=============================================================================
