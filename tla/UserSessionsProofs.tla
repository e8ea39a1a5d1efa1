---------------------------- MODULE UserSessionsProofs ----------------------------
(***************************************************************************)
(* What UserSessions guarantees for every set of requests and devices,     *)
(* with and without failing statements: whoever begins after the end of a  *)
(* session was reported is not let in with it, whatever is stored under    *)
(* one token names one session, and the code keeps the promise of          *)
(* SessionGate.                                                            *)
(*                                                                         *)
(* The argument has three layers.  A row that is revoked or gone stays     *)
(* so, since a sign-in inserts only its own and a Touch asks for a row     *)
(* that is not revoked.  A request that announces the end of a session     *)
(* has, from its revocation on, either seen the row revoked or has it in   *)
(* its aim or under its lock.  And a token is fresh until the request      *)
(* that it belongs to takes it, and is nobody else's until that request    *)
(* has put its session into its copy.                                      *)
(***************************************************************************)
EXTENDS UserSessions, TLAPS

Over(s) == row[s] \in {"revoked", "gone"}

(* Which requests get to which statements at all.                          *)
Itinerary ==
    /\ \A s \in Signins :
          pc[s] \in {"begin", "password", "renew", "revoke", "visit", "insert",
                     "answer", "refuse"} \cup Ended
    /\ \A r \in Others :
          /\ pc[r] \notin {"password", "insert"}
          /\ pc[r] \in {"check", "touch"} => ~For(r, {"visit"})
          /\ pc[r] \in {"revoke", "visit"} => For(r, {"signout", "logout", "revokeOther"})
          /\ pc[r] = "renew" => For(r, {"renew"})
          /\ pc[r] = "close" => For(r, {"close"})

-----------------------------------------------------------------------------
(* The rows.                                                               *)

(* A sign-in has no row before its INSERT and has one when it answers.     *)
RowsOfSignins ==
    \A s \in Signins :
        /\ pc[s] \in {"begin", "password", "renew", "revoke", "visit", "insert"}
              => row[s] = "none"
        /\ pc[s] \in {"answer", "done"} => row[s] # "none"

(* Only a sign-in about to insert has rows locked, and none of them is     *)
(* revoked yet.                                                            *)
LocksHeld ==
    \A s \in Signins : lock[s] # NoRequest => Unrevoked(s) /\ pc[lock[s]] = "insert"

(* The rows go with the account.                                           *)
RowsNeedAccount == ~account => \A s \in Signins : ~Unrevoked(s)

(* Every session that is stored or worked on has had a row.                *)
SessionsHaveRows ==
    /\ \A r \in Requests : copy[r] # NoRequest => row[copy[r]] # "none"
    /\ \A t \in Requests : store[t] \in Signins => row[store[t]] # "none"

(* RequireAuth puts what is in the copy into entered.                     *)
Inside ==
    /\ \A s \in Signins : entered[s] = NoRequest
    /\ \A r \in Others :
          /\ pc[r] \in {"begin", "check"} => entered[r] = NoRequest
          /\ pc[r] \in {"touch", "revoke", "visit"} =>
                entered[r] = copy[r] /\ entered[r] # NoRequest

RowInv ==
    /\ TypeOK
    /\ Itinerary
    /\ RowsOfSignins
    /\ LocksHeld
    /\ RowsNeedAccount
    /\ SessionsHaveRows
    /\ Inside

-----------------------------------------------------------------------------
(* The claims: what holds from the revocation on of a request that will    *)
(* tell its user of the end of sessions.                                   *)

Telling == {"destroy", "answer", "done"}

AfterAreDone == \A r \in Requests : \A q \in after[r] : pc[q] = "done"

SignoutHolds ==
    \A q \in Others : For(q, {"signout"}) =>
        /\ pc[q] = "visit" => aim[q] = {copy[q]}
        /\ pc[q] \in Telling => \A s \in Signins : aim[q] = {s} => Over(s)

LogoutHolds ==
    \A q \in Others : For(q, {"logout"}) /\ pc[q] \in Telling =>
        \A s \in Signins : aim[q] = {s} => Over(s)

RevokeOtherHolds ==
    \A q \in Others : For(q, {"revokeOther"}) =>
        \A s \in after[q] \cap Signins : s # entered[q] =>
            /\ pc[q] = "visit" => Over(s) \/ s \in aim[q]
            /\ pc[q] \in Telling => Over(s)

SigninHolds ==
    \A q \in Signins : \A s \in after[q] \cap Signins : device[s] = device[q] =>
        /\ pc[q] = "visit" => Over(s) \/ s \in aim[q]
        /\ pc[q] = "insert" => Over(s) \/ lock[s] = q
        /\ pc[q] \in Telling => Over(s)

CloseHolds ==
    \A q \in Others : For(q, {"close"}) /\ pc[q] \in Telling => ~account

ClaimInv ==
    /\ AfterAreDone
    /\ SignoutHolds
    /\ LogoutHolds
    /\ RevokeOtherHolds
    /\ SigninHolds
    /\ CloseHolds
    /\ EndedStaysOut

-----------------------------------------------------------------------------
(* The tokens.                                                             *)

(* Before a request renews its token, the new one is nowhere.              *)
FreshTokens ==
    \A r \in Requests :
        pc[r] \in {"begin", "password", "check", "touch", "renew"} =>
            store[r] = Absent /\ \A q \in Requests : token[q] # r

(* Until it has its row, a sign-in is alone with its new token.            *)
OwnTokens ==
    \A s \in Signins :
        pc[s] \in {"revoke", "visit", "insert"} =>
            /\ token[s] = s
            /\ store[s] = Absent
            /\ \A q \in Requests \ {s} : token[q] # s

TokenInv ==
    /\ FreshTokens
    /\ OwnTokens
    /\ TokenNamesOneSession

IInv == RowInv /\ ClaimInv /\ TokenInv

-----------------------------------------------------------------------------
(* What the actions with alternatives do, one alternative at a time.       *)

LEMMA OpeningIs ==
    ASSUME NEW r \in Requests, TypeOK
    PROVE  /\ Opening(r) \in {"password", "check", "answer"}
           /\ r \in Signins <=> Opening(r) = "password"
           /\ Opening(r) = "check" => r \in Others /\ ~For(r, {"visit"})
           /\ Opening(r) = "answer" => For(r, {"visit"})
  BY RequestAssumption DEF Opening, Guarded, For, Requests, TypeOK

LEMMA HandlerIs ==
    ASSUME NEW r \in Others, TypeOK
    PROVE  /\ Handler(r) \in {"answer", "renew", "close", "revoke"}
           /\ Handler(r) = "answer" => For(r, {"page"})
           /\ Handler(r) = "renew" => For(r, {"renew"})
           /\ Handler(r) = "close" => For(r, {"close"})
           /\ Handler(r) = "revoke" /\ ~For(r, {"visit"})
                 => For(r, {"signout", "logout", "revokeOther"})
  BY DEF Handler, For, Routes, TypeOK

LEMMA AfterRevokingIs ==
    ASSUME NEW r \in Requests, NEW R
    PROVE  /\ AfterRevoking(r, R) \in {"destroy", "answer", "refuse"}
           /\ For(r, {"signout"}) => AfterRevoking(r, R) = "destroy"
           /\ For(r, {"revokeOther"}) => AfterRevoking(r, R) = "answer"
           /\ For(r, {"logout"}) /\ R = {} => AfterRevoking(r, R) = "refuse"
  BY DEF AfterRevoking, For

LEMMA AfterErrorIs ==
    ASSUME NEW r \in Requests
    PROVE  \/ pc[r] = "touch" /\ AfterError(r) = Handler(r)
           \/ /\ pc[r] \in {"revoke", "visit"}
              /\ For(r, {"signout"})
              /\ AfterError(r) = "destroy"
           \/ AfterError(r) = "refuse"
  BY DEF AfterError

LEMMA CheckIs ==
    ASSUME NEW r \in Requests, Check(r)
    PROVE  /\ pc[r] = "check"
           /\ UNCHANGED <<account, row, lock, store, token, copy, aim, device, route, after>>
           /\ \/ /\ copy[r] # NoRequest
                 /\ row[copy[r]] = "active"
                 /\ entered' = [entered EXCEPT ![r] = copy[r]]
                 /\ pc' = [pc EXCEPT ![r] = "touch"]
              \/ /\ entered' = entered
                 /\ pc' = [pc EXCEPT ![r] = "expel"]
<1>1. CASE copy[r] # NoRequest /\ row[copy[r]] = "active"
  BY <1>1 DEF Check, Goto, data, given
<1>2. CASE ~(copy[r] # NoRequest /\ row[copy[r]] = "active")
  BY <1>2 DEF Check, Goto, data, given
<1> QED
  BY <1>1, <1>2

LEMMA RevokeIs ==
    ASSUME NEW r \in Requests, Revoke(r)
    PROVE  /\ pc[r] = "visit"
           /\ \A s \in aim[r] : lock[s] = NoRequest
           /\ UNCHANGED <<account, store, token, copy, entered, aim, device, route, after>>
           /\ \/ /\ r \in Signins
                 /\ lock' = [s \in Signins |-> IF s \in aim[r] /\ Unrevoked(s) THEN r ELSE lock[s]]
                 /\ row' = row
                 /\ pc' = [pc EXCEPT ![r] = "insert"]
              \/ /\ r \notin Signins
                 /\ row' = [s \in Signins |->
                              IF s \in aim[r] /\ Unrevoked(s) THEN "revoked" ELSE row[s]]
                 /\ lock' = lock
                 /\ pc' = [pc EXCEPT ![r] = AfterRevoking(r, {s \in aim[r] : Unrevoked(s)})]
<1>1. CASE r \in Signins
  BY <1>1 DEF Revoke, Goto, data, given
<1>2. CASE r \notin Signins
  BY <1>2 DEF Revoke, Goto, data, given
<1> QED
  BY <1>1, <1>2

LEMMA InsertRowIs ==
    ASSUME NEW s \in Signins, InsertRow(s)
    PROVE  /\ pc[s] = "insert"
           /\ lock' = [t \in Signins |-> IF lock[t] = s THEN NoRequest ELSE lock[t]]
           /\ UNCHANGED <<account, store, token, entered, aim, device, route, after>>
           /\ \/ /\ account
                 /\ row' = [t \in Signins |-> IF t = s THEN "active"
                                              ELSE IF lock[t] = s THEN "revoked" ELSE row[t]]
                 /\ copy' = [copy EXCEPT ![s] = s]
                 /\ pc' = [pc EXCEPT ![s] = "answer"]
              \/ /\ ~account
                 /\ UNCHANGED <<row, copy>>
                 /\ pc' = [pc EXCEPT ![s] = "refuse"]
<1>1. CASE account
  BY <1>1 DEF InsertRow, FreeRows, Goto, given
<1>2. CASE ~account
  BY <1>2 DEF InsertRow, FreeRows, Goto, given
<1> QED
  BY <1>1, <1>2

-----------------------------------------------------------------------------
(* The program counter keeps its type when a request goes to a step.       *)
LEMMA GotoType ==
    ASSUME TypeOK, NEW r \in Requests, NEW step \in Steps, pc' = [pc EXCEPT ![r] = step]
    PROVE  pc' \in [Requests -> Steps]
  BY DEF TypeOK

(* Every variable keeps its type.                                          *)
LEMMA TypeStep ==
    ASSUME TypeOK, Itinerary, [Next]_vars
    PROVE  TypeOK'
<1>1. ASSUME NEW r \in Requests, Load(r)
      PROVE  TypeOK'
  <2>1. pc' \in [Requests -> Steps]
    BY <1>1, OpeningIs, GotoType DEF Load, Goto, Steps
  <2>2. /\ token' \in [Requests -> Requests \cup {NoRequest}]
        /\ copy' \in [Requests -> Signins \cup {NoRequest}]
    BY <1>1 DEF Load, TypeOK
  <2>3. after' \in [Requests -> SUBSET Requests]
    BY <1>1 DEF Load, TypeOK
  <2> QED
    BY <1>1, <2>1, <2>2, <2>3 DEF Load, TypeOK, given
<1>2. ASSUME NEW r \in Requests, RenewToken(r)
      PROVE  TypeOK'
  <2>1. pc' \in [Requests -> Steps]
    BY <1>2, GotoType DEF RenewToken, Goto, Steps
  <2> QED
    BY <1>2, <2>1 DEF RenewToken, TypeOK, given
<1>3. ASSUME NEW r \in Requests, Destroy(r)
      PROVE  TypeOK'
  <2>1. pc' \in [Requests -> Steps]
    BY <1>3, GotoType DEF Destroy, Leave, Goto, Steps, Ended
  <2> QED
    BY <1>3, <2>1 DEF Destroy, Leave, TypeOK, given
<1>4. ASSUME NEW r \in Requests, Save(r)
      PROVE  TypeOK'
  <2>1. pc' \in [Requests -> Steps]
    BY <1>4, GotoType DEF Save, Leave, Goto, Steps, Ended
  <2> QED
    BY <1>4, <2>1 DEF Save, Leave, TypeOK, given
<1>5. ASSUME NEW r \in Requests, StartRevoking(r)
      PROVE  TypeOK'
  <2>1. pc' \in [Requests -> Steps]
    BY <1>5, GotoType DEF StartRevoking, Goto, Steps
  <2> QED
    BY <1>5, <2>1 DEF StartRevoking, TypeOK, data, given
<1>6. ASSUME NEW r \in Requests, Revoke(r)
      PROVE  TypeOK'
  <2>1. pc' \in [Requests -> Steps]
    BY <1>6, RevokeIs, AfterRevokingIs, GotoType DEF Steps
  <2>2. CASE r \in Signins
    BY <1>6, RevokeIs, <2>1, <2>2 DEF TypeOK
  <2>3. CASE r \notin Signins
    <3>1. row' = [s \in Signins |-> IF s \in aim[r] /\ Unrevoked(s) THEN "revoked" ELSE row[s]]
      BY <1>6, RevokeIs, <2>3
    <3>2. row' \in [Signins -> RowStates]
      BY <3>1 DEF TypeOK, RowStates
    <3> QED
      BY <1>6, RevokeIs, <2>1, <2>3, <3>2 DEF TypeOK
  <2> QED
    BY <2>2, <2>3
<1>7. ASSUME NEW r \in Requests, Check(r)
      PROVE  TypeOK'
  <2>1. pc' \in [Requests -> Steps]
    BY <1>7, CheckIs, GotoType DEF Steps
  <2>2. entered' \in [Requests -> Signins \cup {NoRequest}]
    <3>1. entered' = entered \/ entered' = [entered EXCEPT ![r] = copy[r]]
      BY <1>7, CheckIs
    <3> QED
      BY <3>1 DEF TypeOK
  <2> QED
    BY <1>7, CheckIs, <2>1, <2>2 DEF TypeOK
<1>8. ASSUME NEW r \in Requests, Touch(r)
      PROVE  TypeOK'
  <2>1. r \in Others
    BY <1>8 DEF Touch, Itinerary, Requests, Ended
  <2>2. pc' \in [Requests -> Steps]
    BY <1>8, <2>1, HandlerIs, GotoType DEF Touch, Goto, Steps
  <2>3. row' \in [Signins -> RowStates]
    BY <1>8 DEF Touch, TypeOK, RowStates
  <2> QED
    BY <1>8, <2>2, <2>3 DEF Touch, TypeOK, data, given
<1>9. ASSUME NEW s \in Signins, Authenticate(s)
      PROVE  TypeOK'
  <2>1. pc' \in [Requests -> Steps]
    BY <1>9, GotoType DEF Authenticate, Goto, Steps, Requests
  <2>2. token' \in [Requests -> Requests \cup {NoRequest}]
    BY <1>9 DEF Authenticate, TypeOK, Requests
  <2> QED
    BY <1>9, <2>1, <2>2 DEF Authenticate, TypeOK, given
<1>10. ASSUME NEW s \in Signins, InsertRow(s)
       PROVE  TypeOK'
  <2>1. pc' \in [Requests -> Steps]
    BY <1>10, InsertRowIs, GotoType DEF Steps, Requests
  <2>2. row' \in [Signins -> RowStates]
    <3>1. \/ row' = row
          \/ row' = [t \in Signins |-> IF t = s THEN "active"
                                       ELSE IF lock[t] = s THEN "revoked" ELSE row[t]]
      BY <1>10, InsertRowIs
    <3> QED
      BY <3>1 DEF TypeOK, RowStates
  <2>3. lock' \in [Signins -> Signins \cup {NoRequest}]
    <3>1. lock' = [t \in Signins |-> IF lock[t] = s THEN NoRequest ELSE lock[t]]
      BY <1>10, InsertRowIs
    <3> QED
      BY <3>1 DEF TypeOK
  <2>4. copy' \in [Requests -> Signins \cup {NoRequest}]
    <3>1. copy' = copy \/ copy' = [copy EXCEPT ![s] = s]
      BY <1>10, InsertRowIs
    <3> QED
      BY <3>1 DEF TypeOK
  <2> QED
    BY <1>10, InsertRowIs, <2>1, <2>2, <2>3, <2>4 DEF TypeOK
<1>11. ASSUME NEW r \in Requests, CloseAccount(r)
       PROVE  TypeOK'
  <2>1. pc' \in [Requests -> Steps]
    BY <1>11, GotoType DEF CloseAccount, Goto, Steps
  <2>2. account' \in BOOLEAN /\ row' \in [Signins -> RowStates]
    BY <1>11 DEF CloseAccount, TypeOK, RowStates
  <2> QED
    BY <1>11, <2>1, <2>2 DEF CloseAccount, TypeOK, data, given
<1>12. ASSUME NEW r \in Requests, StatementFails(r)
       PROVE  TypeOK'
  <2>1. pc[r] = "touch" => r \in Others
    BY DEF Itinerary, Requests, Ended
  <2>2. AfterError(r) \in Steps
    <3>1. CASE pc[r] = "touch" /\ AfterError(r) = Handler(r)
      BY <2>1, <3>1, HandlerIs DEF Steps
    <3> QED
      BY <3>1, AfterErrorIs DEF Steps
  <2>3. pc' \in [Requests -> Steps]
    BY <1>12, <2>2, GotoType DEF StatementFails, Goto
  <2> QED
    BY <1>12, <2>3 DEF StatementFails, FreeRows, TypeOK, data, given
<1>13. ASSUME NEW r \in Requests, SaveFails(r)
       PROVE  TypeOK'
  <2>1. pc' \in [Requests -> Steps]
    BY <1>13, GotoType DEF SaveFails, Leave, Goto, Steps, Ended
  <2> QED
    BY <1>13, <2>1 DEF SaveFails, Leave, TypeOK, given
<1>14. ASSUME NEW s \in Signins, RowIdle(s)
       PROVE  TypeOK'
  BY <1>14 DEF RowIdle, TypeOK, RowStates, data, given
<1>15. ASSUME NEW t \in Requests, DataExpires(t)
       PROVE  TypeOK'
  BY <1>15 DEF DataExpires, TypeOK, given
<1>16. CASE UNCHANGED vars
  BY <1>16 DEF vars, data, given, TypeOK
<1> QED
  BY <1>1, <1>2, <1>3, <1>4, <1>5, <1>6, <1>7, <1>8, <1>9, <1>10, <1>11, <1>12,
     <1>13, <1>14, <1>15, <1>16
  DEF Next, Step, Quiet

-----------------------------------------------------------------------------
(* A request moves by its own actions only.                                *)

Stays(q) ==
    /\ pc'[q] = pc[q]
    /\ token'[q] = token[q]
    /\ copy'[q] = copy[q]
    /\ entered'[q] = entered[q]
    /\ aim'[q] = aim[q]
    /\ after'[q] = after[q]

Moves(q) == Load(q) \/ Step(q) \/ StatementFails(q) \/ SaveFails(q)

LEMMA StaysOrMoves ==
    ASSUME TypeOK, [Next]_vars, NEW q \in Requests
    PROVE  Stays(q) \/ Moves(q)
<1> USE DEF Stays, Goto, Leave, data, given
<1>1. ASSUME NEW r \in Requests \ {q}, Moves(r)
      PROVE  Stays(q)
  <2>1. CASE Load(r)
    BY <1>1, <2>1 DEF Load, TypeOK
  <2>2. CASE RenewToken(r) \/ Destroy(r) \/ Save(r)
    BY <1>1, <2>2 DEF RenewToken, Destroy, Save, TypeOK
  <2>3. CASE StartRevoking(r)
    BY <1>1, <2>3 DEF StartRevoking, TypeOK
  <2>4. CASE Revoke(r)
    <3>1. UNCHANGED <<token, copy, entered, aim, after>>
      BY <2>4, RevokeIs
    <3>2. \E step : pc' = [pc EXCEPT ![r] = step]
      BY <2>4, RevokeIs
    <3> QED
      BY <3>1, <3>2 DEF TypeOK
  <2>5. CASE Check(r)
    <3>1. UNCHANGED <<token, copy, aim, after>>
      BY <2>5, CheckIs
    <3>2. \E step : pc' = [pc EXCEPT ![r] = step]
      BY <2>5, CheckIs
    <3>3. entered' = entered \/ entered' = [entered EXCEPT ![r] = copy[r]]
      BY <2>5, CheckIs
    <3> QED
      BY <3>1, <3>2, <3>3 DEF TypeOK
  <2>6. CASE Touch(r) \/ CloseAccount(r)
    BY <1>1, <2>6 DEF Touch, CloseAccount, TypeOK
  <2>7. CASE r \in Signins /\ Authenticate(r)
    BY <1>1, <2>7 DEF Authenticate, TypeOK
  <2>8. CASE r \in Signins /\ InsertRow(r)
    <3>1. UNCHANGED <<token, entered, aim, after>>
      BY <2>8, InsertRowIs
    <3>2. \E step : pc' = [pc EXCEPT ![r] = step]
      BY <2>8, InsertRowIs
    <3>3. copy' = copy \/ copy' = [copy EXCEPT ![r] = r]
      BY <2>8, InsertRowIs
    <3> QED
      BY <3>1, <3>2, <3>3 DEF TypeOK
  <2>9. CASE StatementFails(r) \/ SaveFails(r)
    BY <1>1, <2>9 DEF StatementFails, SaveFails, TypeOK
  <2> QED
    BY <1>1, <2>1, <2>2, <2>3, <2>4, <2>5, <2>6, <2>7, <2>8, <2>9 DEF Moves, Step
<1>2. ASSUME NEW s \in Signins, RowIdle(s)
      PROVE  Stays(q)
  BY <1>2 DEF RowIdle
<1>3. ASSUME NEW t \in Requests, DataExpires(t)
      PROVE  Stays(q)
  BY <1>3 DEF DataExpires
<1>4. CASE UNCHANGED vars
  BY <1>4 DEF vars
<1> QED
  BY <1>1, <1>2, <1>3, <1>4 DEF Next, Moves, Quiet

(* What a request is for, and where a sign-in comes from, is given.        *)
LEMMA GivenStays ==
    ASSUME TypeOK, [Next]_vars
    PROVE  device' = device /\ route' = route
<1> USE DEF given, data
<1>1. ASSUME NEW r \in Requests, Moves(r)
      PROVE  device' = device /\ route' = route
  BY <1>1, RevokeIs, CheckIs, InsertRowIs
  DEF Moves, Step, Load, RenewToken, Destroy, Save, StartRevoking, Touch, Authenticate,
      CloseAccount, StatementFails, SaveFails
<1>2. ASSUME NEW s \in Signins, RowIdle(s)
      PROVE  device' = device /\ route' = route
  BY <1>2 DEF RowIdle
<1>3. ASSUME NEW t \in Requests, DataExpires(t)
      PROVE  device' = device /\ route' = route
  BY <1>3 DEF DataExpires
<1> QED
  BY <1>1, <1>2, <1>3 DEF Next, Moves, Quiet, vars

(* Where a move of a request leads.                                        *)
LEMMA Arrivals ==
    ASSUME TypeOK, Itinerary, NEW q \in Requests, Moves(q)
    PROVE  /\ pc'[q] # pc[q]
           /\ pc'[q] # "begin" /\ pc[q] \notin Ended
           /\ pc'[q] = "visit" => StartRevoking(q)
           /\ pc'[q] = "insert" => Revoke(q) /\ q \in Signins
           /\ pc'[q] = "destroy" => q \in Others /\
                 \/ Revoke(q)
                 \/ For(q, {"signout"}) /\ aim'[q] = {}
                 \/ For(q, {"close"}) /\ ~account'
           /\ pc'[q] = "answer" =>
                 \/ Revoke(q)
                 \/ q \in Signins /\ account /\ InsertRow(q)
                 \/ For(q, {"visit", "page", "renew"})
           /\ pc'[q] = "done" => Save(q) \/ Destroy(q)
           /\ pc'[q] = "password" => pc[q] = "begin" /\ q \in Signins
           /\ pc'[q] = "check" => pc[q] = "begin" /\ q \in Others /\ ~For(q, {"visit"})
           /\ pc'[q] \in {"touch", "expel"} => Check(q)
           /\ pc'[q] = "renew" =>
                 \/ q \in Signins /\ pc[q] = "password"
                 \/ For(q, {"renew"}) /\ pc[q] = "touch"
           /\ pc'[q] = "revoke" =>
                 \/ q \in Signins /\ RenewToken(q)
                 \/ For(q, {"signout", "logout", "revokeOther"}) /\ pc[q] = "touch"
           /\ pc'[q] = "close" => For(q, {"close"})
           /\ pc'[q] = "visit" \/ aim'[q] = aim[q] \/ aim'[q] = {}
           /\ pc[q] # "begin" => after'[q] = after[q]
           /\ pc'[q] # "touch" => entered'[q] = entered[q]
           /\ pc'[q] \in {"visit", "revoke"} => copy'[q] = copy[q]
           /\ pc[q] \in {"touch", "revoke", "visit", "insert"} => token'[q] = token[q]
<1> USE DEF Goto, Leave, Ended, data, given
<1>1. CASE Load(q)
  <2>1. /\ pc[q] = "begin"
        /\ pc' = [pc EXCEPT ![q] = Opening(q)]
        /\ UNCHANGED <<entered, aim>>
    BY <1>1 DEF Load
  <2>2. pc'[q] = Opening(q)
    BY <2>1 DEF TypeOK
  <2> QED
    BY <1>1, <2>1, <2>2, OpeningIs DEF For
<1>2. CASE RenewToken(q)
  BY <1>2 DEF RenewToken, TypeOK, Itinerary, For, Requests
<1>3. CASE Destroy(q)
  BY <1>3 DEF Destroy, TypeOK
<1>4. CASE Save(q)
  BY <1>4 DEF Save, TypeOK
<1>5. CASE StartRevoking(q)
  BY <1>5 DEF StartRevoking, TypeOK
<1>6. CASE Revoke(q)
  <2>1. \/ q \in Signins /\ pc'[q] = "insert"
        \/ q \in Others /\ pc'[q] \in {"destroy", "answer", "refuse"}
    <3>1. CASE q \in Signins
      BY <1>6, <3>1, RevokeIs DEF TypeOK
    <3>2. CASE q \notin Signins
      <4>1. PICK R : pc' = [pc EXCEPT ![q] = AfterRevoking(q, R)]
        BY <1>6, <3>2, RevokeIs
      <4> QED
        BY <3>2, <4>1, AfterRevokingIs DEF TypeOK, Requests
    <3> QED
      BY <3>1, <3>2
  <2>2. pc[q] = "visit" /\ UNCHANGED <<token, copy, entered, aim, after>>
    BY <1>6, RevokeIs
  <2> QED
    BY <1>6, <2>1, <2>2
<1>7. CASE Check(q)
  <2>1. \/ entered' = [entered EXCEPT ![q] = copy[q]] /\ pc' = [pc EXCEPT ![q] = "touch"]
        \/ entered' = entered /\ pc' = [pc EXCEPT ![q] = "expel"]
    BY <1>7, CheckIs
  <2>2. pc'[q] = "touch" \/ (pc'[q] = "expel" /\ entered' = entered)
    BY <2>1 DEF TypeOK
  <2>3. pc[q] = "check" /\ UNCHANGED <<token, copy, aim, after>>
    BY <1>7, CheckIs
  <2> QED
    BY <1>7, <2>2, <2>3
<1>8. CASE Touch(q)
  <2>1. q \in Others /\ ~For(q, {"visit"})
    BY <1>8 DEF Touch, Itinerary, Requests
  <2> QED
    BY <1>8, <2>1, HandlerIs DEF Touch, TypeOK, For
<1>9. CASE q \in Signins /\ Authenticate(q)
  BY <1>9 DEF Authenticate, TypeOK
<1>10. CASE q \in Signins /\ InsertRow(q)
  BY <1>10, InsertRowIs DEF TypeOK
<1>11. CASE CloseAccount(q)
  BY <1>11 DEF CloseAccount, TypeOK, Itinerary, Requests
<1>12. CASE StatementFails(q)
  <2>1. CASE pc[q] = "touch" /\ AfterError(q) = Handler(q)
    <3>1. q \in Others /\ ~For(q, {"visit"})
      BY <2>1 DEF Itinerary, Requests
    <3> QED
      BY <1>12, <2>1, <3>1, HandlerIs DEF StatementFails, TypeOK, For
  <2>2. CASE AfterError(q) = "destroy" /\ For(q, {"signout"}) /\ pc[q] \in {"revoke", "visit"}
    BY <1>12, <2>2 DEF StatementFails, Running, TypeOK, For
  <2>3. CASE AfterError(q) = "refuse"
    BY <1>12, <2>3 DEF StatementFails, Running, TypeOK
  <2> QED
    BY <2>1, <2>2, <2>3, AfterErrorIs
<1>13. CASE SaveFails(q)
  BY <1>13 DEF SaveFails, TypeOK
<1> QED
  BY <1>1, <1>2, <1>3, <1>4, <1>5, <1>6, <1>7, <1>8, <1>9, <1>10, <1>11, <1>12, <1>13
  DEF Moves, Step

(* No request strays from its itinerary.                                   *)
LEMMA ItineraryStep ==
    ASSUME TypeOK, Itinerary, [Next]_vars
    PROVE  Itinerary'
<1> USE DEF Ended
<1>0. TypeOK'
  BY TypeStep
<1>1. ASSUME NEW q \in Requests, NEW R
      PROVE  For(q, R)' = For(q, R)
  BY GivenStays DEF For
<1>2. ASSUME NEW s \in Signins
      PROVE  pc'[s] \in {"begin", "password", "renew", "revoke", "visit", "insert",
                         "answer", "refuse"} \cup Ended
  <2>1. s \in Requests /\ s \notin Others
    BY RequestAssumption DEF Requests
  <2>2. CASE Stays(s)
    BY <2>2 DEF Stays, Itinerary
  <2>3. CASE Moves(s)
    <3>1. pc'[s] \in Steps
      BY <1>0, <2>1 DEF TypeOK
    <3>2. ~Check(s) /\ ~For(s, {"close"})
      BY <2>1 DEF Check, Itinerary, For
    <3> QED
      BY <2>1, <2>3, <3>1, <3>2, Arrivals DEF Steps
  <2> QED
    BY <2>1, <2>2, <2>3, StaysOrMoves
<1>3. ASSUME NEW r \in Others
      PROVE  /\ pc'[r] \notin {"password", "insert"}
             /\ pc'[r] \in {"check", "touch"} => ~For(r, {"visit"})
             /\ pc'[r] \in {"revoke", "visit"} => For(r, {"signout", "logout", "revokeOther"})
             /\ pc'[r] = "renew" => For(r, {"renew"})
             /\ pc'[r] = "close" => For(r, {"close"})
  <2>1. r \in Requests /\ r \notin Signins
    BY RequestAssumption DEF Requests
  <2>2. CASE Stays(r)
    BY <2>2 DEF Stays, Itinerary
  <2>3. CASE Moves(r)
    BY <2>1, <2>3, Arrivals DEF Check, StartRevoking, Itinerary
  <2> QED
    BY <2>1, <2>2, <2>3, StaysOrMoves
<1> QED
  BY <1>1, <1>2, <1>3 DEF Itinerary, Requests

-----------------------------------------------------------------------------
(* The rows.                                                               *)

(* A row appears by its own sign-in only, is touched or idle while nobody  *)
(* has revoked it, and then stays as it is.                                *)
LEMMA RowChanges ==
    ASSUME RowInv, [Next]_vars, NEW s \in Signins
    PROVE  \/ row'[s] = row[s]
           \/ account /\ InsertRow(s) /\ row'[s] = "active"
           \/ Unrevoked(s) /\ row'[s] \in {"active", "idle"}
           \/ lock[s] = NoRequest /\ row[s] # "none" /\ row'[s] \in {"revoked", "gone"}
           \/ \E p \in Signins \ {s} : lock[s] = p /\ account /\ InsertRow(p) /\ row'[s] = "revoked"
<1> USE DEF RowInv, TypeOK, Unrevoked, data, given
<1>2. ASSUME NEW r \in Requests, Revoke(r)
      PROVE  \/ row'[s] = row[s]
             \/ lock[s] = NoRequest /\ row[s] # "none" /\ row'[s] = "revoked"
  <2>1. CASE r \in Signins
    BY <1>2, <2>1, RevokeIs
  <2>2. CASE r \notin Signins
    <3>1. row' = [t \in Signins |-> IF t \in aim[r] /\ Unrevoked(t) THEN "revoked" ELSE row[t]]
      BY <1>2, <2>2, RevokeIs
    <3>2. s \in aim[r] => lock[s] = NoRequest
      BY <1>2, RevokeIs
    <3> QED
      BY <3>1, <3>2
  <2> QED
    BY <2>1, <2>2
<1>3. ASSUME NEW r \in Requests, Touch(r)
      PROVE  row'[s] = row[s] \/ (Unrevoked(s) /\ row'[s] = "active")
  <2>1. CASE entered[r] = s /\ row' = [row EXCEPT ![s] = "active"] /\ Unrevoked(s)
    BY <2>1
  <2>2. CASE entered[r] # s /\ row' = [row EXCEPT ![entered[r]] = "active"]
    BY <2>2
  <2> QED
    BY <1>3, <2>1, <2>2 DEF Touch
<1>4. ASSUME NEW p \in Signins, InsertRow(p)
      PROVE  \/ row'[s] = row[s]
             \/ account /\ p = s /\ row'[s] = "active"
             \/ account /\ p # s /\ lock[s] = p /\ row'[s] = "revoked"
  <2>1. CASE account
    <3>1. row' = [t \in Signins |-> IF t = p THEN "active"
                                  ELSE IF lock[t] = p THEN "revoked" ELSE row[t]]
      BY <1>4, <2>1, InsertRowIs
    <3> QED
      BY <2>1, <3>1
  <2>2. CASE ~account
    BY <1>4, <2>2, InsertRowIs
  <2> QED
    BY <2>1, <2>2
<1>5. ASSUME NEW r \in Requests, CloseAccount(r)
      PROVE  \/ row'[s] = row[s]
             \/ lock[s] = NoRequest /\ row[s] # "none" /\ row'[s] = "gone"
  BY <1>5 DEF CloseAccount
<1>6. ASSUME NEW t \in Signins, RowIdle(t)
      PROVE  row'[s] = row[s] \/ (Unrevoked(s) /\ row'[s] = "idle")
  <2>1. CASE t = s
    BY <1>6, <2>1 DEF RowIdle
  <2>2. CASE t # s
    BY <1>6, <2>2 DEF RowIdle
  <2> QED
    BY <2>1, <2>2
<1>7. ASSUME NEW r \in Requests, Check(r)
      PROVE  row'[s] = row[s]
  BY <1>7, CheckIs
<1> HIDE DEF RowInv, TypeOK, Unrevoked, data, given
<1> QED
  <2>1. ASSUME NEW r \in Requests, Moves(r)
        PROVE  \/ row'[s] = row[s]
               \/ Revoke(r) \/ Touch(r) \/ (r \in Signins /\ InsertRow(r)) \/ CloseAccount(r)
    BY <2>1, <1>7 DEF Moves, Step, Load, RenewToken, Destroy, Save, StartRevoking, Authenticate,
       StatementFails, SaveFails, data
  <2>2. ASSUME NEW t \in Requests, DataExpires(t)
        PROVE  row'[s] = row[s]
    BY <2>2 DEF DataExpires
  <2>3. CASE UNCHANGED vars
    BY <2>3 DEF vars
  <2> QED
    BY <2>1, <2>2, <2>3, <1>2, <1>3, <1>4, <1>5, <1>6 DEF Next, Moves, Quiet

(* So what is over stays over.                                             *)
LEMMA OverStays ==
    ASSUME RowInv, [Next]_vars, NEW s \in Signins, Over(s)
    PROVE  Over(s)'
<1>1. ~InsertRow(s)
  BY DEF RowInv, RowsOfSignins, InsertRow, Over
<1>2. ~Unrevoked(s) /\ lock[s] = NoRequest
  BY DEF RowInv, LocksHeld, Over, Unrevoked
<1>3. \A p \in Signins : lock[s] # p
  BY <1>2, RequestAssumption DEF Requests
<1> QED
  BY <1>1, <1>2, <1>3, RowChanges DEF Over

(* And what has a row keeps one.                                           *)
LEMMA RowStays ==
    ASSUME RowInv, [Next]_vars, NEW s \in Signins, row[s] # "none"
    PROVE  row'[s] # "none"
  BY RowChanges

LEMMA RowsOfSigninsStep ==
    ASSUME RowInv, [Next]_vars
    PROVE  RowsOfSignins'
<1> SUFFICES ASSUME NEW s \in Signins
             PROVE  /\ pc'[s] \in {"begin", "password", "renew", "revoke", "visit", "insert"}
                           => row'[s] = "none"
                    /\ pc'[s] \in {"answer", "done"} => row'[s] # "none"
  BY DEF RowsOfSignins
<1> USE DEF RowInv, Ended
<1>0. s \in Requests /\ s \notin Others
  BY RequestAssumption DEF Requests
<1>1. ASSUME row[s] = "none", row'[s] # "none"
      PROVE  pc'[s] = "answer"
  <2>1. ~Unrevoked(s) /\ \A p \in Signins : lock[s] # p
    BY <1>1, RequestAssumption DEF LocksHeld, Unrevoked, Requests
  <2>2. account /\ InsertRow(s)
    BY <1>1, <2>1, RowChanges
  <2> QED
    BY <2>2, InsertRowIs, <1>0 DEF TypeOK
<1>2. CASE Stays(s)
  BY <1>1, <1>2, RowStays DEF Stays, RowsOfSignins
<1>3. CASE Moves(s)
  <2>1. ASSUME pc'[s] \in {"password", "renew", "revoke", "visit", "insert"}
        PROVE  pc[s] \in {"begin", "password", "renew", "revoke", "visit"}
    BY <1>0, <1>3, <2>1, Arrivals DEF RenewToken, StartRevoking, Revoke, For
  <2>2. ASSUME pc'[s] = "answer"
        PROVE  row'[s] # "none"
    <3>1. pc'[s] = "insert" \/ ~Revoke(s)
      BY <1>0, RevokeIs DEF TypeOK
    <3>2. account /\ InsertRow(s)
      BY <1>0, <1>3, <2>2, <3>1, Arrivals DEF For
    <3>3. row' = [t \in Signins |-> IF t = s THEN "active"
                                  ELSE IF lock[t] = s THEN "revoked" ELSE row[t]]
      BY <3>2, InsertRowIs
    <3> QED
      BY <3>3
  <2>3. ASSUME pc'[s] = "done"
        PROVE  row'[s] # "none"
    BY <1>0, <1>3, <2>3, Arrivals, RowStays
    DEF Save, Destroy, Leave, Goto, Itinerary, TypeOK, RowsOfSignins
  <2> QED
    BY <1>0, <1>1, <1>3, <2>1, <2>2, <2>3, Arrivals DEF RowsOfSignins
<1> QED
  BY <1>0, <1>2, <1>3, StaysOrMoves

(* A sign-in keeps its locks until it goes on, and locks open rows only.   *)
LEMMA LockChanges ==
    ASSUME RowInv, [Next]_vars, NEW s \in Signins
    PROVE  \/ lock'[s] = lock[s]
           \/ lock'[s] = NoRequest /\ lock[s] \in Requests /\ Moves(lock[s])
           \/ /\ lock[s] = NoRequest
              /\ lock'[s] \in Signins /\ Revoke(lock'[s])
              /\ Unrevoked(s) /\ row'[s] = row[s]
<1> USE DEF RowInv, TypeOK, data, given
<1>1. ASSUME NEW r \in Requests, Revoke(r), lock'[s] # lock[s]
      PROVE  /\ r \in Signins /\ lock[s] = NoRequest /\ lock'[s] = r
             /\ Unrevoked(s) /\ row'[s] = row[s]
  <2>1. r \in Signins
    BY <1>1, RevokeIs
  <2>2. row' = row
    BY <1>1, <2>1, RevokeIs
  <2>3. lock' = [t \in Signins |-> IF t \in aim[r] /\ Unrevoked(t) THEN r ELSE lock[t]]
    BY <1>1, <2>1, RevokeIs
  <2>4. s \in aim[r] => lock[s] = NoRequest
    BY <1>1, RevokeIs
  <2> QED
    BY <1>1, <2>1, <2>2, <2>3, <2>4
<1>2. ASSUME NEW p \in Signins, InsertRow(p)
      PROVE  lock'[s] = lock[s] \/ (lock'[s] = NoRequest /\ lock[s] = p)
  <2>1. lock' = [t \in Signins |-> IF lock[t] = p THEN NoRequest ELSE lock[t]]
    BY <1>2, InsertRowIs
  <2> QED
    BY <2>1
<1>3. ASSUME NEW r \in Requests, StatementFails(r)
      PROVE  lock'[s] = lock[s] \/ (lock'[s] = NoRequest /\ lock[s] = r)
  BY <1>3 DEF StatementFails, FreeRows
<1>4. ASSUME NEW r \in Requests, Check(r)
      PROVE  lock'[s] = lock[s]
  BY <1>4, CheckIs
<1>5. ASSUME NEW r \in Requests, Moves(r)
      PROVE  \/ lock'[s] = lock[s]
             \/ Revoke(r) \/ StatementFails(r) \/ (r \in Signins /\ InsertRow(r))
  BY <1>4, <1>5 DEF Moves, Step, Load, RenewToken, Destroy, Save, StartRevoking, Authenticate,
     Touch, CloseAccount, SaveFails
<1>6. ASSUME NEW t \in Requests, DataExpires(t) \/ (t \in Signins /\ RowIdle(t))
      PROVE  lock'[s] = lock[s]
  BY <1>6 DEF DataExpires, RowIdle
<1>7. CASE UNCHANGED vars
  BY <1>7 DEF vars
<1> QED
  BY <1>1, <1>2, <1>3, <1>5, <1>6, <1>7 DEF Next, Moves, Step, Quiet, Requests

(* Whoever has a row locked when it moves gives it free.                   *)
LEMMA LocksEnd ==
    ASSUME RowInv, [Next]_vars, NEW s \in Signins, NEW p \in Signins,
           lock[s] = p, Moves(p)
    PROVE  lock'[s] = NoRequest
<1> USE DEF RowInv, TypeOK
<1>1. pc[p] = "insert" /\ p \in Requests /\ p \notin Others
  BY RequestAssumption DEF LocksHeld, Requests
<1>2. CASE InsertRow(p)
  <2>1. lock' = [t \in Signins |-> IF lock[t] = p THEN NoRequest ELSE lock[t]]
    BY <1>2, InsertRowIs
  <2> QED
    BY <2>1
<1>3. CASE StatementFails(p)
  BY <1>3 DEF StatementFails, FreeRows
<1> QED
  BY <1>1, <1>2, <1>3
  DEF Moves, Step, Load, RenewToken, Destroy, Save, StartRevoking, Revoke, Check, Touch,
      Authenticate, CloseAccount, SaveFails

LEMMA LocksHeldStep ==
    ASSUME RowInv, [Next]_vars
    PROVE  LocksHeld'
<1> SUFFICES ASSUME NEW s \in Signins, lock'[s] # NoRequest
             PROVE  Unrevoked(s)' /\ pc'[lock'[s]] = "insert"
  BY DEF LocksHeld
<1> USE DEF RowInv, TypeOK
<1>1. CASE lock'[s] = lock[s]
  <2>1. PICK p \in Signins : lock[s] = p /\ p \in Requests /\ pc[p] = "insert"
    BY <1>1 DEF LocksHeld, Requests
  <2>2. Stays(p)
    BY <1>1, <2>1, LocksEnd, StaysOrMoves
  <2>3. ~InsertRow(p)
    BY <2>1, <2>2, InsertRowIs DEF Stays
  <2>4. ~InsertRow(s)
    BY <1>1, <2>1 DEF InsertRow, LocksHeld, RowsOfSignins, Unrevoked
  <2>5. Unrevoked(s)'
    BY <1>1, <2>1, <2>3, <2>4, RowChanges DEF LocksHeld, Unrevoked
  <2> QED
    BY <1>1, <2>1, <2>2, <2>5 DEF Stays
<1>2. CASE lock'[s] # lock[s]
  <2>1. PICK p \in Signins : lock'[s] = p /\ Revoke(p) /\ Unrevoked(s) /\ row'[s] = row[s]
    BY <1>2, LockChanges
  <2>2. p \in Requests /\ pc' = [pc EXCEPT ![p] = "insert"]
    BY <2>1, RevokeIs DEF Requests
  <2>3. pc'[p] = "insert"
    BY <2>2
  <2> QED
    BY <2>1, <2>3 DEF Unrevoked
<1> QED
  BY <1>1, <1>2

LEMMA RowsNeedAccountStep ==
    ASSUME RowInv, [Next]_vars
    PROVE  RowsNeedAccount'
<1> USE DEF RowInv, TypeOK
<1>1. CASE account' = account
  <2>1. SUFFICES ASSUME ~account, NEW s \in Signins
                 PROVE  ~Unrevoked(s)'
    BY <1>1 DEF RowsNeedAccount, Unrevoked
  <2>2. ~Unrevoked(s)
    BY <2>1 DEF RowsNeedAccount
  <2> QED
    BY <2>1, <2>2, RowChanges DEF Unrevoked
<1>2. CASE account' # account
  <2>1. PICK r \in Requests : CloseAccount(r)
    <3> HIDE DEF RowInv, TypeOK
    <3>1. ASSUME NEW r \in Requests, Moves(r)
          PROVE  CloseAccount(r)
      BY <1>2, <3>1, RevokeIs, CheckIs, InsertRowIs
      DEF Moves, Step, Load, RenewToken, Destroy, Save, StartRevoking, Touch, Authenticate,
          StatementFails, SaveFails
    <3> QED
      BY <1>2, <3>1 DEF Next, Moves, Quiet, RowIdle, DataExpires, vars
  <2> QED
    BY <1>2, <2>1 DEF CloseAccount, RowsNeedAccount, Unrevoked
<1> QED
  BY <1>1, <1>2

(* Only the end of a request puts data into the store.                     *)
LEMMA StoreChanges ==
    ASSUME TypeOK, [Next]_vars, NEW t \in Requests
    PROVE  \/ store'[t] = store[t]
           \/ store'[t] = Absent
           \/ \E q \in Requests : Save(q) /\ t = token[q] /\ store'[t] = copy[q]
<1> USE DEF TypeOK, data
<1>1. ASSUME NEW q \in Requests, RenewToken(q) \/ Destroy(q)
      PROVE  store'[t] \in {store[t], Absent}
  BY <1>1 DEF RenewToken, Destroy
<1>2. ASSUME NEW q \in Requests, Save(q)
      PROVE  store'[t] = store[t] \/ (t = token[q] /\ store'[t] = copy[q])
  BY <1>2 DEF Save
<1>3. ASSUME NEW q \in Requests, DataExpires(q)
      PROVE  store'[t] \in {store[t], Absent}
  BY <1>3 DEF DataExpires
<1>4. ASSUME NEW q \in Requests, Moves(q)
      PROVE  UNCHANGED store \/ RenewToken(q) \/ Destroy(q) \/ Save(q)
  BY <1>4, RevokeIs, CheckIs, InsertRowIs
  DEF Moves, Step, Load, StartRevoking, Touch, Authenticate, CloseAccount, StatementFails,
      SaveFails
<1>5. ASSUME NEW s \in Signins, RowIdle(s)
      PROVE  UNCHANGED store
  BY <1>5 DEF RowIdle
<1>6. CASE UNCHANGED vars
  BY <1>6 DEF vars
<1> HIDE DEF TypeOK, data
<1> QED
  BY <1>1, <1>2, <1>3, <1>4, <1>5, <1>6 DEF Next, Moves, Quiet

(* A session gets into the data with its row, or from the data.            *)
LEMMA SessionsHaveRowsStep ==
    ASSUME RowInv, [Next]_vars
    PROVE  SessionsHaveRows'
<1> USE DEF RowInv, TypeOK
<1>1. ASSUME NEW q \in Requests, copy'[q] # NoRequest
      PROVE  row'[copy'[q]] # "none"
  <2>1. CASE copy'[q] = copy[q]
    BY <1>1, <2>1, RowStays DEF SessionsHaveRows
  <2>2. CASE copy'[q] # copy[q]
    <3>1. Moves(q)
      BY <2>2, StaysOrMoves DEF Stays
    <3>2. CASE Load(q)
      <4>1. PICK t \in Requests : store[t] # Absent /\ copy' = [copy EXCEPT ![q] = store[t]]
        BY <2>2, <3>2 DEF Load
      <4>2. copy'[q] = store[t] /\ store[t] \in Signins
        BY <1>1, <4>1
      <4> QED
        BY <4>2, RowStays DEF SessionsHaveRows
    <3>3. CASE q \in Signins /\ InsertRow(q)
      <4>1. /\ copy' = [copy EXCEPT ![q] = q]
            /\ row' = [t \in Signins |-> IF t = q THEN "active"
                                        ELSE IF lock[t] = q THEN "revoked" ELSE row[t]]
        BY <2>2, <3>3, InsertRowIs
      <4> QED
        BY <3>3, <4>1
    <3>4. CASE Destroy(q) \/ Save(q) \/ SaveFails(q)
      BY <1>1, <3>4 DEF Destroy, Save, SaveFails, Leave
    <3> QED
      BY <2>2, <3>1, <3>2, <3>3, <3>4, RevokeIs, CheckIs
      DEF Moves, Step, RenewToken, StartRevoking, Authenticate, Touch, CloseAccount,
          StatementFails, data
  <2> QED
    BY <2>1, <2>2
<1>2. ASSUME NEW t \in Requests, store'[t] \in Signins
      PROVE  row'[store'[t]] # "none"
  <2>1. CASE store'[t] = store[t]
    BY <1>2, <2>1, RowStays DEF SessionsHaveRows
  <2>2. CASE store'[t] # store[t]
    <3>1. PICK q \in Requests : store'[t] = copy[q]
      BY <1>2, <2>2, StoreChanges, RequestAssumption DEF Requests
    <3> QED
      BY <1>2, <3>1, RowStays, RequestAssumption DEF SessionsHaveRows, Requests
  <2> QED
    BY <2>1, <2>2
<1> QED
  BY <1>1, <1>2 DEF SessionsHaveRows

LEMMA InsideStep ==
    ASSUME RowInv, [Next]_vars
    PROVE  Inside'
<1>3. ASSUME NEW s \in Signins
      PROVE  entered'[s] = NoRequest
  <2>1. s \in Requests
    BY DEF Requests
  <2>2. pc'[s] # "touch"
    BY ItineraryStep DEF RowInv, Itinerary, Ended
  <2>3. entered'[s] = entered[s]
    BY <2>1, <2>2, StaysOrMoves, Arrivals DEF RowInv, Stays
  <2> QED
    BY <2>3 DEF RowInv, Inside
<1> SUFFICES ASSUME NEW q \in Others
             PROVE  /\ pc'[q] \in {"begin", "check"} => entered'[q] = NoRequest
                    /\ pc'[q] \in {"touch", "revoke", "visit"} =>
                          entered'[q] = copy'[q] /\ entered'[q] # NoRequest
  BY <1>3 DEF Inside
<1> USE DEF RowInv
<1>0. q \in Requests /\ q \notin Signins
  BY RequestAssumption DEF Requests
<1>1. CASE Stays(q)
  BY <1>1 DEF Stays, Inside
<1>2. CASE Moves(q)
  <2>1. CASE pc'[q] = "touch"
    <3>1. /\ Check(q)
          /\ UNCHANGED copy
      BY <1>0, <1>2, <2>1, Arrivals, CheckIs
    <3>2. copy[q] # NoRequest /\ entered' = [entered EXCEPT ![q] = copy[q]]
      BY <1>0, <2>1, <3>1, CheckIs DEF TypeOK
    <3> QED
      BY <1>0, <2>1, <3>1, <3>2 DEF TypeOK
  <2>2. CASE pc'[q] # "touch"
    BY <1>0, <1>2, <2>2, Arrivals DEF Inside, StartRevoking
  <2> QED
    BY <2>1, <2>2
<1> QED
  BY <1>0, <1>1, <1>2, StaysOrMoves

LEMMA RowInvStep ==
    ASSUME RowInv, [Next]_vars
    PROVE  RowInv'
  BY TypeStep, ItineraryStep, RowsOfSigninsStep, LocksHeldStep, RowsNeedAccountStep,
     SessionsHaveRowsStep, InsideStep
  DEF RowInv

-----------------------------------------------------------------------------
(* The claims.                                                             *)

LEMMA AfterStep ==
    ASSUME RowInv, AfterAreDone, [Next]_vars
    PROVE  AfterAreDone'
<1> SUFFICES ASSUME NEW r \in Requests, NEW q \in after'[r]
             PROVE  pc'[q] = "done"
  BY DEF AfterAreDone
<1> USE DEF RowInv, Ended
<1>1. q \in Requests /\ pc[q] = "done"
  <2>1. CASE after'[r] = after[r]
    BY <2>1 DEF AfterAreDone, TypeOK
  <2>2. CASE after'[r] # after[r]
    <3>1. Moves(r) /\ pc[r] = "begin"
      BY <2>2, StaysOrMoves, Arrivals DEF Stays
    <3>2. Load(r)
      BY <3>1, RequestAssumption
      DEF Moves, Step, RenewToken, Destroy, Save, StartRevoking, Revoke, Check, Touch,
          Authenticate, InsertRow, CloseAccount, StatementFails, SaveFails, Running
    <3> QED
      BY <3>2 DEF Load, TypeOK
  <2> QED
    BY <2>1, <2>2
<1>2. ~Moves(q)
  BY <1>1, Arrivals
<1> QED
  BY <1>1, <1>2, StaysOrMoves DEF Stays

(* What request q was told of when it began.                               *)
LEMMA AfterStays ==
    ASSUME RowInv, [Next]_vars, NEW q \in Requests, pc'[q] \notin {"password", "check", "answer"}
    PROVE  after'[q] = after[q]
<1> USE DEF RowInv
<1>1. CASE Stays(q)
  BY <1>1 DEF Stays
<1>2. CASE Moves(q)
  <2>1. CASE pc[q] # "begin"
    BY <1>2, <2>1, Arrivals
  <2>2. CASE pc[q] = "begin"
    <3>1. Load(q)
      BY <1>2, <2>2
      DEF Moves, Step, RenewToken, Destroy, Save, StartRevoking, Revoke, Check, Touch,
          Authenticate, InsertRow, CloseAccount, StatementFails, SaveFails, Running
    <3>2. pc' = [pc EXCEPT ![q] = Opening(q)]
      BY <3>1 DEF Load, Goto
    <3> QED
      BY <3>2, OpeningIs DEF TypeOK
  <2> QED
    BY <2>1, <2>2
<1> QED
  BY <1>1, <1>2, StaysOrMoves

LEMMA SignoutHoldsStep ==
    ASSUME RowInv, SignoutHolds, [Next]_vars
    PROVE  SignoutHolds'
<1> SUFFICES ASSUME NEW q \in Others, For(q, {"signout"})
             PROVE  /\ pc'[q] = "visit" => aim'[q] = {copy'[q]}
                    /\ pc'[q] \in Telling =>
                          \A s \in Signins : aim'[q] = {s} => Over(s)'
  BY GivenStays DEF SignoutHolds, For, RowInv
<1> USE DEF RowInv, Telling
<1>0. /\ q \in Requests /\ q \notin Signins
      /\ ~For(q, {"logout", "revokeOther", "close", "visit", "page", "renew"})
  BY RequestAssumption DEF Requests, For
<1>1. CASE Stays(q)
  BY <1>0, <1>1, OverStays DEF Stays, SignoutHolds
<1>2. CASE Moves(q)
  <2>1. CASE pc'[q] = "visit"
    <3>1. StartRevoking(q)
      BY <1>0, <1>2, <2>1, Arrivals
    <3>2. aim' = [aim EXCEPT ![q] = {copy[q]}] /\ UNCHANGED copy
      BY <1>0, <3>1 DEF StartRevoking, Targets, data, For
    <3> QED
      BY <1>0, <2>1, <3>2 DEF TypeOK
  <2>2. CASE pc'[q] \in {"destroy", "answer"} /\ aim'[q] # {}
    <3>1. Revoke(q)
      BY <1>0, <1>2, <2>2, Arrivals DEF For
    <3>2. PICK s \in Signins : aim[q] = {s} /\ aim'[q] = {s} /\ copy[q] = s
      BY <1>0, <3>1, RevokeIs, RequestAssumption
      DEF SignoutHolds, Inside, TypeOK, Requests
    <3>3. row' = [t \in Signins |-> IF t \in aim[q] /\ Unrevoked(t) THEN "revoked" ELSE row[t]]
      BY <1>0, <3>1, RevokeIs
    <3>4. row[s] # "none"
      BY <1>0, <3>2, RequestAssumption DEF SessionsHaveRows, Requests
    <3>5. row'[s] \in {"revoked", "gone"}
      BY <3>2, <3>3, <3>4 DEF Unrevoked, TypeOK, RowStates
    <3> QED
      BY <2>2, <3>2, <3>5 DEF Over
  <2>3. CASE pc'[q] = "done"
    <3>1. pc[q] \in Telling /\ aim'[q] = aim[q]
      BY <1>0, <1>2, <2>3, Arrivals DEF Save, Destroy, Leave, Goto, TypeOK
    <3> QED
      BY <2>3, <3>1, OverStays DEF SignoutHolds
  <2> QED
    BY <2>1, <2>2, <2>3
<1> QED
  BY <1>0, <1>1, <1>2, StaysOrMoves

LEMMA LogoutHoldsStep ==
    ASSUME RowInv, LogoutHolds, [Next]_vars
    PROVE  LogoutHolds'
<1> SUFFICES ASSUME NEW q \in Others, For(q, {"logout"}), pc'[q] \in Telling,
                    NEW s \in Signins, aim'[q] = {s}
             PROVE  Over(s)'
  BY GivenStays DEF LogoutHolds, For, RowInv
<1> USE DEF RowInv, Telling
<1>0. /\ q \in Requests /\ q \notin Signins
      /\ ~For(q, {"signout", "revokeOther", "close"}) /\ ~For(q, {"visit", "page", "renew"})
  BY RequestAssumption DEF Requests, For
<1>1. CASE Stays(q)
  BY <1>0, <1>1, OverStays DEF Stays, LogoutHolds
<1>2. CASE Moves(q)
  <2>1. CASE pc'[q] \in {"destroy", "answer"}
    <3>1. Revoke(q)
      BY <1>0, <1>2, <2>1, Arrivals DEF For
    <3> DEFINE R == {t \in aim[q] : Unrevoked(t)}
    <3>2. /\ row' = [t \in Signins |-> IF t \in aim[q] /\ Unrevoked(t) THEN "revoked" ELSE row[t]]
          /\ pc' = [pc EXCEPT ![q] = AfterRevoking(q, R)]
          /\ aim' = aim
      BY <1>0, <3>1, RevokeIs
    <3>3. R # {}
      BY <1>0, <2>1, <3>2, AfterRevokingIs DEF TypeOK
    <3>4. s \in aim[q] /\ Unrevoked(s)
      BY <3>2, <3>3
    <3> QED
      BY <3>2, <3>4 DEF Over
  <2>2. CASE pc'[q] = "done"
    <3>1. pc[q] \in Telling /\ aim'[q] = aim[q]
      BY <1>0, <1>2, <2>2, Arrivals DEF Save, Destroy, Leave, Goto, TypeOK
    <3> QED
      BY <3>1, OverStays DEF LogoutHolds
  <2> QED
    BY <2>1, <2>2
<1> QED
  BY <1>0, <1>1, <1>2, StaysOrMoves

(* A session that was there when "encerrar outras" began is over, or in    *)
(* its aim, from the first statement of the revocation on.                 *)
LEMMA RevokeOtherHoldsStep ==
    ASSUME RowInv, AfterAreDone, RevokeOtherHolds, [Next]_vars
    PROVE  RevokeOtherHolds'
<1> SUFFICES ASSUME NEW q \in Others, For(q, {"revokeOther"}),
                    NEW s \in after'[q] \cap Signins, s # entered'[q]
             PROVE  /\ pc'[q] = "visit" => Over(s)' \/ s \in aim'[q]
                    /\ pc'[q] \in Telling => Over(s)'
  BY GivenStays DEF RevokeOtherHolds, For, RowInv
<1> USE DEF RowInv, Telling
<1>0. /\ q \in Requests /\ q \notin Signins
      /\ ~For(q, {"signout", "logout", "close"}) /\ ~For(q, {"visit", "page", "renew"})
  BY RequestAssumption DEF Requests, For
<1>1. CASE Stays(q)
  BY <1>0, <1>1, OverStays DEF Stays, RevokeOtherHolds
<1>2. CASE Moves(q)
  <2>1. CASE pc'[q] = "visit"
    <3>1. StartRevoking(q) /\ s \in after[q] /\ entered'[q] = entered[q]
      BY <1>0, <1>2, <2>1, AfterStays, Arrivals
    <3>2. entered[q] = copy[q]
      BY <1>0, <3>1 DEF StartRevoking, Inside
    <3>3. /\ row' = row
          /\ aim' = [aim EXCEPT ![q] = {t \in Signins : Unrevoked(t) /\ t # copy[q]}]
      BY <1>0, <3>1 DEF StartRevoking, Targets, For
    <3>4. row[s] # "none"
      BY <3>1, <1>0 DEF AfterAreDone, RowsOfSignins
    <3> QED
      BY <1>0, <2>1, <3>1, <3>2, <3>3, <3>4 DEF Over, Unrevoked, TypeOK, RowStates
  <2>2. CASE pc'[q] \in {"destroy", "answer"}
    <3>1. Revoke(q) /\ pc[q] = "visit"
      BY <1>0, <1>2, <2>2, Arrivals, RevokeIs DEF For
    <3>2. s \in after[q] /\ entered'[q] = entered[q]
      BY <1>0, <3>1, RevokeIs
    <3>3. row' = [t \in Signins |-> IF t \in aim[q] /\ Unrevoked(t) THEN "revoked" ELSE row[t]]
      BY <1>0, <3>1, RevokeIs
    <3>4. Over(s) \/ (s \in aim[q] /\ row[s] # "none")
      BY <1>0, <3>1, <3>2 DEF RevokeOtherHolds, AfterAreDone, RowsOfSignins
    <3>5. row'[s] \in {"revoked", "gone"}
      BY <3>3, <3>4 DEF Over, Unrevoked, TypeOK, RowStates
    <3> QED
      BY <2>2, <3>5 DEF Over
  <2>3. CASE pc'[q] = "done"
    <3>1. pc[q] \in Telling /\ s \in after[q] /\ entered'[q] = entered[q]
      BY <1>0, <1>2, <2>3, AfterStays, Arrivals DEF Save, Destroy, Leave, Goto, TypeOK
    <3> QED
      BY <2>3, <3>1, OverStays DEF RevokeOtherHolds
  <2> QED
    BY <2>1, <2>2, <2>3
<1> QED
  BY <1>0, <1>1, <1>2, StaysOrMoves

(* A session of the device that was there when a sign-in began is over,    *)
(* in its aim, or under its lock until its COMMIT.                         *)
LEMMA SigninHoldsStep ==
    ASSUME RowInv, AfterAreDone, SigninHolds, [Next]_vars
    PROVE  SigninHolds'
<1> SUFFICES ASSUME NEW q \in Signins, NEW s \in after'[q] \cap Signins, device[s] = device[q]
             PROVE  /\ pc'[q] = "visit" => Over(s)' \/ s \in aim'[q]
                    /\ pc'[q] = "insert" => Over(s)' \/ lock'[s] = q
                    /\ pc'[q] \in Telling => Over(s)'
  BY GivenStays DEF SigninHolds, RowInv
<1> USE DEF RowInv, Telling
<1>0. q \in Requests /\ \A R : ~For(q, R)
  BY RequestAssumption DEF Requests, For
<1>1. CASE Stays(q)
  <2>1. ~Moves(q)
    BY <1>0, <1>1, Arrivals DEF Stays
  <2>2. lock[s] = q => lock'[s] = q
    BY <2>1, LockChanges, RequestAssumption DEF Requests
  <2> QED
    BY <1>0, <1>1, <2>2, OverStays DEF Stays, SigninHolds
<1>2. CASE Moves(q)
  <2>1. CASE pc'[q] = "visit"
    <3>1. StartRevoking(q) /\ s \in after[q]
      BY <1>0, <1>2, <2>1, AfterStays, Arrivals
    <3>2. /\ row' = row
          /\ aim' = [aim EXCEPT ![q] = {t \in Signins : Unrevoked(t) /\ device[t] = device[q]}]
      BY <1>0, <3>1 DEF StartRevoking, Targets
    <3>3. row[s] # "none"
      BY <3>1, <1>0 DEF AfterAreDone, RowsOfSignins
    <3> QED
      BY <1>0, <2>1, <3>2, <3>3 DEF Over, Unrevoked, TypeOK, RowStates
  <2>2. CASE pc'[q] = "insert"
    <3>1. Revoke(q) /\ pc[q] = "visit" /\ s \in after[q]
      BY <1>0, <1>2, <2>2, AfterStays, Arrivals, RevokeIs
    <3>2. /\ row' = row
          /\ lock' = [t \in Signins |-> IF t \in aim[q] /\ Unrevoked(t) THEN q ELSE lock[t]]
      BY <1>0, <3>1, RevokeIs
    <3>3. Over(s) \/ (s \in aim[q] /\ row[s] # "none")
      BY <1>0, <3>1 DEF SigninHolds, AfterAreDone, RowsOfSignins
    <3> QED
      BY <2>2, <3>2, <3>3 DEF Over, Unrevoked, TypeOK, RowStates
  <2>3. CASE pc'[q] \in {"destroy", "answer"}
    <3>1. ~Revoke(q)
      BY <1>0, <2>3, RevokeIs DEF TypeOK
    <3>2. account /\ InsertRow(q)
      BY <1>0, <1>2, <2>3, <3>1, Arrivals DEF Requests
    <3>3. s \in after[q] /\ pc[q] = "insert"
      BY <1>0, <3>2, InsertRowIs
    <3>4. Over(s) \/ lock[s] = q
      BY <3>3 DEF SigninHolds
    <3>5. row' = [t \in Signins |-> IF t = q THEN "active"
                                  ELSE IF lock[t] = q THEN "revoked" ELSE row[t]]
      BY <3>2, InsertRowIs
    <3>6. s # q
      BY <1>0, <3>3 DEF AfterAreDone
    <3> QED
      BY <2>3, <3>4, <3>5, <3>6, OverStays DEF Over
  <2>4. CASE pc'[q] = "done"
    <3>1. pc[q] \in Telling /\ s \in after[q]
      BY <1>0, <1>2, <2>4, AfterStays, Arrivals DEF Save, Destroy, Leave, Goto, TypeOK
    <3> QED
      BY <2>4, <3>1, OverStays DEF SigninHolds
  <2> QED
    BY <2>1, <2>2, <2>3, <2>4
<1> QED
  BY <1>0, <1>1, <1>2, StaysOrMoves

(* A closed account is never open again.                                   *)
LEMMA ClosedStays ==
    ASSUME TypeOK, [Next]_vars, ~account
    PROVE  ~account'
<1>1. ASSUME NEW r \in Requests, Moves(r)
      PROVE  ~account'
  BY <1>1, RevokeIs, CheckIs, InsertRowIs
  DEF Moves, Step, Load, RenewToken, Destroy, Save, StartRevoking, Touch, Authenticate,
      CloseAccount, StatementFails, SaveFails
<1> QED
  BY <1>1 DEF Next, Moves, Quiet, RowIdle, DataExpires, vars

LEMMA CloseHoldsStep ==
    ASSUME RowInv, CloseHolds, [Next]_vars
    PROVE  CloseHolds'
<1> SUFFICES ASSUME NEW q \in Others, For(q, {"close"}), pc'[q] \in Telling
             PROVE  ~account'
  BY GivenStays DEF CloseHolds, For, RowInv
<1> USE DEF RowInv, Telling
<1>0. /\ q \in Requests /\ q \notin Signins
      /\ ~For(q, {"signout", "logout", "revokeOther"}) /\ ~For(q, {"visit", "page", "renew"})
  BY RequestAssumption DEF Requests, For
<1>1. CASE Stays(q)
  BY <1>1, ClosedStays DEF Stays, CloseHolds
<1>2. CASE Moves(q)
  <2>1. ~Revoke(q)
    BY <1>0, RevokeIs DEF Itinerary
  <2>2. CASE pc'[q] \in {"destroy", "answer"}
    BY <1>0, <1>2, <2>1, <2>2, Arrivals DEF For
  <2>3. CASE pc'[q] = "done"
    <3>1. pc[q] \in Telling
      BY <1>0, <1>2, <2>3, Arrivals DEF Save, Destroy, Leave, Goto, TypeOK
    <3> QED
      BY <3>1, ClosedStays DEF CloseHolds
  <2> QED
    BY <2>2, <2>3
<1> QED
  BY <1>0, <1>1, <1>2, StaysOrMoves

(* When its user was told of its end, a session is over, or its account    *)
(* closed: RequireAuth finds no open row for it.                           *)
LEMMA EndsMeansOver ==
    ASSUME RowInv, AfterAreDone, SignoutHolds, LogoutHolds, RevokeOtherHolds, SigninHolds,
           CloseHolds, NEW q \in Requests, NEW s \in Signins, Ends(q, s)
    PROVE  row[s] # "active"
<1> USE DEF Telling
<1>1. Over(s) \/ ~account
  <2>1. CASE For(q, {"signout", "logout"}) /\ aim[q] = {s}
    <3>1. CASE For(q, {"signout"})
      BY <2>1, <3>1 DEF Ends, SignoutHolds, For
    <3>2. CASE For(q, {"logout"})
      BY <2>1, <3>2 DEF Ends, LogoutHolds, For
    <3> QED
      BY <2>1, <3>1, <3>2 DEF For
  <2>2. CASE For(q, {"revokeOther"}) /\ s \in after[q] /\ entered[q] # s
    BY <2>2 DEF Ends, RevokeOtherHolds, For
  <2>3. CASE q \in Signins /\ s \in after[q] /\ device[s] = device[q]
    BY <2>3 DEF Ends, SigninHolds
  <2>4. CASE For(q, {"close"})
    BY <2>4 DEF Ends, CloseHolds, For
  <2> QED
    BY <2>1, <2>2, <2>3, <2>4 DEF Ends
<1> QED
  BY <1>1 DEF Over, RowInv, RowsNeedAccount, Unrevoked

LEMMA EndedStaysOutStep ==
    ASSUME RowInv, ClaimInv, [Next]_vars
    PROVE  EndedStaysOut'
<1> USE DEF RowInv, ClaimInv
<1> SUFFICES ASSUME NEW r \in Requests, NEW s \in Signins, NEW q \in after'[r],
                    Ends(q, s)', entered'[r] = s
             PROVE  FALSE
  BY DEF EndedStaysOut
<1>1. CASE q \in after[r]
  <2>1. q \in Requests /\ pc[q] = "done"
    BY <1>1 DEF AfterAreDone, TypeOK
  <2>2. Stays(q)
    BY <2>1, StaysOrMoves, Arrivals DEF Ended
  <2>3. Ends(q, s)
    BY <2>2, GivenStays DEF Ends, For, Stays
  <2>4. CASE entered'[r] = entered[r]
    BY <1>1, <2>3, <2>4 DEF EndedStaysOut
  <2>5. CASE entered'[r] # entered[r]
    <3>1. Check(r)
      BY <2>5, StaysOrMoves, Arrivals DEF Stays
    <3>2. entered' = [entered EXCEPT ![r] = copy[r]] /\ row[copy[r]] = "active"
      BY <2>5, <3>1, CheckIs
    <3> QED
      BY <2>1, <2>3, <3>2, EndsMeansOver DEF TypeOK
  <2> QED
    BY <2>4, <2>5
<1>2. CASE q \notin after[r]
  <2>1. Moves(r) /\ pc[r] = "begin"
    BY <1>2, StaysOrMoves, Arrivals DEF Stays
  <2>2. ~Check(r)
    BY <2>1 DEF Check
  <2>3. entered'[r] = entered[r]
    BY <2>1, <2>2, Arrivals
  <2> QED
    BY <2>1, <2>3, RequestAssumption DEF Inside, Requests
<1> QED
  BY <1>1, <1>2

LEMMA ClaimInvStep ==
    ASSUME RowInv, ClaimInv, [Next]_vars
    PROVE  ClaimInv'
  BY AfterStep, SignoutHoldsStep, LogoutHoldsStep, RevokeOtherHoldsStep, SigninHoldsStep,
     CloseHoldsStep, EndedStaysOutStep
  DEF ClaimInv

-----------------------------------------------------------------------------
(* The tokens.                                                             *)

(* A request gets a token that is stored, or its own.                      *)
LEMMA TokenChanges ==
    ASSUME RowInv, [Next]_vars, NEW q \in Requests, token'[q] # token[q]
    PROVE  \/ token'[q] = NoRequest
           \/ Load(q) /\ token'[q] \in Requests /\ store[token'[q]] # Absent
           \/ token'[q] = q /\ (RenewToken(q) \/ (q \in Signins /\ Authenticate(q)))
<1> USE DEF RowInv
<1>1. Moves(q)
  BY StaysOrMoves DEF Stays
<1>2. CASE Load(q)
  <2>1. PICK t \in Requests : store[t] # Absent /\ token' = [token EXCEPT ![q] = t]
    BY <1>2 DEF Load
  <2> QED
    BY <1>2, <2>1 DEF TypeOK
<1>3. CASE RenewToken(q) \/ (q \in Signins /\ Authenticate(q))
  BY <1>3 DEF RenewToken, Authenticate, TypeOK
<1>4. CASE Destroy(q) \/ Save(q) \/ SaveFails(q)
  BY <1>4 DEF Destroy, Save, SaveFails, Leave, TypeOK
<1> QED
  BY <1>1, <1>2, <1>3, <1>4, RevokeIs, CheckIs, InsertRowIs
  DEF Moves, Step, StartRevoking, Touch, CloseAccount, StatementFails, data

LEMMA FreshTokensStep ==
    ASSUME RowInv, FreshTokens, [Next]_vars
    PROVE  FreshTokens'
<1> DEFINE Before == {"begin", "password", "check", "touch", "renew"}
<1> SUFFICES ASSUME NEW r \in Requests, pc'[r] \in Before
             PROVE  store'[r] = Absent /\ \A q \in Requests : token'[q] # r
  BY DEF FreshTokens
<1> USE DEF RowInv
<1>1. pc[r] \in Before
  BY StaysOrMoves, Arrivals DEF Stays, Check
<1>2. store[r] = Absent /\ \A q \in Requests : token[q] # r
  BY <1>1 DEF FreshTokens
<1>3. store'[r] = Absent
  BY <1>2, StoreChanges
<1>4. ASSUME NEW q \in Requests
      PROVE  token'[q] # r
  <2>1. CASE q = r
    <3>1. CASE RenewToken(r)
      BY <3>1 DEF RenewToken, Goto, TypeOK
    <3>2. CASE r \in Signins /\ Authenticate(r)
      BY <1>2, <2>1, <3>2, RequestAssumption DEF Authenticate, Goto, TypeOK
    <3> QED
      BY <2>1, <3>1, <3>2, <1>2, TokenChanges, RequestAssumption
  <2>2. CASE q # r
    BY <1>2, <2>2, TokenChanges, RequestAssumption
  <2> QED
    BY <2>1, <2>2
<1> QED
  BY <1>3, <1>4

(* Until it has its row, a sign-in is alone with the token it renewed.     *)
LEMMA OwnTokensStep ==
    ASSUME RowInv, FreshTokens, OwnTokens, [Next]_vars
    PROVE  OwnTokens'
<1> DEFINE Alone == {"revoke", "visit", "insert"}
<1> SUFFICES ASSUME NEW s \in Signins, pc'[s] \in Alone
             PROVE  /\ token'[s] = s
                    /\ store'[s] = Absent
                    /\ \A q \in Requests \ {s} : token'[q] # s
  BY DEF OwnTokens
<1> USE DEF RowInv
<1>0. s \in Requests /\ \A R : ~For(s, R)
  BY RequestAssumption DEF Requests, For
<1>1. CASE pc[s] \in Alone
  <2>1. token[s] = s /\ store[s] = Absent /\ \A q \in Requests \ {s} : token[q] # s
    BY <1>1 DEF OwnTokens
  <2>2. token'[s] = token[s]
    BY <1>0, <1>1, StaysOrMoves, Arrivals DEF Stays
  <2>3. ~Save(s)
    BY <1>1 DEF Save
  <2>4. store'[s] = Absent
    BY <1>0, <2>1, <2>3, StoreChanges
  <2> QED
    BY <1>0, <2>1, <2>2, <2>4, TokenChanges, RequestAssumption
<1>2. CASE pc[s] \notin Alone
  <2>1. Moves(s)
    BY <1>0, <1>2, StaysOrMoves DEF Stays
  <2>2. RenewToken(s)
    BY <1>0, <1>2, <2>1, Arrivals DEF StartRevoking, Revoke
  <2>3. store[s] = Absent /\ \A q \in Requests : token[q] # s
    BY <1>0, <2>2 DEF RenewToken, FreshTokens
  <2>4. token'[s] = s /\ store'[s] = Absent
    BY <1>0, <2>2, <2>3 DEF RenewToken, TypeOK
  <2> QED
    BY <1>0, <2>3, <2>4, TokenChanges, RequestAssumption
<1> QED
  BY <1>1, <1>2

(* Each action keeps the copies and the store apart by token.              *)
LEMMA TokenNamesOneSessionStep ==
    ASSUME RowInv, FreshTokens, OwnTokens, TokenNamesOneSession, [Next]_vars
    PROVE  TokenNamesOneSession'
<1> USE RequestAssumption DEF RowInv, TypeOK, TokenNamesOneSession
<1>1. ASSUME NEW p \in Requests, Load(p)
      PROVE  TokenNamesOneSession'
  <2>1. CASE UNCHANGED <<token, copy>>
    BY <1>1, <2>1 DEF Load
  <2>2. CASE ~UNCHANGED <<token, copy>>
    <3>1. PICK t \in Requests :
              /\ store[t] # Absent
              /\ token' = [token EXCEPT ![p] = t]
              /\ copy' = [copy EXCEPT ![p] = store[t]]
              /\ store' = store
      BY <1>1, <2>2 DEF Load
    <3> QED
      BY <3>1
  <2> QED
    BY <2>1, <2>2
<1>2. ASSUME NEW p \in Requests, RenewToken(p)
      PROVE  TokenNamesOneSession'
  <2>1. store[p] = Absent /\ \A q \in Requests : token[q] # p
    BY <1>2 DEF RenewToken, FreshTokens
  <2>2. /\ token' = [token EXCEPT ![p] = p]
        /\ copy' = copy
        /\ store' = [t \in Requests |-> IF t = token[p] THEN Absent ELSE store[t]]
    BY <1>2 DEF RenewToken
  <2> QED
    BY <2>1, <2>2
<1>3. ASSUME NEW p \in Requests, Destroy(p) \/ Save(p) \/ SaveFails(p)
      PROVE  TokenNamesOneSession'
  <2>1. /\ token' = [token EXCEPT ![p] = NoRequest]
        /\ copy' = [copy EXCEPT ![p] = NoRequest]
        /\ \/ store' = store
           \/ store' = [t \in Requests |-> IF t = token[p] THEN Absent ELSE store[t]]
           \/ store' = [t \in Requests |-> IF t = token[p] THEN copy[p] ELSE store[t]]
    BY <1>3 DEF Destroy, Save, SaveFails, Leave
  <2> QED
    BY <2>1
<1>4. ASSUME NEW p \in Signins, Authenticate(p)
      PROVE  TokenNamesOneSession'
  <2>1. p \in Requests /\ store[p] = Absent /\ \A q \in Requests : token[q] # p
    BY <1>4 DEF Authenticate, FreshTokens, Requests
  <2>2. /\ token' = token \/ token' = [token EXCEPT ![p] = p]
        /\ copy' = copy /\ store' = store
    BY <1>4 DEF Authenticate
  <2> QED
    BY <2>1, <2>2
<1>5. ASSUME NEW p \in Signins, InsertRow(p)
      PROVE  TokenNamesOneSession'
  <2>1. p \in Requests /\ store[p] = Absent /\ token[p] = p
        /\ \A q \in Requests \ {p} : token[q] # p
    BY <1>5 DEF InsertRow, OwnTokens, Requests
  <2>2. /\ copy' = copy \/ copy' = [copy EXCEPT ![p] = p]
        /\ token' = token /\ store' = store
    BY <1>5, InsertRowIs
  <2> QED
    BY <2>1, <2>2
<1>6. ASSUME NEW t \in Requests, DataExpires(t)
      PROVE  TokenNamesOneSession'
  BY <1>6 DEF DataExpires
<1>7. CASE UNCHANGED data
  BY <1>7 DEF data
<1>8. ASSUME NEW p \in Requests, Moves(p)
      PROVE  \/ UNCHANGED data
             \/ Load(p) \/ RenewToken(p) \/ Destroy(p) \/ Save(p) \/ SaveFails(p)
             \/ (p \in Signins /\ (Authenticate(p) \/ InsertRow(p)))
  BY <1>8, RevokeIs, CheckIs
  DEF Moves, Step, StartRevoking, Touch, CloseAccount, StatementFails, data
<1> HIDE DEF RowInv, TypeOK, TokenNamesOneSession
<1> QED
  BY <1>1, <1>2, <1>3, <1>4, <1>5, <1>6, <1>7, <1>8 DEF Next, Moves, Quiet, RowIdle, vars

-----------------------------------------------------------------------------
LEMMA InitIInv == Init => IInv
<1> SUFFICES ASSUME Init
             PROVE  IInv
  OBVIOUS
<1> USE DEF Init, Requests
<1>1. RowInv
  BY RequestAssumption
  DEF RowInv, TypeOK, Itinerary, RowsOfSignins, LocksHeld, RowsNeedAccount,
      SessionsHaveRows, Inside, RowStates, Steps, Ended, Unrevoked
<1>2. ClaimInv
  BY DEF ClaimInv, AfterAreDone, SignoutHolds, LogoutHolds, RevokeOtherHolds, SigninHolds,
         CloseHolds, EndedStaysOut, Telling
<1>3. TokenInv
  BY RequestAssumption DEF TokenInv, FreshTokens, OwnTokens, TokenNamesOneSession
<1> QED
  BY <1>1, <1>2, <1>3 DEF IInv

LEMMA IInvStep == IInv /\ [Next]_vars => IInv'
<1> SUFFICES ASSUME IInv, [Next]_vars
             PROVE  IInv'
  OBVIOUS
<1>1. RowInv'
  BY RowInvStep DEF IInv
<1>2. ClaimInv'
  BY ClaimInvStep DEF IInv
<1>3. TokenInv'
  BY FreshTokensStep, OwnTokensStep, TokenNamesOneSessionStep DEF IInv, TokenInv
<1> QED
  BY <1>1, <1>2, <1>3 DEF IInv

LEMMA Invariance == Spec => []IInv
  BY InitIInv, IInvStep, PTL DEF Spec

(* Every variable of UserSessions keeps its type.                          *)
THEOREM TypeCorrect == Spec => []TypeOK
<1>1. IInv => TypeOK
  BY DEF IInv, RowInv
<1> QED
  BY <1>1, Invariance, PTL

(* A session whose end was reported lets nobody in any more: sign-out,     *)
(* logout of one or of all the others, the next sign-in from its device    *)
(* and the end of the account hold against requests under way.             *)
THEOREM EndedSessionsStayOut == Spec => []EndedStaysOut
<1>1. IInv => EndedStaysOut
  BY DEF IInv, ClaimInv
<1> QED
  BY <1>1, Invariance, PTL

(* What LoadAndSave loads and saves under one token always names the same  *)
(* session, whichever of several requests answers last.                    *)
THEOREM TokensNameOneSession == Spec => []TokenNamesOneSession
<1>1. IInv => TokenNamesOneSession
  BY DEF IInv, TokenInv
<1> QED
  BY <1>1, Invariance, PTL

-----------------------------------------------------------------------------
(* The refinement.                                                         *)

LEMMA SessionStateIs ==
    ASSUME TypeOK, NEW s \in Signins
    PROVE  /\ row[s] = "none" => SessionState(s) = "new"
           /\ Unrevoked(s) => SessionState(s) = "open"
           /\ Over(s) => SessionState(s) = "closed"
           /\ row[s] = "none" \/ Unrevoked(s) \/ Over(s)
  BY DEF SessionState, Unrevoked, Over, TypeOK, RowStates

LEMMA SessionStateNext ==
    ASSUME TypeOK', NEW s \in Signins
    PROVE  /\ row'[s] = "none" => SessionState(s)' = "new"
           /\ Unrevoked(s)' => SessionState(s)' = "open"
           /\ Over(s)' => SessionState(s)' = "closed"
           /\ row'[s] = "none" \/ Unrevoked(s)' \/ Over(s)'
  BY DEF SessionState, Unrevoked, Over, TypeOK, RowStates

(* Every step is one of the gate, or none.                                 *)
LEMMA GateStep ==
    ASSUME RowInv, RowInv', [Next]_vars
    PROVE  [Gate!Next]_(Gate!vars)
<1> USE DEF RowInv, Gate!vars
<1>1. ASSUME NEW r \in Requests, Check(r)
      PROVE  [Gate!Next]_(Gate!vars)
  <2>1. row' = row
    BY <1>1, CheckIs
  <2>2. \A s \in Signins : SessionState(s)' = SessionState(s)
    BY <2>1 DEF SessionState, Unrevoked
  <2>3. CASE entered' = entered
    BY <2>2, <2>3
  <2>4. CASE entered' # entered
    <3>1. /\ copy[r] # NoRequest
          /\ row[copy[r]] = "active"
          /\ entered' = [entered EXCEPT ![r] = copy[r]]
      BY <1>1, <2>4, CheckIs
    <3>2. PICK s \in Signins : s = copy[r]
      BY <3>1 DEF TypeOK
    <3>3. entered[r] = NoRequest
      <4>1. r \in Others
        BY <1>1 DEF Check, Itinerary, Requests, Ended
      <4> QED
        BY <1>1, <4>1 DEF Check, Inside
    <3>4. SessionState(s) = "open"
      BY <3>1, <3>2, SessionStateIs DEF Unrevoked
    <3>5. Gate!Enter(r, s)
      BY <2>2, <3>1, <3>2, <3>3, <3>4 DEF Gate!Enter
    <3> QED
      BY <3>5 DEF Gate!Next
  <2> QED
    BY <2>3, <2>4
<1>2. ASSUME NEW p \in Signins, InsertRow(p), account
      PROVE  [Gate!Next]_(Gate!vars)
  <2> DEFINE replaced == {t \in Signins : lock[t] = p}
  <2>1. /\ row' = [t \in Signins |-> IF t = p THEN "active"
                                     ELSE IF lock[t] = p THEN "revoked" ELSE row[t]]
        /\ entered' = entered /\ pc[p] = "insert"
    BY <1>2, InsertRowIs
  <2>2. row[p] = "none"
    BY <2>1 DEF RowsOfSignins
  <2>3. ASSUME NEW t \in replaced
        PROVE  Unrevoked(t) /\ t # p
    BY <2>2, <2>3, RequestAssumption DEF LocksHeld, Unrevoked, Requests
  <2>4. ASSUME NEW t \in Signins
        PROVE  SessionState(t)' = IF t = p THEN "open"
                                  ELSE IF t \in replaced THEN "closed" ELSE SessionState(t)
    <3>1. row'[t] = IF t = p THEN "active" ELSE IF t \in replaced THEN "revoked" ELSE row[t]
      BY <2>1
    <3> QED
      BY <3>1 DEF SessionState, Unrevoked
  <2>5. SessionState(p) = "new" /\ \A t \in replaced : SessionState(t) = "open"
    BY <2>2, <2>3, SessionStateIs
  <2>6. Gate!Open(p, replaced)
    BY <2>1, <2>4, <2>5 DEF Gate!Open
  <2> QED
    BY <2>6 DEF Gate!Next
<1>3. ASSUME NEW S \in SUBSET Signins, NEW over \in {"revoked", "gone"},
             \A s \in S : Unrevoked(s),
             \A s \in Signins : IF s \in S THEN row'[s] = over
                               ELSE SessionState(s)' = SessionState(s),
             entered' = entered
      PROVE  [Gate!Next]_(Gate!vars)
  <2>1. \A s \in S : SessionState(s) = "open" /\ SessionState(s)' = "closed"
    BY <1>3, SessionStateIs, SessionStateNext DEF Over
  <2>2. Gate!Close(S)
    BY <1>3, <2>1 DEF Gate!Close
  <2> QED
    BY <2>2 DEF Gate!Next
<1>4. ASSUME NEW r \in Requests, Revoke(r)
      PROVE  [Gate!Next]_(Gate!vars)
  <2>1. entered' = entered
    BY <1>4, RevokeIs
  <2>2. CASE r \in Signins
    <3>1. row' = row
      BY <1>4, <2>2, RevokeIs
    <3> QED
      BY <2>1, <3>1 DEF SessionState, Unrevoked
  <2>3. CASE r \notin Signins
    <3> DEFINE S == {s \in Signins : s \in aim[r] /\ Unrevoked(s)}
    <3>1. row' = [s \in Signins |-> IF s \in aim[r] /\ Unrevoked(s) THEN "revoked" ELSE row[s]]
      BY <1>4, <2>3, RevokeIs
    <3>2. \A s \in Signins : IF s \in S THEN row'[s] = "revoked"
                            ELSE SessionState(s)' = SessionState(s)
      BY <3>1 DEF SessionState, Unrevoked
    <3> QED
      BY <1>3, <2>1, <3>2
  <2> QED
    BY <2>2, <2>3
<1>5. ASSUME NEW r \in Requests, CloseAccount(r), row' # row
      PROVE  [Gate!Next]_(Gate!vars)
  <2> DEFINE S == {s \in Signins : Unrevoked(s)}
  <2>1. /\ row' = [s \in Signins |-> IF row[s] = "none" THEN "none" ELSE "gone"]
        /\ entered' = entered
    BY <1>5 DEF CloseAccount
  <2>2. ASSUME NEW s \in Signins
        PROVE  IF s \in S THEN row'[s] = "gone" ELSE SessionState(s)' = SessionState(s)
    <3>1. CASE Unrevoked(s)
      BY <2>1, <3>1 DEF Unrevoked
    <3>2. CASE row[s] = "none"
      BY <2>1, <3>2 DEF SessionState, Unrevoked
    <3>3. CASE Over(s)
      BY <2>1, <3>3, SessionStateIs, SessionStateNext DEF Over, Unrevoked
    <3> QED
      BY <3>1, <3>2, <3>3, SessionStateIs
  <2> QED
    BY <1>3, <2>1, <2>2
<1>6. ASSUME entered' = entered, \A s \in Signins : row'[s] = row[s] \/ (Unrevoked(s) /\ Unrevoked(s)')
      PROVE  [Gate!Next]_(Gate!vars)
  <2>1. ASSUME NEW s \in Signins
        PROVE  SessionState(s)' = SessionState(s)
    BY <1>6, SessionStateIs, SessionStateNext DEF SessionState, Unrevoked
  <2> QED
    BY <1>6, <2>1
<1>7. ASSUME NEW r \in Requests, Touch(r)
      PROVE  [Gate!Next]_(Gate!vars)
  <2>1. ASSUME NEW s \in Signins
        PROVE  row'[s] = row[s] \/ (Unrevoked(s) /\ Unrevoked(s)')
    <3>1. CASE UNCHANGED row
      BY <3>1
    <3>2. CASE Unrevoked(entered[r]) /\ row' = [row EXCEPT ![entered[r]] = "active"]
      BY <3>2 DEF Unrevoked, TypeOK
    <3> QED
      BY <1>7, <3>1, <3>2 DEF Touch
  <2> QED
    BY <1>6, <1>7, <2>1 DEF Touch
<1>8. ASSUME NEW s \in Signins, RowIdle(s)
      PROVE  [Gate!Next]_(Gate!vars)
  <2>1. ASSUME NEW t \in Signins
        PROVE  row'[t] = row[t] \/ (Unrevoked(t) /\ Unrevoked(t)')
    BY <1>8 DEF RowIdle, Unrevoked, TypeOK
  <2> QED
    BY <1>6, <1>8, <2>1 DEF RowIdle
<1>9. CASE UNCHANGED <<row, entered>>
  BY <1>6, <1>9
<1>10. ASSUME NEW r \in Requests, Moves(r)
       PROVE  \/ UNCHANGED <<row, entered>>
              \/ Check(r) \/ Revoke(r) \/ Touch(r) \/ (CloseAccount(r) /\ row' # row)
              \/ (r \in Signins /\ InsertRow(r) /\ account)
  BY <1>10, InsertRowIs
  DEF Moves, Step, Load, RenewToken, Destroy, Save, StartRevoking, Authenticate, CloseAccount,
      StatementFails, SaveFails
<1> HIDE DEF RowInv, Gate!vars
<1> QED
  BY <1>1, <1>2, <1>4, <1>5, <1>7, <1>8, <1>9, <1>10
  DEF Next, Moves, Quiet, DataExpires, vars

(* UserSessions implements SessionGate: a session opens once and closes    *)
(* for good, and a request is let in while it is open only, however the    *)
(* revocations, the touches and the ends of sessions interleave.           *)
THEOREM GateKept == Spec => ImplementsGate
<1>1. Init => Gate!Init
  BY DEF Init, Gate!Init, SessionState, Unrevoked
<1>2. RowInv /\ RowInv' /\ [Next]_vars => [Gate!Next]_(Gate!vars)
  BY GateStep
<1>3. IInv => RowInv
  BY DEF IInv
<1> QED
  BY <1>1, <1>2, <1>3, Invariance, PTL DEF Spec, Gate!Spec, ImplementsGate

=============================================================================
