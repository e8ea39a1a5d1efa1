-------------------------- MODULE AccountTokensProofs --------------------------
(***************************************************************************)
(* What AccountTokens guarantees for every set of requests and addresses   *)
(* and under every combination of faults: the link that still confirms a   *)
(* recovery address fits the address that is pending, and there is never a *)
(* second one; a change of the password kills the links before it; one     *)
(* sign-up registers the account and only a confirmed one gets resets.     *)
(*                                                                         *)
(* The argument.  Only a recovery change adds a link, and only while it    *)
(* has the row of the user locked; whoever holds that lock revokes, after  *)
(* it got it, all the links there are.  So from the end of the bulk        *)
(* revocation to the commit every good link is one the holder is about to  *)
(* kill, whatever other requests do to the tokens meanwhile.               *)
(***************************************************************************)
EXTENDS AccountTokens, TLAPS

RecoveryRequests == RecoveryChanges \cup RecoveryConfirms

(* Which requests get to which statements at all.                          *)
Itinerary ==
    /\ \A s \in Signups : pc[s] \in {"idle", "begin", "mail"} \cup Ended
    /\ \A r \in Resends \cup Forgots : pc[r] \notin {"user", "token", "begin"}
    /\ \A b \in RecoveryChanges \cup PasswordChanges : pc[b] \notin {"token", "begin"}
    /\ userLock \notin Signups \cup Resends \cup Forgots

(* A request on the recovery address has the row of the user from its      *)
(* first statement to its commit.  A cancellation may do without.          *)
HoldsUser ==
    \A r \in RecoveryRequests \ undoing :
        pc[r] \in {"token", "revoke", "rest", "commit"} => userLock = r

(* The holder has locked, or is still going to visit, every good link.     *)
HolderReachesAll ==
    \A r \in RecoveryRequests : userLock = r =>
        \A b \in RecoveryChanges : token[b] = "live" =>
            /\ pc[r] = "rest" => b \in rest[r] \/ rowLock[b] = r
            /\ pc[r] = "commit" => rowLock[b] = r

IInv ==
    /\ TypeOK
    /\ Itinerary
    /\ HoldsUser
    /\ HolderReachesAll
    /\ LinkFitsPending
    /\ OneRecoveryLink

-----------------------------------------------------------------------------
(* What a transaction writes is a row of public.users again.               *)
LEMMA UserWrittenType ==
    ASSUME TypeOK, NEW r \in Requests, userLock = r, Itinerary
    PROVE  UserWritten(r) \in Users
<1>1. CASE r \in Resets \cup PasswordChanges
  BY <1>1 DEF TypeOK, Users, UserWritten, PasswordReset, PasswordUpdated, Requests, Redeemers
<1>2. CASE r \in Confirms
  BY <1>2, RequestAssumption
  DEF TypeOK, Users, UserWritten, Activated, Requests, Redeemers, Issuers, Disjoint
<1>3. CASE r \in RecoveryConfirms
  BY <1>3, RequestAssumption
  DEF TypeOK, Users, UserWritten, RecoveryPromoted, Requests, Redeemers, Issuers, Disjoint
<1>4. CASE r \in RecoveryChanges
  BY <1>4, RequestAssumption
  DEF TypeOK, Users, UserWritten, RecoveryPending, RecoveryCancelled, Requests, Redeemers,
      Issuers, Disjoint
<1> QED
  BY <1>1, <1>2, <1>3, <1>4 DEF Itinerary, Requests, Issuers, Redeemers

(* Every variable keeps its type.                                          *)
LEMMA TypeStep ==
    ASSUME TypeOK, Itinerary, [Next]_vars
    PROVE  TypeOK'
<1> USE DEF TypeOK, TokenStates, Steps, Ended, Requests, Issuers, Redeemers
<1>1. ASSUME NEW s \in Signups, FindByEmail(s)
      PROVE  TypeOK'
  BY <1>1 DEF Goto, FindByEmail
<1>2. ASSUME NEW s \in Signups, Create(s)
      PROVE  TypeOK'
  BY <1>2 DEF Goto, Create, Users
<1>3. ASSUME NEW r \in Resends \cup Forgots, FindByUser(r)
      PROVE  TypeOK'
  BY <1>3 DEF Goto, FindByUser, Opening
<1>4. ASSUME NEW r \in PasswordChanges \cup RecoveryChanges, CheckAccount(r)
      PROVE  TypeOK'
  BY <1>4 DEF Goto, CheckAccount, Opening
<1>5. ASSUME NEW r \in Redeemers, SelectToken(r)
      PROVE  TypeOK'
  BY <1>5 DEF Goto, SelectToken, Opening
<1>6. ASSUME NEW r \in Requests, UpdateUser(r)
      PROVE  TypeOK'
  BY <1>6 DEF Goto, UpdateUser, AfterUser, Matches
<1>7. ASSUME NEW r \in Requests, UpdateToken(r)
      PROVE  TypeOK'
  BY <1>7 DEF Goto, UpdateToken, AfterToken
<1>8. ASSUME NEW r \in Requests, StartRevoking(r)
      PROVE  TypeOK'
  BY <1>8 DEF Goto, StartRevoking, Unconfirmed, SamePurpose
<1>9. ASSUME NEW r \in Requests, RevokeOne(r)
      PROVE  TypeOK'
  BY <1>9 DEF Goto, RevokeOne
<1>10. ASSUME NEW r \in Requests, EndRevoking(r)
      PROVE  TypeOK'
  BY <1>10 DEF Goto, EndRevoking
<1>11. ASSUME NEW r \in Requests, Commit(r)
      PROVE  TypeOK'
  <2>1. user' \in Users
    BY <1>11, UserWrittenType DEF Commit
  <2>2. pc' \in [Requests -> Steps]
    BY <1>11 DEF Commit, AfterCommit, Goto
  <2>3. /\ token' \in [Issuers -> TokenStates]
        /\ userLock' \in Requests \cup {NoRequest}
        /\ rowLock' \in [Issuers -> Requests \cup {NoRequest}]
    BY <1>11 DEF Commit, FreeUser, FreeRows
  <2> QED
    BY <2>1, <2>2, <2>3, <1>11 DEF Commit
<1>12. ASSUME NEW r \in Requests, Abort(r)
      PROVE  TypeOK'
  BY <1>12 DEF Goto, Abort, FreeUser, FreeRows
<1>13. ASSUME NEW i \in Issuers, SendMail(i)
      PROVE  TypeOK'
  BY <1>13 DEF Goto, SendMail
<1>14. ASSUME NEW i \in Issuers, Expire(i)
      PROVE  TypeOK'
  BY <1>14 DEF Goto, Expire
<1>15. CASE Restart
  BY <1>15 DEF Restart, Running, Ended
<1>16. CASE UNCHANGED vars
  BY <1>16 DEF vars
<1> QED
  BY <1>1, <1>2, <1>3, <1>4, <1>5, <1>6, <1>7, <1>8, <1>9, <1>10,
     <1>11, <1>12, <1>13, <1>14, <1>15, <1>16
  DEF Next, Statement, StatementFails, DeadlockVictim, Quiet

(* No request strays from its itinerary.                                   *)
LEMMA ItineraryStep ==
    ASSUME TypeOK, Itinerary, [Next]_vars
    PROVE  Itinerary'
<1> USE RequestAssumption
    DEF TypeOK, Itinerary, Ended, Requests, Issuers, Redeemers, Disjoint, Steps
<1>1. ASSUME NEW s \in Signups, FindByEmail(s)
      PROVE  Itinerary'
  BY <1>1 DEF Goto, FindByEmail
<1>2. ASSUME NEW s \in Signups, Create(s)
      PROVE  Itinerary'
  BY <1>2 DEF Goto, Create
<1>3. ASSUME NEW r \in Resends \cup Forgots, FindByUser(r)
      PROVE  Itinerary'
  BY <1>3 DEF Goto, FindByUser, Opening
<1>4. ASSUME NEW r \in PasswordChanges \cup RecoveryChanges, CheckAccount(r)
      PROVE  Itinerary'
  BY <1>4 DEF Goto, CheckAccount, Opening
<1>5. ASSUME NEW r \in Redeemers, SelectToken(r)
      PROVE  Itinerary'
  BY <1>5 DEF Goto, SelectToken, Opening
<1>6. ASSUME NEW r \in Requests, UpdateUser(r)
      PROVE  Itinerary'
  BY <1>6 DEF Goto, UpdateUser, AfterUser
<1>7. ASSUME NEW r \in Requests, UpdateToken(r)
      PROVE  Itinerary'
  BY <1>7 DEF Goto, UpdateToken, AfterToken
<1>8. ASSUME NEW r \in Requests, StartRevoking(r)
      PROVE  Itinerary'
  BY <1>8 DEF Goto, StartRevoking
<1>9. ASSUME NEW r \in Requests, RevokeOne(r)
      PROVE  Itinerary'
  BY <1>9 DEF Goto, RevokeOne
<1>10. ASSUME NEW r \in Requests, EndRevoking(r)
      PROVE  Itinerary'
  BY <1>10 DEF Goto, EndRevoking
<1>11. ASSUME NEW r \in Requests, Commit(r)
      PROVE  Itinerary'
  BY <1>11 DEF Goto, Commit, AfterCommit, FreeUser, FreeRows, Inserts
<1>12. ASSUME NEW r \in Requests, Abort(r)
      PROVE  Itinerary'
  BY <1>12 DEF Goto, Abort, FreeUser, FreeRows
<1>13. ASSUME NEW i \in Issuers, SendMail(i)
      PROVE  Itinerary'
  BY <1>13 DEF Goto, SendMail
<1>14. ASSUME NEW i \in Issuers, Expire(i)
      PROVE  Itinerary'
  BY <1>14 DEF Goto, Expire
<1>15. CASE Restart
  BY <1>15 DEF Restart, Running, Ended
<1>16. CASE UNCHANGED vars
  BY <1>16 DEF vars
<1> QED
  BY <1>1, <1>2, <1>3, <1>4, <1>5, <1>6, <1>7, <1>8, <1>9, <1>10,
     <1>11, <1>12, <1>13, <1>14, <1>15, <1>16
  DEF Next, Statement, StatementFails, DeadlockVictim, Quiet

(* The row of the user stays with the request that needs it.               *)
LEMMA HoldsUserStep ==
    ASSUME TypeOK, Itinerary, HoldsUser, [Next]_vars
    PROVE  HoldsUser'
<1> USE RequestAssumption
    DEF TypeOK, Itinerary, HoldsUser, RecoveryRequests, Ended, Requests, Issuers, Redeemers,
        Disjoint, Steps
<1>1. ASSUME NEW s \in Signups, FindByEmail(s)
      PROVE  HoldsUser'
  BY <1>1 DEF Goto, FindByEmail
<1>2. ASSUME NEW s \in Signups, Create(s)
      PROVE  HoldsUser'
  BY <1>2 DEF Goto, Create
<1>3. ASSUME NEW r \in Resends \cup Forgots, FindByUser(r)
      PROVE  HoldsUser'
  BY <1>3 DEF Goto, FindByUser, Opening
<1>4. ASSUME NEW r \in PasswordChanges \cup RecoveryChanges, CheckAccount(r)
      PROVE  HoldsUser'
  BY <1>4 DEF Goto, CheckAccount, Opening
<1>5. ASSUME NEW r \in Redeemers, SelectToken(r)
      PROVE  HoldsUser'
  BY <1>5 DEF Goto, SelectToken, Opening
<1>6. ASSUME NEW r \in Requests, UpdateUser(r)
      PROVE  HoldsUser'
  BY <1>6 DEF Goto, UpdateUser, AfterUser, Matches
<1>7. ASSUME NEW r \in Requests, UpdateToken(r)
      PROVE  HoldsUser'
  BY <1>7 DEF Goto, UpdateToken, AfterToken
<1>8. ASSUME NEW r \in Requests, StartRevoking(r)
      PROVE  HoldsUser'
  BY <1>8 DEF Goto, StartRevoking
<1>9. ASSUME NEW r \in Requests, RevokeOne(r)
      PROVE  HoldsUser'
  BY <1>9 DEF Goto, RevokeOne
<1>10. ASSUME NEW r \in Requests, EndRevoking(r)
      PROVE  HoldsUser'
  BY <1>10 DEF Goto, EndRevoking
<1>11. ASSUME NEW r \in Requests, Commit(r)
      PROVE  HoldsUser'
  BY <1>11 DEF Goto, Commit, AfterCommit, FreeUser, FreeRows, Inserts
<1>12. ASSUME NEW r \in Requests, Abort(r)
      PROVE  HoldsUser'
  BY <1>12 DEF Goto, Abort, FreeUser, FreeRows
<1>13. ASSUME NEW i \in Issuers, SendMail(i)
      PROVE  HoldsUser'
  BY <1>13 DEF Goto, SendMail
<1>14. ASSUME NEW i \in Issuers, Expire(i)
      PROVE  HoldsUser'
  BY <1>14 DEF Goto, Expire
<1>15. CASE Restart
  BY <1>15 DEF Restart, Running, Ended
<1>16. CASE UNCHANGED vars
  BY <1>16 DEF vars
<1> QED
  BY <1>1, <1>2, <1>3, <1>4, <1>5, <1>6, <1>7, <1>8, <1>9, <1>10,
     <1>11, <1>12, <1>13, <1>14, <1>15, <1>16
  DEF Next, Statement, StatementFails, DeadlockVictim, Quiet

(* Nobody else adds a link while the row of the user is held, and what the *)
(* holder has visited stays locked.                                        *)
LEMMA HolderReachesAllStep ==
    ASSUME TypeOK, Itinerary, HoldsUser, HolderReachesAll, [Next]_vars
    PROVE  HolderReachesAll'
<1> USE RequestAssumption
    DEF TypeOK, Itinerary, HolderReachesAll, RecoveryRequests, Ended, Requests, Issuers,
        Redeemers, Disjoint, Steps
<1>1. ASSUME NEW s \in Signups, FindByEmail(s)
      PROVE  HolderReachesAll'
  BY <1>1 DEF Goto, FindByEmail
<1>2. ASSUME NEW s \in Signups, Create(s)
      PROVE  HolderReachesAll'
  BY <1>2 DEF Goto, Create
<1>3. ASSUME NEW r \in Resends \cup Forgots, FindByUser(r)
      PROVE  HolderReachesAll'
  BY <1>3 DEF Goto, FindByUser, Opening
<1>4. ASSUME NEW r \in PasswordChanges \cup RecoveryChanges, CheckAccount(r)
      PROVE  HolderReachesAll'
  BY <1>4 DEF Goto, CheckAccount, Opening
<1>5. ASSUME NEW r \in Redeemers, SelectToken(r)
      PROVE  HolderReachesAll'
  BY <1>5 DEF Goto, SelectToken, Opening
<1>6. ASSUME NEW r \in Requests, UpdateUser(r)
      PROVE  HolderReachesAll'
  BY <1>6 DEF Goto, UpdateUser, AfterUser
<1>7. ASSUME NEW r \in Requests, UpdateToken(r)
      PROVE  HolderReachesAll'
  BY <1>7 DEF Goto, UpdateToken, AfterToken
<1>8. ASSUME NEW r \in Requests, StartRevoking(r)
      PROVE  HolderReachesAll'
  BY <1>8 DEF Goto, StartRevoking, Unconfirmed, SamePurpose, TokenStates
<1>9. ASSUME NEW r \in Requests, RevokeOne(r)
      PROVE  HolderReachesAll'
  BY <1>9 DEF Goto, RevokeOne
<1>10. ASSUME NEW r \in Requests, EndRevoking(r)
      PROVE  HolderReachesAll'
  BY <1>10 DEF Goto, EndRevoking
<1>11. ASSUME NEW r \in Requests, Commit(r)
      PROVE  HolderReachesAll'
  BY <1>11 DEF Goto, Commit, AfterCommit, FreeUser, FreeRows, Inserts, HoldsUser
<1>12. ASSUME NEW r \in Requests, Abort(r)
      PROVE  HolderReachesAll'
  BY <1>12 DEF Goto, Abort, FreeUser, FreeRows
<1>13. ASSUME NEW i \in Issuers, SendMail(i)
      PROVE  HolderReachesAll'
  BY <1>13 DEF Goto, SendMail
<1>14. ASSUME NEW i \in Issuers, Expire(i)
      PROVE  HolderReachesAll'
  BY <1>14 DEF Goto, Expire
<1>15. CASE Restart
  BY <1>15 DEF Restart, Running, Ended
<1>16. CASE UNCHANGED vars
  BY <1>16 DEF vars
<1> QED
  BY <1>1, <1>2, <1>3, <1>4, <1>5, <1>6, <1>7, <1>8, <1>9, <1>10,
     <1>11, <1>12, <1>13, <1>14, <1>15, <1>16
  DEF Next, Statement, StatementFails, DeadlockVictim, Quiet

(* The commit of a transaction leaves the link that fits, if any.          *)
LEMMA RecoveryCommit ==
    ASSUME IInv, NEW r \in Requests, Commit(r)
    PROVE  LinkFitsPending' /\ OneRecoveryLink'
<1> USE RequestAssumption
    DEF IInv, TypeOK, Itinerary, LinkFitsPending, OneRecoveryLink, Requests, Issuers,
        Redeemers, Disjoint, Users
<1>1. CASE r \in RecoveryChanges \ undoing
  <2>1. userLock = r
    BY <1>1 DEF HoldsUser, RecoveryRequests, Commit
  <2>2. \A b \in RecoveryChanges : token'[b] = "live" => b = r
    BY <1>1, <2>1 DEF HolderReachesAll, RecoveryRequests, Commit
  <2>3. user'.pending = address'[r]
    BY <1>1, <2>1 DEF Commit, UserWritten, RecoveryPending
  <2> QED
    BY <2>2, <2>3
<1>2. CASE r \in RecoveryConfirms \/ (r \in undoing /\ userLock = r)
  <2>1. userLock = r
    BY <1>2 DEF HoldsUser, RecoveryRequests, Commit
  <2>2. \A b \in RecoveryChanges : token'[b] # "live"
    BY <1>2, <2>1 DEF HolderReachesAll, RecoveryRequests, Commit, Inserts
  <2> QED
    BY <2>2
<1>3. CASE (r \in undoing /\ userLock # r) \/ r \notin RecoveryRequests
  <2>1. \A b \in RecoveryChanges : token'[b] = "live" => token[b] = "live"
    BY <1>3 DEF Commit, Inserts, RecoveryRequests
  <2>2. user'.pending = user.pending
    BY <1>3 DEF Commit, UserWritten, PasswordReset, PasswordUpdated, Activated, RecoveryRequests
  <2>3. address' = address
    BY DEF Commit
  <2> QED
    BY <2>1, <2>2, <2>3
<1> QED
  BY <1>1, <1>2, <1>3 DEF RecoveryRequests

(* The other steps make no link good and leave the pending address alone.  *)
LEMMA RecoveryStep ==
    ASSUME IInv, [Next]_vars
    PROVE  LinkFitsPending' /\ OneRecoveryLink'
<1> USE RequestAssumption
    DEF IInv, TypeOK, LinkFitsPending, OneRecoveryLink, Requests, Issuers, Redeemers,
        Disjoint, Users
<1>1. ASSUME NEW s \in Signups, FindByEmail(s)
      PROVE  LinkFitsPending' /\ OneRecoveryLink'
  BY <1>1 DEF Goto, FindByEmail
<1>2. ASSUME NEW s \in Signups, Create(s)
      PROVE  LinkFitsPending' /\ OneRecoveryLink'
  BY <1>2 DEF Goto, Create
<1>3. ASSUME NEW r \in Resends \cup Forgots, FindByUser(r)
      PROVE  LinkFitsPending' /\ OneRecoveryLink'
  BY <1>3 DEF Goto, FindByUser, Opening
<1>4. ASSUME NEW r \in PasswordChanges \cup RecoveryChanges, CheckAccount(r)
      PROVE  LinkFitsPending' /\ OneRecoveryLink'
  BY <1>4 DEF Goto, CheckAccount, Opening
<1>5. ASSUME NEW r \in Redeemers, SelectToken(r)
      PROVE  LinkFitsPending' /\ OneRecoveryLink'
  BY <1>5 DEF Goto, SelectToken, Opening
<1>6. ASSUME NEW r \in Requests, UpdateUser(r)
      PROVE  LinkFitsPending' /\ OneRecoveryLink'
  BY <1>6 DEF Goto, UpdateUser, AfterUser
<1>7. ASSUME NEW r \in Requests, UpdateToken(r)
      PROVE  LinkFitsPending' /\ OneRecoveryLink'
  BY <1>7 DEF Goto, UpdateToken, AfterToken
<1>8. ASSUME NEW r \in Requests, StartRevoking(r)
      PROVE  LinkFitsPending' /\ OneRecoveryLink'
  BY <1>8 DEF Goto, StartRevoking
<1>9. ASSUME NEW r \in Requests, RevokeOne(r)
      PROVE  LinkFitsPending' /\ OneRecoveryLink'
  BY <1>9 DEF Goto, RevokeOne
<1>10. ASSUME NEW r \in Requests, EndRevoking(r)
      PROVE  LinkFitsPending' /\ OneRecoveryLink'
  BY <1>10 DEF Goto, EndRevoking
<1>11. ASSUME NEW r \in Requests, Commit(r)
      PROVE  LinkFitsPending' /\ OneRecoveryLink'
  BY <1>11, RecoveryCommit
<1>12. ASSUME NEW r \in Requests, Abort(r)
      PROVE  LinkFitsPending' /\ OneRecoveryLink'
  BY <1>12 DEF Goto, Abort, FreeUser, FreeRows
<1>13. ASSUME NEW i \in Issuers, SendMail(i)
      PROVE  LinkFitsPending' /\ OneRecoveryLink'
  BY <1>13 DEF Goto, SendMail
<1>14. ASSUME NEW i \in Issuers, Expire(i)
      PROVE  LinkFitsPending' /\ OneRecoveryLink'
  BY <1>14 DEF Goto, Expire
<1>15. CASE Restart
  BY <1>15 DEF Restart, Running, Ended
<1>16. CASE UNCHANGED vars
  BY <1>16 DEF vars
<1> QED
  BY <1>1, <1>2, <1>3, <1>4, <1>5, <1>6, <1>7, <1>8, <1>9, <1>10,
     <1>11, <1>12, <1>13, <1>14, <1>15, <1>16
  DEF Next, Statement, StatementFails, DeadlockVictim, Quiet

(* The inductive invariant, for every set of requests and all faults.      *)
THEOREM Invariance == Spec => []IInv
<1>1. Init => IInv
  BY RequestAssumption
  DEF Init, IInv, TypeOK, Users, TokenStates, Steps, Itinerary, HoldsUser, HolderReachesAll,
      LinkFitsPending, OneRecoveryLink, RecoveryRequests, Requests, Issuers, Redeemers, Ended,
      Disjoint
<1>2. IInv /\ [Next]_vars => IInv'
  BY TypeStep, ItineraryStep, HoldsUserStep, HolderReachesAllStep, RecoveryStep DEF IInv
<1> QED
  BY <1>1, <1>2, PTL DEF Spec

(* TypeCorrect: every variable of AccountTokens keeps its type.            *)
THEOREM TypeCorrect == Spec => []TypeOK
<1>1. IInv => TypeOK
  BY DEF IInv
<1> QED
  BY <1>1, Invariance, PTL

(* LinkFits: a link that still confirms a recovery address confirms the    *)
(* pending one, however many changes, confirmations and cancellations      *)
(* interleave.                                                             *)
THEOREM LinkFits == Spec => []LinkFitsPending
<1>1. IInv => LinkFitsPending
  BY DEF IInv
<1> QED
  BY <1>1, Invariance, PTL

(* OneLink: there are never two links that confirm a recovery address.     *)
THEOREM OneLink == Spec => []OneRecoveryLink
<1>1. IInv => OneRecoveryLink
  BY DEF IInv
<1> QED
  BY <1>1, Invariance, PTL

-----------------------------------------------------------------------------
(* The account itself.  A request finds and locks tokens that were made,   *)
(* and a forgotten password makes its token when it commits.               *)
TokensExist ==
    /\ \A i \in Issuers : rowLock[i] # NoRequest => token[i] # "none"
    /\ \A r \in Redeemers : seen[r] \in Issuers => token[seen[r]] # "none"
    /\ \A f \in Forgots : pc[f] \in {"idle", "revoke", "rest", "commit"} => token[f] = "none"

(* A sign-up that has its token has registered the account, a forgotten    *)
(* password that gets to its transaction has found it confirmed.           *)
AccountFound ==
    /\ \A s \in Signups : token[s] # "none" => user.state # "none"
    /\ \A f \in Forgots :
          pc[f] \in {"revoke", "rest", "commit", "mail"} => user.state = "active"

AInv ==
    /\ TypeOK
    /\ Itinerary
    /\ TokensExist
    /\ AccountFound
    /\ OneAccount
    /\ ResetsOfConfirmedAccounts

(* The account is registered once and stays confirmed.                     *)
LEMMA StateStep ==
    ASSUME TypeOK, Itinerary, [Next]_vars
    PROVE  \/ user'.state = user.state
           \/ user'.state = "active"
           \/ user.state = "none" /\ user'.state = "inactive"
<1>1. ASSUME NEW r \in Requests, Commit(r)
      PROVE  user'.state = user.state \/ user'.state = "active"
  BY <1>1 DEF Commit, UserWritten, PasswordReset, PasswordUpdated, Activated, RecoveryPromoted,
     RecoveryCancelled, RecoveryPending, TypeOK, Users
<1>2. ASSUME NEW s \in Signups, Create(s)
      PROVE  user'.state = user.state \/ (user.state = "none" /\ user'.state = "inactive")
  BY <1>2 DEF Create, TypeOK, Users
<1>3. ASSUME user' = user
      PROVE  user'.state = user.state
  BY <1>3
<1> QED
  BY <1>1, <1>2, <1>3 DEF Next, FindByEmail, FindByUser, CheckAccount, SelectToken, Statement,
     UpdateUser, UpdateToken, StartRevoking, RevokeOne, EndRevoking, DeadlockVictim,
     StatementFails, Abort, SendMail, Expire, Restart, Quiet, vars

(* Nobody finds or locks a token that was never made.                      *)
LEMMA TokensExistStep ==
    ASSUME TypeOK, Itinerary, TokensExist, [Next]_vars
    PROVE  TokensExist'
<1> USE RequestAssumption
    DEF TypeOK, Itinerary, TokensExist, TokenStates, Ended, Requests, Issuers,
        Redeemers, Disjoint, Steps
<1>1. ASSUME NEW s \in Signups, FindByEmail(s)
      PROVE  TokensExist'
  BY <1>1 DEF Goto, FindByEmail
<1>2. ASSUME NEW s \in Signups, Create(s)
      PROVE  TokensExist'
  BY <1>2 DEF Goto, Create
<1>3. ASSUME NEW r \in Resends \cup Forgots, FindByUser(r)
      PROVE  TokensExist'
  BY <1>3 DEF Goto, FindByUser, Opening
<1>4. ASSUME NEW r \in PasswordChanges \cup RecoveryChanges, CheckAccount(r)
      PROVE  TokensExist'
  BY <1>4 DEF Goto, CheckAccount, Opening
<1>5. ASSUME NEW r \in Redeemers, SelectToken(r)
      PROVE  TokensExist'
  BY <1>5 DEF Goto, SelectToken, Opening
<1>6. ASSUME NEW r \in Requests, UpdateUser(r)
      PROVE  TokensExist'
  BY <1>6 DEF Goto, UpdateUser, AfterUser
<1>7. ASSUME NEW r \in Requests, UpdateToken(r)
      PROVE  TokensExist'
  BY <1>7 DEF Goto, UpdateToken, AfterToken
<1>8. ASSUME NEW r \in Requests, StartRevoking(r)
      PROVE  TokensExist'
  BY <1>8 DEF Goto, StartRevoking
<1>9. ASSUME NEW r \in Requests, RevokeOne(r)
      PROVE  TokensExist'
  BY <1>9 DEF Goto, RevokeOne
<1>10. ASSUME NEW r \in Requests, EndRevoking(r)
      PROVE  TokensExist'
  BY <1>10 DEF Goto, EndRevoking
<1>11. ASSUME NEW r \in Requests, Commit(r)
      PROVE  TokensExist'
  BY <1>11 DEF Goto, Commit, AfterCommit, Inserts, FreeRows
<1>12. ASSUME NEW r \in Requests, Abort(r)
      PROVE  TokensExist'
  BY <1>12 DEF Goto, Abort, FreeUser, FreeRows
<1>13. ASSUME NEW i \in Issuers, SendMail(i)
      PROVE  TokensExist'
  BY <1>13 DEF Goto, SendMail
<1>14. ASSUME NEW i \in Issuers, Expire(i)
      PROVE  TokensExist'
  BY <1>14 DEF Goto, Expire
<1>15. CASE Restart
  BY <1>15 DEF Restart, Running, Ended
<1>16. CASE UNCHANGED vars
  BY <1>16 DEF vars
<1> QED
  BY <1>1, <1>2, <1>3, <1>4, <1>5, <1>6, <1>7, <1>8, <1>9, <1>10,
     <1>11, <1>12, <1>13, <1>14, <1>15, <1>16
  DEF Next, Statement, StatementFails, DeadlockVictim, Quiet

(* What a request has found of the account stays true.                     *)
LEMMA AccountStep ==
    ASSUME AInv, [Next]_vars
    PROVE  (AccountFound /\ OneAccount /\ ResetsOfConfirmedAccounts)'
<1> USE RequestAssumption, StateStep
    DEF AInv, TypeOK, Itinerary, TokensExist, AccountFound, OneAccount, ResetsOfConfirmedAccounts,
        TokenStates, Ended, Requests, Issuers, Redeemers, Disjoint, Steps, Users
<1>1. ASSUME NEW s \in Signups, FindByEmail(s)
      PROVE  (AccountFound /\ OneAccount /\ ResetsOfConfirmedAccounts)'
  BY <1>1 DEF Goto, FindByEmail
<1>2. ASSUME NEW s \in Signups, Create(s)
      PROVE  (AccountFound /\ OneAccount /\ ResetsOfConfirmedAccounts)'
  BY <1>2 DEF Goto, Create
<1>3. ASSUME NEW r \in Resends \cup Forgots, FindByUser(r)
      PROVE  (AccountFound /\ OneAccount /\ ResetsOfConfirmedAccounts)'
  BY <1>3 DEF Goto, FindByUser, Opening
<1>4. ASSUME NEW r \in PasswordChanges \cup RecoveryChanges, CheckAccount(r)
      PROVE  (AccountFound /\ OneAccount /\ ResetsOfConfirmedAccounts)'
  BY <1>4 DEF Goto, CheckAccount, Opening
<1>5. ASSUME NEW r \in Redeemers, SelectToken(r)
      PROVE  (AccountFound /\ OneAccount /\ ResetsOfConfirmedAccounts)'
  BY <1>5 DEF Goto, SelectToken, Opening
<1>6. ASSUME NEW r \in Requests, UpdateUser(r)
      PROVE  (AccountFound /\ OneAccount /\ ResetsOfConfirmedAccounts)'
  BY <1>6 DEF Goto, UpdateUser, AfterUser
<1>7. ASSUME NEW r \in Requests, UpdateToken(r)
      PROVE  (AccountFound /\ OneAccount /\ ResetsOfConfirmedAccounts)'
  BY <1>7 DEF Goto, UpdateToken, AfterToken
<1>8. ASSUME NEW r \in Requests, StartRevoking(r)
      PROVE  (AccountFound /\ OneAccount /\ ResetsOfConfirmedAccounts)'
  BY <1>8 DEF Goto, StartRevoking
<1>9. ASSUME NEW r \in Requests, RevokeOne(r)
      PROVE  (AccountFound /\ OneAccount /\ ResetsOfConfirmedAccounts)'
  BY <1>9 DEF Goto, RevokeOne
<1>10. ASSUME NEW r \in Requests, EndRevoking(r)
      PROVE  (AccountFound /\ OneAccount /\ ResetsOfConfirmedAccounts)'
  BY <1>10 DEF Goto, EndRevoking
<1>11. ASSUME NEW r \in Requests, Commit(r)
      PROVE  (AccountFound /\ OneAccount /\ ResetsOfConfirmedAccounts)'
  BY <1>11 DEF Goto, Commit, AfterCommit, Inserts, FreeRows
<1>12. ASSUME NEW r \in Requests, Abort(r)
      PROVE  (AccountFound /\ OneAccount /\ ResetsOfConfirmedAccounts)'
  BY <1>12 DEF Goto, Abort, FreeUser, FreeRows
<1>13. ASSUME NEW i \in Issuers, SendMail(i)
      PROVE  (AccountFound /\ OneAccount /\ ResetsOfConfirmedAccounts)'
  BY <1>13 DEF Goto, SendMail
<1>14. ASSUME NEW i \in Issuers, Expire(i)
      PROVE  (AccountFound /\ OneAccount /\ ResetsOfConfirmedAccounts)'
  BY <1>14 DEF Goto, Expire
<1>15. CASE Restart
  BY <1>15 DEF Restart, Running, Ended
<1>16. CASE UNCHANGED vars
  BY <1>16 DEF vars
<1> QED
  BY <1>1, <1>2, <1>3, <1>4, <1>5, <1>6, <1>7, <1>8, <1>9, <1>10,
     <1>11, <1>12, <1>13, <1>14, <1>15, <1>16
  DEF Next, Statement, StatementFails, DeadlockVictim, Quiet

(* All of it holds throughout.                                             *)
LEMMA AccountInvariance == Spec => []AInv
<1>1. Init => AInv
  BY RequestAssumption
  DEF Init, AInv, TypeOK, Users, TokenStates, Steps, Itinerary, TokensExist, AccountFound,
      OneAccount, ResetsOfConfirmedAccounts, Requests, Issuers, Redeemers, Ended, Disjoint
<1>2. AInv /\ [Next]_vars => AInv'
  BY TypeStep, ItineraryStep, TokensExistStep, AccountStep DEF AInv
<1> QED
  BY <1>1, <1>2, PTL DEF Spec

(* AccountOnce: of sign-ups with one address that all found it free one    *)
(* registers the account, under every fault.                               *)
THEOREM AccountOnce == Spec => []OneAccount
<1>1. AInv => OneAccount
  BY DEF AInv
<1> QED
  BY <1>1, AccountInvariance, PTL

(* ResetsConfirmed: a reset link is made for a confirmed account only.     *)
THEOREM ResetsConfirmed == Spec => []ResetsOfConfirmedAccounts
<1>1. AInv => ResetsOfConfirmedAccounts
  BY DEF AInv
<1> QED
  BY <1>1, AccountInvariance, PTL

-----------------------------------------------------------------------------
(* Once r, a change of the password that has yet to begin, and link f are  *)
(* both there, r ends well only when it has reached f.                     *)
Reaches(r, f) ==
    /\ token[f] # "none"
    /\ pc[r] = "rest" /\ token[f] = "live" => f \in rest[r] \/ rowLock[f] = r
    /\ pc[r] = "commit" /\ token[f] = "live" => rowLock[f] = r
    /\ pc[r] = "done" => token[f] # "live"

(* That stays so, whoever else writes the tokens meanwhile.                *)
LEMMA ReachesStep ==
    ASSUME TypeOK, Itinerary, TokensExist, NEW f \in Forgots, NEW x \in Resets \cup PasswordChanges,
           Reaches(x, f), [Next]_vars
    PROVE  Reaches(x, f)'
<1> USE RequestAssumption
    DEF TypeOK, Itinerary, TokensExist, Reaches, TokenStates, Ended, Requests, Issuers, Redeemers,
        Disjoint, Steps
<1>1. ASSUME NEW s \in Signups, FindByEmail(s)
      PROVE  Reaches(x, f)'
  BY <1>1 DEF Goto, FindByEmail
<1>2. ASSUME NEW s \in Signups, Create(s)
      PROVE  Reaches(x, f)'
  BY <1>2 DEF Goto, Create
<1>3. ASSUME NEW r \in Resends \cup Forgots, FindByUser(r)
      PROVE  Reaches(x, f)'
  BY <1>3 DEF Goto, FindByUser, Opening
<1>4. ASSUME NEW r \in PasswordChanges \cup RecoveryChanges, CheckAccount(r)
      PROVE  Reaches(x, f)'
  BY <1>4 DEF Goto, CheckAccount, Opening
<1>5. ASSUME NEW r \in Redeemers, SelectToken(r)
      PROVE  Reaches(x, f)'
  BY <1>5 DEF Goto, SelectToken, Opening
<1>6. ASSUME NEW r \in Requests, UpdateUser(r)
      PROVE  Reaches(x, f)'
  BY <1>6 DEF Goto, UpdateUser, AfterUser
<1>7. ASSUME NEW r \in Requests, UpdateToken(r)
      PROVE  Reaches(x, f)'
  BY <1>7 DEF Goto, UpdateToken, AfterToken
<1>8. ASSUME NEW r \in Requests, StartRevoking(r)
      PROVE  Reaches(x, f)'
  BY <1>8 DEF Goto, StartRevoking, Unconfirmed, SamePurpose
<1>9. ASSUME NEW r \in Requests, RevokeOne(r)
      PROVE  Reaches(x, f)'
  BY <1>9 DEF Goto, RevokeOne
<1>10. ASSUME NEW r \in Requests, EndRevoking(r)
      PROVE  Reaches(x, f)'
  BY <1>10 DEF Goto, EndRevoking
<1>11. ASSUME NEW r \in Requests, Commit(r)
      PROVE  Reaches(x, f)'
  BY <1>11 DEF Goto, Commit, AfterCommit, Inserts, FreeRows
<1>12. ASSUME NEW r \in Requests, Abort(r)
      PROVE  Reaches(x, f)'
  BY <1>12 DEF Goto, Abort, FreeUser, FreeRows
<1>13. ASSUME NEW i \in Issuers, SendMail(i)
      PROVE  Reaches(x, f)'
  BY <1>13 DEF Goto, SendMail
<1>14. ASSUME NEW i \in Issuers, Expire(i)
      PROVE  Reaches(x, f)'
  BY <1>14 DEF Goto, Expire
<1>15. CASE Restart
  BY <1>15 DEF Restart, Running, Ended
<1>16. CASE UNCHANGED vars
  BY <1>16 DEF vars
<1> QED
  BY <1>1, <1>2, <1>3, <1>4, <1>5, <1>6, <1>7, <1>8, <1>9, <1>10,
     <1>11, <1>12, <1>13, <1>14, <1>15, <1>16
  DEF Next, Statement, StatementFails, DeadlockVictim, Quiet

(* LinksDie: once a change of the password has succeeded, no reset link    *)
(* from before it began is good, whatever else runs and fails.             *)
THEOREM LinksDie == Spec => OldLinksDie
<1> SUFFICES ASSUME NEW f \in Forgots, NEW r \in Resets \cup PasswordChanges
             PROVE  Spec => [](token[f] = "live" /\ pc[r] = "idle"
                                  => [](pc[r] = "done" => token[f] # "live"))
  BY DEF OldLinksDie
<1>1. token[f] = "live" /\ pc[r] = "idle" => Reaches(r, f)
  BY DEF Reaches
<1>2. AInv /\ Reaches(r, f) /\ [Next]_vars => Reaches(r, f)'
  BY ReachesStep DEF AInv
<1>3. Reaches(r, f) => (pc[r] = "done" => token[f] # "live")
  BY DEF Reaches
<1> QED
  BY <1>1, <1>2, <1>3, AccountInvariance, PTL DEF Spec

-----------------------------------------------------------------------------
(* Now MailedLinks.  A request locks and visits rows of its own purpose    *)
(* only, and no row that a restart has deleted.                            *)
RowsFit ==
    /\ \A i \in Issuers : rowLock[i] # NoRequest =>
          i \in SamePurpose(rowLock[i]) /\ token[i] # "gone"
    /\ \A r \in Requests : rest[r] \subseteq SamePurpose(r)

(* Whoever redeems a link has found one of its kind, and once past the     *)
(* statement for the token has it locked, unless the token was deleted.    *)
Redeeming(r) == pc[r] \in {"user", "token", "revoke", "rest", "commit"}

PastToken(r) ==
    IF r \in Resets THEN pc[r] \in {"user", "revoke", "rest", "commit"}
    ELSE IF r \in RecoveryConfirms THEN pc[r] \in {"revoke", "rest", "commit"}
    ELSE pc[r] = "commit"

LinkInHand ==
    /\ \A r \in Redeemers :
          /\ pc[r] \in Ended \cup {"idle"} \/ Redeeming(r)
          /\ Redeeming(r) => seen[r] \in SamePurpose(r)
          /\ PastToken(r) => rowLock[seen[r]] = r \/ token[seen[r]] = "gone"
    /\ \A r \in Confirms :
          /\ pc[r] \notin {"revoke", "rest"}
          /\ \A i \in Issuers : rowLock[i] = r => i = seen[r] /\ pc[r] = "commit"

(* A link is made by the commit of its issuer and by nothing else.         *)
MadeOnce ==
    \A i \in Issuers :
        /\ i \notin undoing /\ pc[i] \in {"idle", "begin", "user", "revoke", "rest", "commit"} =>
              token[i] = "none"
        /\ i \in undoing \/ pc[i] = "mail" => token[i] # "none"
        /\ i \in undoing => pc[i] \notin {"idle", "begin", "mail"}

(* Who has the row of the user is at work, who changes the password or     *)
(* confirms the account has it, and a cancellation has it for a pending    *)
(* address of its own.                                                     *)
WritersHoldUser ==
    /\ \A r \in Requests : userLock = r =>
          pc[r] \in {"revoke", "rest", "commit"} \/ (pc[r] = "token" /\ r \notin Resets)
    /\ \A r \in Resets \cup PasswordChanges :
          pc[r] \in {"revoke", "rest", "commit"} => userLock = r
    /\ \A r \in Confirms : pc[r] \in {"token", "commit"} => userLock = r
    /\ \A b \in undoing : userLock = b => user.pending = address[b]

(* These requests go on only while the account is confirmed.               *)
AccountConfirmed ==
    \A r \in Forgots \cup PasswordChanges \cup RecoveryChanges :
        Running(r) => user.state = "active"

LInv ==
    /\ IInv
    /\ TokensExist
    /\ RowsFit
    /\ LinkInHand
    /\ MadeOnce
    /\ WritersHoldUser
    /\ AccountConfirmed

(* Rows are locked by statements that name their purpose.                  *)
LEMMA RowsFitStep ==
    ASSUME TypeOK, Itinerary, RowsFit, LinkInHand, MadeOnce, [Next]_vars
    PROVE  RowsFit'
<1> USE RequestAssumption
    DEF TypeOK, Itinerary, Ended, Requests, Issuers, Redeemers, Disjoint,
      Steps, RowsFit, LinkInHand, MadeOnce, Redeeming, SamePurpose, TokenStates
<1>1. ASSUME NEW s \in Signups, FindByEmail(s)
      PROVE  RowsFit'
  BY <1>1 DEF Goto, FindByEmail, SamePurpose
<1>2. ASSUME NEW s \in Signups, Create(s)
      PROVE  RowsFit'
  BY <1>2 DEF Goto, Create
<1>3. ASSUME NEW r \in Resends \cup Forgots, FindByUser(r)
      PROVE  RowsFit'
  BY <1>3 DEF Goto, FindByUser, Opening
<1>4. ASSUME NEW r \in PasswordChanges \cup RecoveryChanges, CheckAccount(r)
      PROVE  RowsFit'
  BY <1>4 DEF Goto, CheckAccount, Opening
<1>5. ASSUME NEW r \in Redeemers, SelectToken(r)
      PROVE  RowsFit'
  BY <1>5 DEF Goto, SelectToken, Opening
<1>6. ASSUME NEW r \in Requests, UpdateUser(r)
      PROVE  RowsFit'
  BY <1>6 DEF Goto, UpdateUser, AfterUser, Matches
<1>7. ASSUME NEW r \in Requests, UpdateToken(r)
      PROVE  RowsFit'
  BY <1>7 DEF Goto, UpdateToken, AfterToken
<1>8. ASSUME NEW r \in Requests, StartRevoking(r)
      PROVE  RowsFit'
  BY <1>8 DEF Goto, StartRevoking, Unconfirmed
<1>9. ASSUME NEW r \in Requests, RevokeOne(r)
      PROVE  RowsFit'
  BY <1>9 DEF Goto, RevokeOne
<1>10. ASSUME NEW r \in Requests, EndRevoking(r)
      PROVE  RowsFit'
  BY <1>10 DEF Goto, EndRevoking
<1>11. ASSUME NEW r \in Requests, Commit(r)
      PROVE  RowsFit'
  BY <1>11 DEF Goto, Commit, AfterCommit, FreeUser, FreeRows, Inserts
<1>12. ASSUME NEW r \in Requests, Abort(r)
      PROVE  RowsFit'
  BY <1>12 DEF Goto, Abort, FreeUser, FreeRows
<1>13. ASSUME NEW i \in Issuers, SendMail(i)
      PROVE  RowsFit'
  BY <1>13 DEF Goto, SendMail
<1>14. ASSUME NEW i \in Issuers, Expire(i)
      PROVE  RowsFit'
  BY <1>14 DEF Goto, Expire
<1>15. CASE Restart
  BY <1>15 DEF Restart, Running, Ended
<1>16. CASE UNCHANGED vars
  BY <1>16 DEF vars
<1> QED
  BY <1>1, <1>2, <1>3, <1>4, <1>5, <1>6, <1>7, <1>8, <1>9, <1>10,
     <1>11, <1>12, <1>13, <1>14, <1>15, <1>16
  DEF Next, Statement, StatementFails, DeadlockVictim, Quiet

(* Nobody else frees the token of a redeemer.                              *)
LEMMA LinkInHandStep ==
    ASSUME TypeOK, Itinerary, RowsFit, LinkInHand, MadeOnce, [Next]_vars
    PROVE  LinkInHand'
<1> USE RequestAssumption
    DEF TypeOK, Itinerary, Ended, Requests, Issuers, Redeemers, Disjoint,
      Steps, RowsFit, LinkInHand, MadeOnce, Redeeming, PastToken, SamePurpose,
      TokenStates
<1>1. ASSUME NEW s \in Signups, FindByEmail(s)
      PROVE  LinkInHand'
  BY <1>1 DEF Goto, FindByEmail
<1>2. ASSUME NEW s \in Signups, Create(s)
      PROVE  LinkInHand'
  BY <1>2 DEF Goto, Create
<1>3. ASSUME NEW r \in Resends \cup Forgots, FindByUser(r)
      PROVE  LinkInHand'
  BY <1>3 DEF Goto, FindByUser, Opening
<1>4. ASSUME NEW r \in PasswordChanges \cup RecoveryChanges, CheckAccount(r)
      PROVE  LinkInHand'
  BY <1>4 DEF Goto, CheckAccount, Opening
<1>5. ASSUME NEW r \in Redeemers, SelectToken(r)
      PROVE  LinkInHand'
  BY <1>5 DEF Goto, SelectToken, Opening
<1>6. ASSUME NEW r \in Requests, UpdateUser(r)
      PROVE  LinkInHand'
  BY <1>6 DEF Goto, UpdateUser, AfterUser, Matches
<1>7. ASSUME NEW r \in Requests, UpdateToken(r)
      PROVE  LinkInHand'
  BY <1>7 DEF Goto, UpdateToken, AfterToken
<1>8. ASSUME NEW r \in Requests, StartRevoking(r)
      PROVE  LinkInHand'
  BY <1>8 DEF Goto, StartRevoking, Unconfirmed
<1>9. ASSUME NEW r \in Requests, RevokeOne(r)
      PROVE  LinkInHand'
  BY <1>9 DEF Goto, RevokeOne
<1>10. ASSUME NEW r \in Requests, EndRevoking(r)
      PROVE  LinkInHand'
  BY <1>10 DEF Goto, EndRevoking
<1>11. ASSUME NEW r \in Requests, Commit(r)
      PROVE  LinkInHand'
  BY <1>11 DEF Goto, Commit, AfterCommit, FreeUser, FreeRows, Inserts
<1>12. ASSUME NEW r \in Requests, Abort(r)
      PROVE  LinkInHand'
  BY <1>12 DEF Goto, Abort, FreeUser, FreeRows
<1>13. ASSUME NEW i \in Issuers, SendMail(i)
      PROVE  LinkInHand'
  BY <1>13 DEF Goto, SendMail
<1>14. ASSUME NEW i \in Issuers, Expire(i)
      PROVE  LinkInHand'
  BY <1>14 DEF Goto, Expire
<1>15. CASE Restart
  BY <1>15 DEF Restart, Running, Ended
<1>16. CASE UNCHANGED vars
  BY <1>16 DEF vars
<1> QED
  BY <1>1, <1>2, <1>3, <1>4, <1>5, <1>6, <1>7, <1>8, <1>9, <1>10,
     <1>11, <1>12, <1>13, <1>14, <1>15, <1>16
  DEF Next, Statement, StatementFails, DeadlockVictim, Quiet

(* Only the commit of the issuer makes a link.                             *)
LEMMA MadeOnceStep ==
    ASSUME TypeOK, Itinerary, TokensExist, LinkInHand, MadeOnce, [Next]_vars
    PROVE  MadeOnce'
<1> USE RequestAssumption
    DEF TypeOK, Itinerary, Ended, Requests, Issuers, Redeemers, Disjoint,
      Steps, TokensExist, MadeOnce, LinkInHand, TokenStates
<1>1. ASSUME NEW s \in Signups, FindByEmail(s)
      PROVE  MadeOnce'
  BY <1>1 DEF Goto, FindByEmail
<1>2. ASSUME NEW s \in Signups, Create(s)
      PROVE  MadeOnce'
  BY <1>2 DEF Goto, Create
<1>3. ASSUME NEW r \in Resends \cup Forgots, FindByUser(r)
      PROVE  MadeOnce'
  BY <1>3 DEF Goto, FindByUser, Opening
<1>4. ASSUME NEW r \in PasswordChanges \cup RecoveryChanges, CheckAccount(r)
      PROVE  MadeOnce'
  BY <1>4 DEF Goto, CheckAccount, Opening
<1>5. ASSUME NEW r \in Redeemers, SelectToken(r)
      PROVE  MadeOnce'
  BY <1>5 DEF Goto, SelectToken, Opening
<1>6. ASSUME NEW r \in Requests, UpdateUser(r)
      PROVE  MadeOnce'
  BY <1>6 DEF Goto, UpdateUser, AfterUser, Matches
<1>7. ASSUME NEW r \in Requests, UpdateToken(r)
      PROVE  MadeOnce'
  BY <1>7 DEF Goto, UpdateToken, AfterToken
<1>8. ASSUME NEW r \in Requests, StartRevoking(r)
      PROVE  MadeOnce'
  BY <1>8 DEF Goto, StartRevoking, Unconfirmed
<1>9. ASSUME NEW r \in Requests, RevokeOne(r)
      PROVE  MadeOnce'
  BY <1>9 DEF Goto, RevokeOne
<1>10. ASSUME NEW r \in Requests, EndRevoking(r)
      PROVE  MadeOnce'
  BY <1>10 DEF Goto, EndRevoking
<1>11. ASSUME NEW r \in Requests, Commit(r)
      PROVE  MadeOnce'
  BY <1>11 DEF Goto, Commit, AfterCommit, FreeUser, FreeRows, Inserts
<1>12. ASSUME NEW r \in Requests, Abort(r)
      PROVE  MadeOnce'
  BY <1>12 DEF Goto, Abort, FreeUser, FreeRows
<1>13. ASSUME NEW i \in Issuers, SendMail(i)
      PROVE  MadeOnce'
  BY <1>13 DEF Goto, SendMail
<1>14. ASSUME NEW i \in Issuers, Expire(i)
      PROVE  MadeOnce'
  BY <1>14 DEF Goto, Expire
<1>15. CASE Restart
  BY <1>15 DEF Restart, Running, Ended
<1>16. CASE UNCHANGED vars
  BY <1>16 DEF vars
<1> QED
  BY <1>1, <1>2, <1>3, <1>4, <1>5, <1>6, <1>7, <1>8, <1>9, <1>10,
     <1>11, <1>12, <1>13, <1>14, <1>15, <1>16
  DEF Next, Statement, StatementFails, DeadlockVictim, Quiet

(* The row of the user stays with its writer, and with it what is pending. *)
LEMMA WritersStep ==
    ASSUME TypeOK, Itinerary, HoldsUser, LinkInHand, MadeOnce, WritersHoldUser, [Next]_vars
    PROVE  WritersHoldUser'
<1> USE RequestAssumption
    DEF TypeOK, Itinerary, Ended, Requests, Issuers, Redeemers, Disjoint,
      Steps, HoldsUser, RecoveryRequests, LinkInHand, MadeOnce,
      WritersHoldUser, Redeeming
<1>1. ASSUME NEW s \in Signups, FindByEmail(s)
      PROVE  WritersHoldUser'
  BY <1>1 DEF Goto, FindByEmail
<1>2. ASSUME NEW s \in Signups, Create(s)
      PROVE  WritersHoldUser'
  BY <1>2 DEF Goto, Create, Users
<1>3. ASSUME NEW r \in Resends \cup Forgots, FindByUser(r)
      PROVE  WritersHoldUser'
  BY <1>3 DEF Goto, FindByUser, Opening
<1>4. ASSUME NEW r \in PasswordChanges \cup RecoveryChanges, CheckAccount(r)
      PROVE  WritersHoldUser'
  BY <1>4 DEF Goto, CheckAccount, Opening
<1>5. ASSUME NEW r \in Redeemers, SelectToken(r)
      PROVE  WritersHoldUser'
  BY <1>5 DEF Goto, SelectToken, Opening
<1>6. ASSUME NEW r \in Requests, UpdateUser(r)
      PROVE  WritersHoldUser'
  BY <1>6 DEF Goto, UpdateUser, AfterUser, Matches
<1>7. ASSUME NEW r \in Requests, UpdateToken(r)
      PROVE  WritersHoldUser'
  BY <1>7 DEF Goto, UpdateToken, AfterToken
<1>8. ASSUME NEW r \in Requests, StartRevoking(r)
      PROVE  WritersHoldUser'
  BY <1>8 DEF Goto, StartRevoking, Unconfirmed
<1>9. ASSUME NEW r \in Requests, RevokeOne(r)
      PROVE  WritersHoldUser'
  BY <1>9 DEF Goto, RevokeOne
<1>10. ASSUME NEW r \in Requests, EndRevoking(r)
      PROVE  WritersHoldUser'
  BY <1>10 DEF Goto, EndRevoking
<1>11. ASSUME NEW r \in Requests, Commit(r)
      PROVE  WritersHoldUser'
  BY <1>11 DEF Goto, Commit, AfterCommit, FreeUser, FreeRows, Inserts
<1>12. ASSUME NEW r \in Requests, Abort(r)
      PROVE  WritersHoldUser'
  BY <1>12 DEF Goto, Abort, FreeUser, FreeRows
<1>13. ASSUME NEW i \in Issuers, SendMail(i)
      PROVE  WritersHoldUser'
  BY <1>13 DEF Goto, SendMail
<1>14. ASSUME NEW i \in Issuers, Expire(i)
      PROVE  WritersHoldUser'
  BY <1>14 DEF Goto, Expire
<1>15. CASE Restart
  BY <1>15 DEF Restart, Running, Ended
<1>16. CASE UNCHANGED vars
  BY <1>16 DEF vars
<1> QED
  BY <1>1, <1>2, <1>3, <1>4, <1>5, <1>6, <1>7, <1>8, <1>9, <1>10,
     <1>11, <1>12, <1>13, <1>14, <1>15, <1>16
  DEF Next, Statement, StatementFails, DeadlockVictim, Quiet

(* An account once confirmed stays so.                                     *)
LEMMA ConfirmedStep ==
    ASSUME TypeOK, Itinerary, LinkInHand, MadeOnce, AccountConfirmed, [Next]_vars
    PROVE  AccountConfirmed'
<1> USE RequestAssumption
    DEF TypeOK, Itinerary, Ended, Requests, Issuers, Redeemers, Disjoint,
      Steps, LinkInHand, MadeOnce, AccountConfirmed, Running, Users
<1>1. ASSUME NEW s \in Signups, FindByEmail(s)
      PROVE  AccountConfirmed'
  BY <1>1 DEF Goto, FindByEmail
<1>2. ASSUME NEW s \in Signups, Create(s)
      PROVE  AccountConfirmed'
  BY <1>2 DEF Goto, Create
<1>3. ASSUME NEW r \in Resends \cup Forgots, FindByUser(r)
      PROVE  AccountConfirmed'
  BY <1>3 DEF Goto, FindByUser, Opening
<1>4. ASSUME NEW r \in PasswordChanges \cup RecoveryChanges, CheckAccount(r)
      PROVE  AccountConfirmed'
  BY <1>4 DEF Goto, CheckAccount, Opening
<1>5. ASSUME NEW r \in Redeemers, SelectToken(r)
      PROVE  AccountConfirmed'
  BY <1>5 DEF Goto, SelectToken, Opening
<1>6. ASSUME NEW r \in Requests, UpdateUser(r)
      PROVE  AccountConfirmed'
  BY <1>6 DEF Goto, UpdateUser, AfterUser, Matches
<1>7. ASSUME NEW r \in Requests, UpdateToken(r)
      PROVE  AccountConfirmed'
  BY <1>7 DEF Goto, UpdateToken, AfterToken
<1>8. ASSUME NEW r \in Requests, StartRevoking(r)
      PROVE  AccountConfirmed'
  BY <1>8 DEF Goto, StartRevoking, Unconfirmed
<1>9. ASSUME NEW r \in Requests, RevokeOne(r)
      PROVE  AccountConfirmed'
  BY <1>9 DEF Goto, RevokeOne
<1>10. ASSUME NEW r \in Requests, EndRevoking(r)
      PROVE  AccountConfirmed'
  BY <1>10 DEF Goto, EndRevoking
<1>11. ASSUME NEW r \in Requests, Commit(r)
      PROVE  AccountConfirmed'
  BY <1>11, StateStep DEF Goto, Commit, AfterCommit, FreeUser, FreeRows,
    Inserts
<1>12. ASSUME NEW r \in Requests, Abort(r)
      PROVE  AccountConfirmed'
  BY <1>12 DEF Goto, Abort, FreeUser, FreeRows
<1>13. ASSUME NEW i \in Issuers, SendMail(i)
      PROVE  AccountConfirmed'
  BY <1>13 DEF Goto, SendMail
<1>14. ASSUME NEW i \in Issuers, Expire(i)
      PROVE  AccountConfirmed'
  BY <1>14 DEF Goto, Expire
<1>15. CASE Restart
  BY <1>15 DEF Restart, Running, Ended
<1>16. CASE UNCHANGED vars
  BY <1>16 DEF vars
<1> QED
  BY <1>1, <1>2, <1>3, <1>4, <1>5, <1>6, <1>7, <1>8, <1>9, <1>10,
     <1>11, <1>12, <1>13, <1>14, <1>15, <1>16
  DEF Next, Statement, StatementFails, DeadlockVictim, Quiet

(* What MailedLinks calls links and redeemers.                             *)
LEMMA LinkSets ==
    /\ Links!Links = Issuers
    /\ Links!SignupLinks = Signups \cup Resends
    /\ Links!ResetLinks = Forgots
    /\ Links!RecoveryLinks = RecoveryChanges
    /\ Links!Redeemers = Redeemers
    /\ \A r \in Redeemers : Links!LinksFor(r) = SamePurpose(r)
    /\ \A r \in Requests : SamePurpose(r) \subseteq Issuers
BY RequestAssumption
DEF Disjoint, Requests, Issuers, Redeemers, SamePurpose, Links!Links, Links!SignupLinks,
    Links!ResetLinks, Links!RecoveryLinks, Links!Redeemers, Links!LinksFor

(* The mapping before and after a step.                                    *)
LEMMA LinkIs ==
    ASSUME NEW i
    PROVE  /\ LinkOf(i) = "unmade" <=> token[i] = "none"
           /\ LinkOf(i) = "good" <=> token[i] = "live"
           /\ LinkOf(i) = "late" <=> token[i] = "expired"
           /\ LinkOf(i) \in {"unmade", "good", "late", "void"}
BY DEF LinkOf

LEMMA LinkNext ==
    ASSUME NEW i
    PROVE  /\ LinkOf(i)' = "unmade" <=> token'[i] = "none"
           /\ LinkOf(i)' = "good" <=> token'[i] = "live"
           /\ LinkOf(i)' = "late" <=> token'[i] = "expired"
           /\ LinkOf(i)' \in {"unmade", "good", "late", "void"}
BY DEF LinkOf

(* A step MailedLinks does not see.                                        *)
LEMMA Unseen ==
    ASSUME user' = user, mailed' = mailed, address' = address,
           \A i \in Issuers : LinkOf(i)' = LinkOf(i),
           \A r \in Redeemers : PresentedBy(r)' = PresentedBy(r),
           BeingUndone' = BeingUndone
    PROVE  UNCHANGED Links!vars
BY DEF Links!vars

(* A request goes on where it was, ends before it has presented a link, or *)
(* is none that presents or undoes anything.                               *)
LEMMA GoesOn ==
    ASSUME TypeOK, NEW r \in Requests,
           \A s \in Requests \ {r} : pc'[s] = pc[s],
           seen' = seen, undoing' = undoing,
           Running(r)' = Running(r) \/ r \notin Redeemers \cup undoing
    PROVE  /\ \A s \in Redeemers : PresentedBy(s)' = PresentedBy(s)
           /\ [s \in Redeemers |-> PresentedBy(s)]' = [s \in Redeemers |-> PresentedBy(s)]
           /\ BeingUndone' = BeingUndone
<1>1. \A s \in Redeemers \cup undoing : Running(s)' = Running(s)
  BY DEF Running, Ended, Requests, Redeemers, TypeOK, Issuers
<1>2. \A s \in Redeemers : PresentedBy(s)' = PresentedBy(s)
  BY <1>1 DEF PresentedBy
<1>3. BeingUndone' = BeingUndone
  BY <1>1 DEF BeingUndone
<1> QED
  BY <1>2, <1>3

LEMMA Proceeds ==
    ASSUME TypeOK, NEW r \in Requests,
           \A s \in Requests \ {r} : pc'[s] = pc[s],
           UNCHANGED <<seen, undoing, token, user, mailed, address>>,
           Running(r)' = Running(r) \/ r \notin Redeemers \cup undoing
    PROVE  UNCHANGED Links!vars
<1>1. \A i \in Issuers : LinkOf(i)' = LinkOf(i)
  BY DEF LinkOf
<1> QED
  BY <1>1, GoesOn, Unseen

(* A request that ends has its link in hand, or its change to undo, no     *)
(* longer.                                                                 *)
LEMMA LetsGo ==
    ASSUME TypeOK, NEW r \in Requests,
           \A s \in Requests \ {r} : pc'[s] = pc[s], pc'[r] \in Ended,
           seen' = seen, undoing' = undoing
    PROVE  /\ [s \in Redeemers |-> PresentedBy(s)]' =
                 [s \in Redeemers |-> IF s = r THEN NoRequest ELSE PresentedBy(s)]
           /\ BeingUndone' = BeingUndone \ {r}
<1>1. \A s \in Redeemers : PresentedBy(s)' = IF s = r THEN NoRequest ELSE PresentedBy(s)
  BY DEF PresentedBy, Running, Ended, Requests, Redeemers
<1>2. \A s \in undoing : Running(s)' <=> Running(s) /\ s # r
  BY DEF Running, Ended, Requests, Issuers, TypeOK
<1> QED
  BY <1>1, <1>2 DEF BeingUndone

(* What a commit makes of the links: the rows it has locked are void, and  *)
(* so is one in hand that was deleted, and the new row is good.            *)
LEMMA CommitLinks ==
    ASSUME LInv, NEW r \in Requests, Commit(r), NEW V \in SUBSET Issuers,
           \A i \in Issuers : rowLock[i] = r => i \in V,
           \A i \in V : rowLock[i] = r \/ token[i] = "gone"
    PROVE  /\ r \notin Issuers \ undoing => Links!Change(V, {})
           /\ r \in Issuers \ undoing => Links!Change(V, {r}) /\ Links!New(r)
<1> USE RequestAssumption DEF LInv, IInv, TypeOK, Requests
<1>1. \A i \in V : token'[i] \in {"used", "gone"} \/ (i = r /\ Inserts(r))
  BY DEF Commit, RowsFit
<1>2. \A i \in Issuers \ V : token'[i] = token[i] \/ (i = r /\ Inserts(r))
  BY DEF Commit
<1>3. CASE r \notin Issuers \ undoing
  <2>1. \A i \in Issuers : LinkOf(i)' = IF i \in V THEN "void" ELSE LinkOf(i)
    BY <1>1, <1>2, <1>3, LinkIs, LinkNext DEF Inserts, LinkOf
  <2> QED
    BY <1>3, <2>1, LinkSets DEF Links!Change
<1>4. CASE r \in Issuers \ undoing
  <2>1. token[r] = "none" /\ token'[r] = "live"
    BY <1>4 DEF Commit, MadeOnce, Inserts
  <2>2. \A i \in Issuers :
           LinkOf(i)' = IF i \in {r} THEN "good" ELSE IF i \in V THEN "void" ELSE LinkOf(i)
    BY <1>1, <1>2, <1>4, <2>1, LinkIs, LinkNext DEF Inserts, LinkOf
  <2>3. Links!Change(V, {r})
    BY <2>2, LinkSets DEF Links!Change
  <2>4. Links!New(r)
    BY <1>4, <2>1, LinkIs DEF Links!New
  <2> QED
    BY <1>4, <2>3, <2>4
<1> QED
  BY <1>3, <1>4

(* The commit of a redeemer redeems the link it has in hand.               *)
LEMMA CommitRedeems ==
    ASSUME LInv, NEW r \in Redeemers, Commit(r),
           NEW V, V = {i \in Issuers : rowLock[i] = r} \cup {seen[r]}
    PROVE  /\ Links!Redeem(r, V)
           /\ userLock = r
           /\ V \in SUBSET Issuers
           /\ r \in RecoveryConfirms => Links!Good(RecoveryChanges) \subseteq V
<1> USE RequestAssumption DEF LInv, IInv, TypeOK, Requests, Redeemers, Disjoint
<1>1. /\ seen[r] \in SamePurpose(r) /\ seen[r] \in Issuers
      /\ rowLock[seen[r]] = r \/ token[seen[r]] = "gone"
      /\ token[seen[r]] # "none"
  BY LinkSets DEF LinkInHand, Redeeming, PastToken, Commit, TokensExist, Ended
<1>2. V \in SUBSET Issuers
  BY <1>1
<1>3. Links!Change(V, {})
  BY <1>1, <1>2, CommitLinks DEF Issuers
<1>4. PresentedBy(r) = seen[r]
  BY DEF PresentedBy, Running, Commit, Ended
<1>5. V \subseteq Links!Made(SamePurpose(r))
  <2>1. \A i \in V : i \in SamePurpose(r) /\ token[i] # "none"
    BY <1>1, <1>2 DEF RowsFit, TokensExist
  <2> QED
    BY <1>2, <2>1, LinkIs DEF Links!Made
<1>6. /\ [s \in Redeemers |-> PresentedBy(s)]' =
            [[s \in Redeemers |-> PresentedBy(s)] EXCEPT ![r] = NoRequest]
      /\ BeingUndone' = BeingUndone
  <2>1. /\ pc'[r] \in Ended /\ \A s \in Requests \ {r} : pc'[s] = pc[s]
        /\ seen' = seen /\ undoing' = undoing
    BY DEF Commit, Goto, AfterCommit, Ended, Issuers
  <2>2. r \notin BeingUndone
    BY DEF BeingUndone, Issuers
  <2>3. BeingUndone' = BeingUndone \ {r}
    BY <2>1, LetsGo
  <2>4. [s \in Redeemers |-> PresentedBy(s)]' =
            [s \in Redeemers |-> IF s = r THEN NoRequest ELSE PresentedBy(s)]
    BY <2>1, LetsGo
  <2>5. BeingUndone \ {r} = BeingUndone
    BY <2>2
  <2> QED
    BY <2>3, <2>4, <2>5
<1>7. Links!Redeem(r, V)
  BY <1>1, <1>3, <1>4, <1>5, <1>6, LinkSets DEF Links!Redeem, Commit
<1>8. userLock = r
  BY DEF WritersHoldUser, HoldsUser, RecoveryRequests, Commit, Issuers
<1>9. r \in RecoveryConfirms => Links!Good(RecoveryChanges) \subseteq V
  BY <1>8, LinkIs DEF Links!Good, HolderReachesAll, RecoveryRequests, Commit, Issuers
<1> QED
  BY <1>2, <1>7, <1>8, <1>9

(* A commit is the instant in which its request takes place.               *)
LEMMA CommitStep ==
    ASSUME LInv, NEW r \in Requests, Commit(r)
    PROVE  Links!Next
<1> USE RequestAssumption DEF LInv, IInv, TypeOK, Requests, Disjoint
<1>1. CASE r \in Redeemers
  <2> DEFINE V == {i \in Issuers : rowLock[i] = r} \cup {seen[r]}
  <2>1. /\ Links!Redeem(r, V) /\ userLock = r /\ V \in SUBSET Issuers
        /\ r \in RecoveryConfirms => Links!Good(RecoveryChanges) \subseteq V
    BY <1>1, CommitRedeems
  <2>2. CASE r \in Confirms
    <3>1. PresentedBy(r) = seen[r]
      BY DEF PresentedBy, Running, Commit, Ended
    <3>2. user' = [user EXCEPT !.state = "active"]
      BY <2>1, <2>2 DEF Commit, UserWritten, Activated, Issuers, Redeemers
    <3>3. V = {seen[r]}
      BY <2>2 DEF LinkInHand
    <3>4. Links!ConfirmAccount(r)
      BY <1>1, <2>1, <3>1, <3>2, <3>3 DEF Links!ConfirmAccount
    <3> QED
      BY <2>2, <3>4 DEF Links!Next
  <2>3. CASE r \in Resets
    <3>1. user' = [user EXCEPT !.password = r]
      BY <2>1, <2>3 DEF Commit, UserWritten, PasswordReset
    <3>2. Links!ResetPassword(r, V)
      BY <2>1, <3>1 DEF Links!ResetPassword
    <3> QED
      BY <2>1, <2>3, <3>2, LinkSets DEF Links!Next
  <2>4. CASE r \in RecoveryConfirms
    <3>1. user' = [user EXCEPT !.recovery = user.pending, !.pending = NoAddress]
      BY <2>1, <2>4 DEF Commit, UserWritten, RecoveryPromoted, Issuers, Redeemers
    <3>2. Links!ConfirmRecovery(r, V)
      BY <2>1, <2>4, <3>1, LinkSets DEF Links!ConfirmRecovery
    <3> QED
      BY <2>1, <2>4, <3>2, LinkSets DEF Links!Next
  <2> QED
    BY <1>1, <2>2, <2>3, <2>4 DEF Redeemers
<1>2. CASE r \notin Redeemers
  <2> DEFINE V == {i \in Issuers : rowLock[i] = r}
  <2>1. V \in SUBSET Issuers
    OBVIOUS
  <2>2. /\ r \notin Issuers \ undoing => Links!Change(V, {})
        /\ r \in Issuers \ undoing => Links!Change(V, {r}) /\ Links!New(r)
    BY <2>1, CommitLinks
  <2>3. V \subseteq SamePurpose(r) /\ V \subseteq Links!Made(SamePurpose(r))
    <3>1. \A i \in V : i \in SamePurpose(r) /\ token[i] # "none"
      BY DEF RowsFit, TokensExist
    <3> QED
      BY <3>1, LinkIs DEF Links!Made
  <2>4. /\ [s \in Redeemers |-> PresentedBy(s)]' = [s \in Redeemers |-> PresentedBy(s)]
        /\ r \notin undoing => BeingUndone' = BeingUndone
        /\ r \in undoing => r \in BeingUndone /\ BeingUndone' = BeingUndone \ {r}
    <3>1. /\ \A s \in Requests \ {r} : pc'[s] = pc[s]
          /\ seen' = seen /\ undoing' = undoing
      BY DEF Commit, Goto
    <3>2. CASE r \notin undoing
      BY <1>2, <3>1, <3>2, GoesOn
    <3>3. CASE r \in undoing
      <4>1. pc'[r] \in Ended /\ Running(r)
        BY <3>3 DEF Commit, Goto, AfterCommit, Ended, Running
      <4> QED
        BY <1>2, <3>1, <3>3, <4>1, LetsGo DEF BeingUndone
    <3> QED
      BY <3>2, <3>3
  <2>5. /\ mailed' = mailed /\ address' = address
        /\ userLock # r => user' = user
    BY DEF Commit
  <2>6. r \notin Signups
    BY DEF Commit, Itinerary, Ended
  <2>7. CASE r \in Resends \cup Forgots
    <3>1. user' = user /\ r \in Issuers \ undoing
      BY <2>5, <2>7 DEF Itinerary, Issuers
    <3>2. r \in Forgots => user.state = "active"
      BY DEF AccountConfirmed, Running, Commit, Ended
    <3>3. SamePurpose(r) = IF r \in Forgots THEN Forgots ELSE Signups \cup Resends
      BY <2>7 DEF SamePurpose, Issuers, Redeemers
    <3>4. Links!Issue(r, V)
      BY <2>2, <2>3, <2>4, <2>5, <2>7, <3>1, <3>2, <3>3, LinkSets DEF Links!Issue
    <3> QED
      BY <2>1, <2>7, <3>4, LinkSets DEF Links!Next
  <2>8. CASE r \in PasswordChanges
    <3>1. userLock = r /\ user.state = "active" /\ r \notin Issuers /\ r \notin undoing
      BY <2>8 DEF WritersHoldUser, AccountConfirmed, Running, Commit, Ended, Issuers
    <3>2. user' = [user EXCEPT !.password = r]
      BY <1>2, <2>8, <3>1 DEF Commit, UserWritten, PasswordUpdated, Redeemers
    <3>3. SamePurpose(r) = Forgots
      BY <2>8 DEF SamePurpose, Issuers, Redeemers
    <3>4. Links!ChangePassword(r, V)
      BY <2>2, <2>3, <2>4, <2>5, <3>1, <3>2, <3>3, LinkSets DEF Links!ChangePassword
    <3> QED
      BY <2>1, <2>8, <3>4, LinkSets DEF Links!Next
  <2>9. CASE r \in RecoveryChanges
    <3>1. SamePurpose(r) = RecoveryChanges /\ r \in Issuers /\ r \notin PasswordChanges
      BY <2>9 DEF SamePurpose, Issuers, Redeemers
    <3>2. userLock = r => Links!Good(RecoveryChanges) \subseteq V
      BY <2>9, LinkIs DEF HolderReachesAll, RecoveryRequests, Links!Good, Commit, Issuers
    <3>3. CASE r \notin undoing
      <4>1. userLock = r /\ user.state = "active"
        BY <2>9, <3>3 DEF HoldsUser, RecoveryRequests, AccountConfirmed, Running, Commit, Ended
      <4>2. user' = [user EXCEPT !.pending = address[r]]
        BY <1>2, <3>1, <3>3, <4>1 DEF Commit, UserWritten, RecoveryPending, Redeemers
      <4>3. Links!AskRecovery(r, V)
        BY <2>2, <2>3, <2>4, <2>5, <3>1, <3>2, <3>3, <4>1, <4>2, LinkSets
        DEF Links!AskRecovery
      <4> QED
        BY <2>1, <2>9, <4>3, LinkSets DEF Links!Next
    <3>4. CASE r \in undoing
      <4>1. \/ user' = user
            \/ /\ user.pending = address[r] /\ Links!Good(RecoveryChanges) \subseteq V
               /\ user' = [user EXCEPT !.pending = NoAddress]
        BY <1>2, <2>5, <3>1, <3>2, <3>4
        DEF WritersHoldUser, Commit, UserWritten, RecoveryCancelled, Redeemers
      <4>2. Links!CancelRecovery(r, V)
        BY <2>2, <2>3, <2>4, <2>5, <3>1, <3>4, <4>1, LinkSets DEF Links!CancelRecovery
      <4> QED
        BY <2>1, <2>9, <4>2, LinkSets DEF Links!Next
    <3> QED
      BY <3>3, <3>4
  <2> QED
    BY <1>2, <2>6, <2>7, <2>8, <2>9 DEF Issuers
<1> QED
  BY <1>1, <1>2

(* Every step is one of MailedLinks or shows nowhere.                      *)
LEMMA LinksStep ==
    ASSUME LInv, LInv', [Next]_vars
    PROVE  [Links!Next]_(Links!vars)
<1> USE RequestAssumption
    DEF LInv, IInv, TypeOK, Itinerary, Ended, Requests, Issuers, Redeemers, Disjoint, Steps
<1>1. ASSUME NEW s \in Signups, FindByEmail(s)
      PROVE  UNCHANGED Links!vars
  BY <1>1, Proceeds DEF FindByEmail, Goto
<1>2. ASSUME NEW s \in Signups, Create(s)
      PROVE  [Links!Next]_(Links!vars)
  <2>1. (\A r \in Requests \ {s} : pc'[r] = pc[r]) /\ UNCHANGED <<seen, undoing, mailed, address>>
    BY <1>2 DEF Create, Goto
  <2>2. /\ [r \in Redeemers |-> PresentedBy(r)]' = [r \in Redeemers |-> PresentedBy(r)]
        /\ BeingUndone' = BeingUndone
    BY <2>1, GoesOn
  <2>3. CASE UNCHANGED <<user, token>>
    BY <2>1, <2>3, Proceeds
  <2>4. CASE /\ user.state = "none" /\ user' = [user EXCEPT !.state = "inactive"]
             /\ token' = [token EXCEPT ![s] = "live"]
    <3>1. token[s] = "none"
      BY <1>2 DEF MadeOnce, Create
    <3>2. \A i \in Issuers : LinkOf(i)' = IF i \in {s} THEN "good" ELSE LinkOf(i)
      BY <2>4 DEF LinkOf
    <3>3. Links!Change({}, {s})
      BY <3>2, LinkSets DEF Links!Change
    <3>4. Links!New(s)
      BY <3>1, LinkIs DEF Links!New
    <3>5. Links!Register(s)
      BY <2>1, <2>2, <2>4, <3>3, <3>4 DEF Links!Register
    <3> QED
      BY <3>5 DEF Links!Next
  <2> QED
    BY <1>2, <2>3, <2>4 DEF Create
<1>3. ASSUME NEW r \in Resends \cup Forgots, FindByUser(r)
      PROVE  UNCHANGED Links!vars
  BY <1>3, Proceeds DEF FindByUser, Goto, MadeOnce
<1>4. ASSUME NEW r \in PasswordChanges \cup RecoveryChanges, CheckAccount(r)
      PROVE  UNCHANGED Links!vars
  BY <1>4, Proceeds DEF CheckAccount, Goto, MadeOnce
<1>5. ASSUME NEW r \in Redeemers, SelectToken(r)
      PROVE  [Links!Next]_(Links!vars)
  <2>1. PICK i \in mailed \cap SamePurpose(r) :
           IF /\ token[i] = "live"
              /\ r \in Confirms => user.state = "inactive"
              /\ r \in RecoveryConfirms => user.pending # NoAddress
              THEN seen' = [seen EXCEPT ![r] = i] /\ Goto(r, Opening(r))
              ELSE Goto(r, "failed") /\ UNCHANGED seen
    BY <1>5 DEF SelectToken
  <2>2. /\ pc[r] = "idle" /\ ~Running(r)
        /\ UNCHANGED <<user, token, mailed, undoing, address>>
        /\ \A s \in Requests \ {r} : pc'[s] = pc[s]
    BY <1>5, <2>1 DEF SelectToken, Goto, Running
  <2>3. CASE seen' = seen /\ pc'[r] = "failed"
    <3>1. Running(r)' = Running(r)
      BY <2>2, <2>3 DEF Running
    <3> QED
      BY <2>2, <2>3, <3>1, Proceeds
  <2>4. CASE /\ token[i] = "live"
             /\ r \in Confirms => user.state = "inactive"
             /\ r \in RecoveryConfirms => user.pending # NoAddress
             /\ seen' = [seen EXCEPT ![r] = i] /\ Goto(r, Opening(r))
    <3>1. \A s \in Redeemers : PresentedBy(s)' = IF s = r THEN i ELSE PresentedBy(s)
      BY <2>2, <2>4 DEF PresentedBy, Running, Goto, Opening
    <3>2. [s \in Redeemers |-> PresentedBy(s)]' =
              [[s \in Redeemers |-> PresentedBy(s)] EXCEPT ![r] = i]
      BY <3>1
    <3>3. /\ [j \in Issuers |-> LinkOf(j)]' = [j \in Issuers |-> LinkOf(j)]
          /\ BeingUndone' = BeingUndone
      BY <2>2 DEF LinkOf, BeingUndone, Running
    <3>4. PresentedBy(r) = NoRequest /\ LinkOf(i) = "good" /\ i \in Issuers
      BY <2>1, <2>2, <2>4, LinkIs, LinkSets DEF PresentedBy
    <3>5. Links!Present(r, i)
      BY <2>1, <2>2, <2>4, <3>2, <3>3, <3>4 DEF Links!Present
    <3> QED
      BY <2>1, <3>5, LinkSets DEF Links!Next
  <2> QED
    BY <2>1, <2>3, <2>4 DEF Goto
<1>6. ASSUME NEW r \in Requests, UpdateUser(r)
      PROVE  UNCHANGED Links!vars
  BY <1>6, Proceeds DEF UpdateUser, Goto, AfterUser, Running
<1>7. ASSUME NEW r \in Requests, UpdateToken(r)
      PROVE  UNCHANGED Links!vars
  BY <1>7, Proceeds DEF UpdateToken, Goto, AfterToken, Running
<1>8. ASSUME NEW r \in Requests, StartRevoking(r)
      PROVE  UNCHANGED Links!vars
  BY <1>8, Proceeds DEF StartRevoking, Goto, Running
<1>9. ASSUME NEW r \in Requests, RevokeOne(r)
      PROVE  UNCHANGED Links!vars
  BY <1>9, Proceeds DEF RevokeOne, Running
<1>10. ASSUME NEW r \in Requests, EndRevoking(r)
       PROVE  UNCHANGED Links!vars
  BY <1>10, Proceeds DEF EndRevoking, Goto, Running
<1>11. ASSUME NEW r \in Requests, Commit(r)
       PROVE  Links!Next
  BY <1>11, CommitStep
<1>12. ASSUME NEW r \in Requests, Abort(r)
       PROVE  [Links!Next]_(Links!vars)
  <2>1. /\ UNCHANGED <<user, token, mailed, seen, undoing, address>>
        /\ pc'[r] = "failed" /\ \A s \in Requests \ {r} : pc'[s] = pc[s]
    BY <1>12 DEF Abort, Goto
  <2>2. CASE r \notin Redeemers \cup undoing
    BY <2>1, <2>2, Proceeds
  <2>3. CASE r \in Redeemers \cup RecoveryChanges
    <3>1. /\ [s \in Redeemers |-> PresentedBy(s)]' =
                [s \in Redeemers |-> IF s = r THEN NoRequest ELSE PresentedBy(s)]
          /\ BeingUndone' = BeingUndone \ {r}
      BY <2>1, LetsGo
    <3>2. [j \in Issuers |-> LinkOf(j)]' = [j \in Issuers |-> LinkOf(j)]
      BY <2>1 DEF LinkOf
    <3>3. Links!GiveUp(r)
      BY <2>1, <3>1, <3>2, LinkSets DEF Links!GiveUp
    <3> QED
      BY <2>3, <3>3, LinkSets DEF Links!Next
  <2> QED
    BY <2>2, <2>3
<1>13. ASSUME NEW i \in Issuers, SendMail(i)
       PROVE  [Links!Next]_(Links!vars)
  <2>1. /\ UNCHANGED <<user, token, seen, address>>
        /\ pc[i] = "mail" /\ i \notin undoing
        /\ \A s \in Requests \ {i} : pc'[s] = pc[s]
    BY <1>13 DEF SendMail, Goto, MadeOnce
  <2>2. [j \in Issuers |-> LinkOf(j)]' = [j \in Issuers |-> LinkOf(j)]
    BY <2>1 DEF LinkOf
  <2>3. ~Links!New(i)
    BY <2>1, LinkIs DEF MadeOnce, Links!New
  <2>4. CASE undoing' = undoing /\ mailed' = mailed
    BY <2>1, <2>4, Proceeds
  <2>5. CASE undoing' = undoing /\ mailed' = mailed \cup {i}
    <3>1. /\ [s \in Redeemers |-> PresentedBy(s)]' = [s \in Redeemers |-> PresentedBy(s)]
          /\ BeingUndone' = BeingUndone
      BY <2>1, <2>5, GoesOn
    <3>2. Links!Mail(i)
      BY <2>1, <2>2, <2>3, <2>5, <3>1 DEF Links!Mail
    <3> QED
      BY <3>2, LinkSets DEF Links!Next
  <2>6. CASE /\ i \in RecoveryChanges /\ undoing' = undoing \cup {i} /\ pc'[i] = "user"
             /\ mailed' \in {mailed, mailed \cup {i}}
    <3>1. \A s \in Redeemers \cup undoing : Running(s)' = Running(s)
      BY <2>1, <2>6 DEF Running
    <3>2. [s \in Redeemers |-> PresentedBy(s)]' = [s \in Redeemers |-> PresentedBy(s)]
      BY <2>1, <3>1 DEF PresentedBy
    <3>3. BeingUndone' = BeingUndone \cup {i}
      <4>1. Running(i)'
        BY <2>6 DEF Running
      <4> QED
        BY <2>6, <3>1, <4>1 DEF BeingUndone
    <3>4. Links!Refuse(i)
      BY <2>1, <2>2, <2>3, <2>6, <3>2, <3>3 DEF Links!Refuse
    <3> QED
      BY <2>6, <3>4 DEF Links!Next
  <2> QED
    BY <1>13, <2>4, <2>5, <2>6 DEF SendMail, Goto
<1>14. ASSUME NEW i \in Issuers, Expire(i)
       PROVE  Links!Next
  <2>1. /\ token[i] = "live" /\ token' = [token EXCEPT ![i] = "expired"]
        /\ UNCHANGED <<user, mailed, address, pc, seen, undoing>>
    BY <1>14 DEF Expire
  <2>2. \A j \in Issuers : LinkOf(j)' = IF j = i THEN "late" ELSE LinkOf(j)
    BY <2>1 DEF LinkOf
  <2>3. /\ [s \in Redeemers |-> PresentedBy(s)]' = [s \in Redeemers |-> PresentedBy(s)]
        /\ BeingUndone' = BeingUndone
    BY <2>1 DEF PresentedBy, BeingUndone, Running
  <2>4. [j \in Issuers |-> LinkOf(j)]' = [[j \in Issuers |-> LinkOf(j)] EXCEPT ![i] = "late"]
    BY <2>2
  <2>5. LinkOf(i) = "good"
    BY <2>1, LinkIs
  <2>6. Links!Late(i)
    BY <2>1, <2>3, <2>4, <2>5 DEF Links!Late
  <2> QED
    BY <2>6, LinkSets DEF Links!Next
<1>15. CASE Restart
  <2>1. \A j \in Issuers : LinkOf(j)' = IF LinkOf(j) = "late" THEN "void" ELSE LinkOf(j)
    BY <1>15, LinkIs, LinkNext DEF Restart, LinkOf
  <2>2. /\ \A s \in Redeemers : PresentedBy(s)' = NoRequest
        /\ BeingUndone' = {}
    BY <1>15 DEF Restart, PresentedBy, BeingUndone, Running
  <2>3. Links!Sweep
    BY <1>15, <2>1, <2>2, LinkSets DEF Restart, Links!Sweep, Links!Change
  <2> QED
    BY <2>3 DEF Links!Next
<1>16. CASE UNCHANGED vars
  BY <1>16, Unseen DEF vars, LinkOf, PresentedBy, BeingUndone, Running
<1> QED
  BY <1>1, <1>2, <1>3, <1>4, <1>5, <1>6, <1>7, <1>8, <1>9, <1>10,
     <1>11, <1>12, <1>13, <1>14, <1>15, <1>16
  DEF Next, Statement, StatementFails, DeadlockVictim, Quiet

(* LinksKept: AccountTokens implements MailedLinks for every set of        *)
(* requests and under every combination of faults: a request that selects  *)
(* a token without a lock and then writes the user and row after row takes *)
(* place in the instant of its commit, a link is good from the commit of   *)
(* its issuer until it is redeemed, revoked or late, and only who          *)
(* presented one of the right kind while it was good changes the account   *)
(* by it.                                                                  *)
THEOREM LinksKept == Spec => ImplementsMailedLinks
<1>1. Init => LInv /\ Links!Init
  <2> SUFFICES ASSUME Init
               PROVE  LInv /\ Links!Init
    OBVIOUS
  <2> USE RequestAssumption DEF Init, Ended, Requests, Issuers, Redeemers, Disjoint
  <2>1. LInv
    BY DEF LInv, IInv, TypeOK, Users, TokenStates, Steps, Itinerary, HoldsUser,
        HolderReachesAll, LinkFitsPending, OneRecoveryLink, RecoveryRequests, TokensExist,
        RowsFit, LinkInHand, Redeeming, PastToken, MadeOnce, WritersHoldUser,
        AccountConfirmed, Running
  <2>2. \A i \in Issuers : LinkOf(i) = "unmade"
    BY LinkIs
  <2>3. (\A r \in Redeemers : PresentedBy(r) = NoRequest) /\ BeingUndone = {}
    BY DEF PresentedBy, BeingUndone, Running
  <2>4. Links!Init
    BY <2>2, <2>3, LinkSets DEF Links!Init
  <2> QED
    BY <2>1, <2>4
<1>2. LInv /\ [Next]_vars => LInv'
  BY TypeStep, ItineraryStep, HoldsUserStep, HolderReachesAllStep, RecoveryStep, TokensExistStep,
     RowsFitStep, LinkInHandStep, MadeOnceStep, WritersStep, ConfirmedStep DEF LInv, IInv
<1>3. LInv /\ LInv' /\ [Next]_vars => [Links!Next]_(Links!vars)
  BY LinksStep
<1> QED
  BY <1>1, <1>2, <1>3, PTL DEF Spec, ImplementsMailedLinks, Links!Spec

=============================================================================
