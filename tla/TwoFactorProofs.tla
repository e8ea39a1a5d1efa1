---------------------------- MODULE TwoFactorProofs ----------------------------
(***************************************************************************)
(* What TwoFactor guarantees for every number of requests and attempts and *)
(* under every combination of faults: a challenge lets one request pass,   *)
(* and only while attempts are left, and a recovery code completes one     *)
(* login.                                                                  *)
(*                                                                         *)
(* The argument.  A challenge is inserted once and never opens again, so   *)
(* whoever has passed has left it consumed, with its attempts as they      *)
(* were; the next one to consume would need it open.  In the same way a    *)
(* set of recovery codes is inserted once, and a login that goes on from   *)
(* one leaves it no longer fresh.                                          *)
(***************************************************************************)
EXTENDS TwoFactor, FiniteSetTheorems, TLAPS

(* Which requests get to which statements, and what they know there.       *)
Itinerary ==
    /\ \A o \in Openers : pc[o] \in {"idle", "cooldown", "bulk", "rest", "commit"} \cup Ended
    /\ \A r \in Regenerations : pc[r] \in {"idle", "bulk", "rest", "commit"} \cup Ended
    /\ \A c \in LoginCodes : pc[c] \in {"idle", "select", "use", "count", "consume"} \cup Ended
    /\ \A c \in DisableCodes : pc[c] # "activate"
    /\ \A c \in Checkers :
          /\ pc[c] \in {"idle", "select"} => seen[c] = NoRequest
          /\ pc[c] \in {"use", "count", "consume"} => seen[c] \in Openers
    /\ \A c \in LoginCodes :
          /\ pc[c] \in {"idle", "select"} => shown[c] = NoRequest
          /\ pc[c] = "use" => shown[c] \in Makers

(* A row once committed is not inserted again.                             *)
InsertedOnce ==
    /\ \A o \in Openers :
          /\ challenge[o] # "none" => pc[o] \in Ended
          /\ lock[o] # NoRequest => challenge[o] # "none"
    /\ \A m \in Makers : codes[m] # "none" =>
          m \in undoing \/ pc[m] \in {"activate"} \cup Ended

(* Whoever has passed has left the challenge consumed.                     *)
PassedConsumed ==
    \A c \in Checkers : Passed(c) => challenge[seen[c]] = "consumed"

(* A login that has used a recovery code.                                  *)
HasUsed(c, m) == shown[c] = m /\ (pc[c] = "consume" \/ Passed(c))

UsedNotFresh ==
    \A c \in LoginCodes, m \in Makers : HasUsed(c, m) =>
        /\ codes[m] # "fresh"
        /\ m \in undoing \/ pc[m] \in {"activate"} \cup Ended

UsedByOne ==
    \A c, d \in LoginCodes, m \in Makers : HasUsed(c, m) /\ HasUsed(d, m) => c = d

IInv ==
    /\ TypeOK
    /\ Itinerary
    /\ InsertedOnce
    /\ PassedConsumed
    /\ PassesOnce
    /\ PassedWithinLimit
    /\ UsedNotFresh
    /\ UsedByOne

-----------------------------------------------------------------------------
(* A request whose statement fails is under way, and one that is failed to *)
(* end a deadlock is visiting rows.                                        *)
LEMMA Aborts ==
    ASSUME NEW r \in Requests, StatementFails(r) \/ DeadlockVictim(r)
    PROVE  /\ Running(r) /\ Abort(r)
           /\ "database" \in Faults \/ pc[r] = "rest"
  BY DEF StatementFails, DeadlockVictim, WaitsForItself, Holders, Running, Ended

-----------------------------------------------------------------------------
(* Every variable keeps its type.                                          *)
LEMMA TypeStep ==
    ASSUME TypeOK, Itinerary, [Next]_vars
    PROVE  TypeOK'
<1> USE RequestAssumption, AttemptAssumption, MethodAssumption
    DEF TypeOK, ChallengeStates, CodeStates, Steps, Ended, Requests, Rows, Openers,
        Checkers, Makers
<1>1. ASSUME NEW r \in Requests, GetStatus(r)
      PROVE  TypeOK'
  <2>1. factor # "off" => factor \in Methods
    BY <1>1
  <2> QED
    BY <2>1, <1>1 DEF Goto, GetStatus, AfterStatus
<1>2. ASSUME NEW o \in Openers, ChallengeCooldown(o)
      PROVE  TypeOK'
  BY <1>2 DEF Goto, ChallengeCooldown
<1>3. ASSUME NEW c \in Checkers, SelectChallenge(c)
      PROVE  TypeOK'
  BY <1>3 DEF Goto, SelectChallenge, ActiveChallenge, SameKind, SamePurpose
<1>4. ASSUME NEW c \in Checkers, UseRecoveryCode(c)
      PROVE  TypeOK'
  BY <1>4 DEF Goto, UseRecoveryCode, Answered
<1>5. ASSUME NEW c \in Checkers, CountAttempt(c)
      PROVE  TypeOK'
  BY <1>5 DEF Goto, CountAttempt, Usable
<1>6. ASSUME NEW c \in Checkers, ConsumeChallenge(c)
      PROVE  TypeOK'
  BY <1>6 DEF Goto, ConsumeChallenge, Answered, AfterConsume, Usable
<1>7. ASSUME NEW c \in SetupCodes, Activate(c)
      PROVE  TypeOK'
  BY <1>7 DEF Goto, Activate
<1>8. ASSUME NEW c \in DisableCodes, Recheck(c)
      PROVE  TypeOK'
  BY <1>8 DEF Goto, Recheck
<1>9. ASSUME NEW c \in DisableCodes, DisableUser(c)
      PROVE  TypeOK'
  BY <1>9 DEF Goto, DisableUser
<1>10. ASSUME NEW r \in Requests, StartBulk(r)
      PROVE  TypeOK'
  BY <1>10 DEF Goto, StartBulk, Affected, SameKind, SamePurpose
<1>11. ASSUME NEW r \in Requests, VisitRow(r)
      PROVE  TypeOK'
  BY <1>11 DEF Goto, VisitRow, Affected, SameKind, SamePurpose
<1>12. ASSUME NEW r \in Requests, InsertRow(r)
      PROVE  TypeOK'
  <2>1. Cardinality({o \in Openers : number[o] # 0}) \in Nat
    BY FS_Subset, FS_CardinalityType
  <2>2. number' \in [Openers -> Nat]
    BY <2>1, <1>12 DEF InsertRow
  <2> QED
    BY <2>2, <1>12 DEF Goto, InsertRow
<1>13. ASSUME NEW r \in Requests, Commit(r)
      PROVE  TypeOK'
  BY <1>13 DEF Goto, Commit, Answered, AfterCommit, FreeUser, Free, Inserts
<1>14. ASSUME NEW r \in Requests, Running(r), Abort(r)
      PROVE  TypeOK'
  BY <1>14 DEF Goto, Abort, FreeUser, Free, Running, Itinerary
<1>15. ASSUME NEW o \in Openers, Age(o)
      PROVE  TypeOK'
  BY <1>15 DEF Goto, Age
<1>16. ASSUME NEW o \in Openers, Expire(o)
      PROVE  TypeOK'
  BY <1>16 DEF Goto, Expire
<1>17. CASE Restart
  BY <1>17 DEF Restart, Running
<1>18. CASE UNCHANGED vars
  BY <1>18 DEF vars
<1> QED
  BY <1>1, <1>2, <1>3, <1>4, <1>5, <1>6, <1>7, <1>8, <1>9, <1>10,
     <1>11, <1>12, <1>13, <1>14, <1>15, <1>16, <1>17, <1>18, Aborts
  DEF Next, Statement, Check, Bulk, Quiet

(* What consuming a challenge changes, and where the request goes on.      *)
LEMMA ConsumeFacts ==
    ASSUME TypeOK, Itinerary, NEW c \in Checkers, ConsumeChallenge(c), Usable(seen[c])
    PROVE  /\ seen[c] \in Openers
           /\ pc[c] = "consume"
           /\ c \notin Openers \cup Regenerations
           /\ \A o \in Openers :
                 challenge'[o] = IF o = seen[c] THEN "consumed" ELSE challenge[o]
           /\ tries' = tries /\ codes' = codes /\ lock' = lock
           /\ seen' = seen /\ shown' = shown /\ undoing' = undoing
           /\ \A r \in Requests \ {c} : pc'[r] = pc[r]
           /\ pc'[c] \in {"bulk", "done", "recheck", "failed"}
           /\ c \in LoginCodes => pc'[c] \in {"done", "failed"}
<1> USE RequestAssumption DEF Disjoint, Requests, Checkers, Openers
<1>1. seen[c] \in Openers /\ c \notin Openers \cup Regenerations
  BY DEF ConsumeChallenge, Itinerary
<1>2. pc' = [pc EXCEPT ![c] = AfterConsume(c)] \/ pc' = [pc EXCEPT ![c] = "failed"]
  BY DEF ConsumeChallenge, Answered, Goto
<1>3. /\ AfterConsume(c) \in {"bulk", "done", "recheck"}
      /\ c \in LoginCodes => AfterConsume(c) = "done"
  BY DEF AfterConsume
<1> QED
  BY <1>1, <1>2, <1>3 DEF ConsumeChallenge, TypeOK

(* What selecting a challenge changes, and where the request goes on.      *)
LEMMA SelectFacts ==
    ASSUME TypeOK, NEW c \in Checkers, SelectChallenge(c)
    PROVE  /\ pc[c] = "select"
           /\ c \in Requests /\ c \notin Openers \cup Regenerations
           /\ \A r \in Requests \ {c} : pc'[r] = pc[r]
           /\ pc'[c] \in {"failed", "consume", "count", "use"}
           /\ pc'[c] = "use" => c \in LoginCodes
           /\ \A d \in Checkers \ {c} : seen'[d] = seen[d]
           /\ pc'[c] # "failed" => seen'[c] \in Openers
           /\ \A l \in LoginCodes \ {c} : shown'[l] = shown[l]
           /\ c \in LoginCodes => IF pc'[c] = "use" THEN shown'[c] \in Makers
                                   ELSE shown'[c] = shown[c]
           /\ challenge' = challenge /\ tries' = tries /\ codes' = codes
           /\ lock' = lock /\ undoing' = undoing
<1> USE RequestAssumption DEF Disjoint, Requests, Checkers, Openers
<1>1. c \in Requests /\ c \notin Openers \cup Regenerations
  OBVIOUS
<1>2. CASE seen' = seen /\ shown' = shown /\ Goto(c, "failed")
  BY <1>1, <1>2 DEF SelectChallenge, Goto, TypeOK
<1>3. CASE \E o \in Openers :
              /\ seen' = [seen EXCEPT ![c] = o]
              /\ shown' = shown
              /\ Goto(c, "failed") \/ Goto(c, "consume") \/ Goto(c, "count")
  BY <1>1, <1>3 DEF SelectChallenge, Goto, TypeOK
<1>4. CASE \E o \in Openers, m \in Makers :
              /\ seen' = [seen EXCEPT ![c] = o]
              /\ c \in LoginCodes
              /\ shown' = [shown EXCEPT ![c] = m]
              /\ Goto(c, "use")
  BY <1>1, <1>4 DEF SelectChallenge, Goto, TypeOK
<1> QED
  BY <1>2, <1>3, <1>4 DEF SelectChallenge, ActiveChallenge, SameKind, SamePurpose

(* What using a recovery code changes, and where the login goes on.        *)
LEMMA UseFacts ==
    ASSUME TypeOK, NEW c \in Checkers, UseRecoveryCode(c)
    PROVE  /\ pc[c] = "use"
           /\ c \in Requests /\ c \notin Openers \cup Regenerations
           /\ \A r \in Requests \ {c} : pc'[r] = pc[r]
           /\ pc'[c] \in {"consume", "count"}
           /\ pc'[c] = "consume" => codes[shown[c]] = "fresh"
           /\ \A m \in Makers :
                 \/ codes'[m] = codes[m] /\ (pc'[c] = "consume" => m # shown[c])
                 \/ codes[m] = "fresh" /\ codes'[m] = "used"
           /\ challenge' = challenge /\ tries' = tries /\ lock' = lock
           /\ seen' = seen /\ shown' = shown /\ undoing' = undoing
<1> USE RequestAssumption DEF Disjoint, Requests, Checkers, Openers
<1>1. c \in Requests /\ c \notin Openers \cup Regenerations
  OBVIOUS
<1>2. CASE codes[shown[c]] = "fresh"
  <2>1. codes' = [codes EXCEPT ![shown[c]] = "used"]
    BY <1>2 DEF UseRecoveryCode
  <2>2. pc' = [pc EXCEPT ![c] = "consume"] \/ pc' = [pc EXCEPT ![c] = "count"]
    BY <1>2 DEF UseRecoveryCode, Answered, Goto
  <2> QED
    BY <1>1, <1>2, <2>1, <2>2 DEF UseRecoveryCode, TypeOK
<1>3. CASE codes[shown[c]] # "fresh"
  BY <1>1, <1>3 DEF UseRecoveryCode, Goto, TypeOK
<1> QED
  BY <1>2, <1>3

(* What a commit changes, and where the request goes on.                   *)
LEMMA CommitFacts ==
    ASSUME TypeOK, NEW r \in Requests, Commit(r)
    PROVE  /\ pc[r] = "commit"
           /\ \A o \in Openers : challenge'[o] =
                 IF o = r THEN "open" ELSE IF lock[o] = r THEN "consumed" ELSE challenge[o]
           /\ \A m \in Makers : codes'[m] =
                 IF m = r /\ r \notin undoing THEN "fresh"
                 ELSE IF lock[m] = r THEN "none" ELSE codes[m]
           /\ \A i \in Rows : lock'[i] = IF lock[i] = r THEN NoRequest ELSE lock[i]
           /\ tries' = tries /\ seen' = seen /\ shown' = shown /\ undoing' = undoing
           /\ \A s \in Requests \ {r} : pc'[s] = pc[s]
           /\ pc'[r] \in {"activate", "done", "failed"}
           /\ pc'[r] = "activate" => r \in SetupCodes \ undoing
<1>1. pc' = [pc EXCEPT ![r] = AfterCommit(r)] \/ pc' = [pc EXCEPT ![r] = "failed"]
  BY DEF Commit, Answered, Goto
<1>2. /\ AfterCommit(r) \in {"activate", "done", "failed"}
      /\ AfterCommit(r) = "activate" => r \in SetupCodes \ undoing
  BY DEF AfterCommit
<1> QED
  BY <1>1, <1>2 DEF Commit, TypeOK, Inserts, Free, Rows

(* No request strays from its itinerary.                                   *)
LEMMA ItineraryStep ==
    ASSUME TypeOK, Itinerary, [Next]_vars
    PROVE  Itinerary'
<1> USE DEF Itinerary, Ended, Requests, Openers, Checkers, Makers
<1>1. ASSUME NEW r \in Requests, GetStatus(r)
      PROVE  Itinerary'
  BY <1>1, RequestAssumption DEF TypeOK, Disjoint, Rows, Goto, GetStatus, AfterStatus
<1>2. ASSUME NEW o \in Openers, ChallengeCooldown(o)
      PROVE  Itinerary'
  BY <1>2, RequestAssumption DEF TypeOK, Disjoint, Rows, Goto, ChallengeCooldown
<1>3. ASSUME NEW c \in Checkers, SelectChallenge(c)
      PROVE  Itinerary'
  BY <1>3, SelectFacts
<1>4. ASSUME NEW c \in Checkers, UseRecoveryCode(c)
      PROVE  Itinerary'
  BY <1>4, UseFacts
<1>5. ASSUME NEW c \in Checkers, CountAttempt(c)
      PROVE  Itinerary'
  BY <1>5, RequestAssumption DEF TypeOK, Disjoint, Rows, Goto, CountAttempt, Usable
<1>6. ASSUME NEW c \in Checkers, ConsumeChallenge(c)
      PROVE  Itinerary'
  <2>1. CASE ~Usable(seen[c])
    BY <2>1, <1>6, RequestAssumption DEF TypeOK, Disjoint, Goto, ConsumeChallenge
  <2>2. CASE Usable(seen[c])
    <3>1. /\ c \notin Openers /\ c \notin Regenerations
          /\ \A r \in Requests \ {c} : pc'[r] = pc[r]
          /\ pc'[c] \in {"bulk", "done", "recheck", "failed"}
          /\ c \in LoginCodes => pc'[c] \in {"done", "failed"}
      BY <2>2, <1>6, ConsumeFacts
    <3>2. seen' = seen /\ shown' = shown
      BY <2>2, <1>6, ConsumeFacts
    <3> QED
      BY <3>1, <3>2
  <2> QED
    BY <2>1, <2>2
<1>7. ASSUME NEW c \in SetupCodes, Activate(c)
      PROVE  Itinerary'
  <2>1. c \in Requests /\ c \notin Openers \cup Regenerations \cup LoginCodes \cup DisableCodes
    BY RequestAssumption DEF Disjoint
  <2>2. /\ pc[c] = "activate"
        /\ \A r \in Requests \ {c} : pc'[r] = pc[r]
        /\ pc'[c] \in {"done", "bulk"}
        /\ seen' = seen /\ shown' = shown
    BY <2>1, <1>7 DEF Activate, Goto, TypeOK
  <2> QED
    BY <2>1, <2>2
<1>8. ASSUME NEW c \in DisableCodes, Recheck(c)
      PROVE  Itinerary'
  BY <1>8, RequestAssumption DEF TypeOK, Disjoint, Rows, Goto, Recheck
<1>9. ASSUME NEW c \in DisableCodes, DisableUser(c)
      PROVE  Itinerary'
  BY <1>9, RequestAssumption DEF TypeOK, Disjoint, Rows, Goto, DisableUser
<1>10. ASSUME NEW r \in Requests, StartBulk(r)
      PROVE  Itinerary'
  BY <1>10, RequestAssumption DEF TypeOK, Disjoint, Rows, Goto, StartBulk
<1>11. ASSUME NEW r \in Requests, VisitRow(r)
      PROVE  Itinerary'
  BY <1>11, RequestAssumption DEF TypeOK, Disjoint, Rows, Goto, VisitRow
<1>12. ASSUME NEW r \in Requests, InsertRow(r)
      PROVE  Itinerary'
  BY <1>12, RequestAssumption DEF TypeOK, Disjoint, Rows, Goto, InsertRow
<1>13. ASSUME NEW r \in Requests, Commit(r)
      PROVE  Itinerary'
  BY <1>13, CommitFacts, RequestAssumption, SMTT(30) DEF Disjoint, Rows
<1>14. ASSUME NEW r \in Requests, Running(r), Abort(r)
      PROVE  Itinerary'
  BY <1>14, RequestAssumption DEF TypeOK, Disjoint, Rows, Goto, Abort,
      FreeUser, Free, Running
<1>15. ASSUME NEW o \in Openers, Age(o)
      PROVE  Itinerary'
  BY <1>15, RequestAssumption DEF TypeOK, Disjoint, Rows, Goto, Age
<1>16. ASSUME NEW o \in Openers, Expire(o)
      PROVE  Itinerary'
  BY <1>16, RequestAssumption DEF TypeOK, Disjoint, Rows, Goto, Expire
<1>17. CASE Restart
  BY <1>17, RequestAssumption DEF TypeOK, Disjoint, Rows, Restart, Running
<1>18. CASE UNCHANGED vars
  BY <1>18, RequestAssumption DEF TypeOK, Disjoint, Rows, vars
<1> QED
  BY <1>1, <1>2, <1>3, <1>4, <1>5, <1>6, <1>7, <1>8, <1>9, <1>10,
     <1>11, <1>12, <1>13, <1>14, <1>15, <1>16, <1>17, <1>18, Aborts
  DEF Next, Statement, Check, Bulk, Quiet

(* Rows are inserted once.                                                 *)
LEMMA InsertedOnceStep ==
    ASSUME TypeOK, Itinerary, InsertedOnce, [Next]_vars
    PROVE  InsertedOnce'
<1> USE DEF Itinerary, InsertedOnce, Ended, Requests, Openers, Checkers, Makers
<1>1. ASSUME NEW r \in Requests, GetStatus(r)
      PROVE  InsertedOnce'
  BY <1>1, RequestAssumption DEF TypeOK, Disjoint, Rows, Goto, GetStatus, AfterStatus
<1>2. ASSUME NEW o \in Openers, ChallengeCooldown(o)
      PROVE  InsertedOnce'
  BY <1>2, RequestAssumption DEF TypeOK, Disjoint, Rows, Goto, ChallengeCooldown
<1>3. ASSUME NEW c \in Checkers, SelectChallenge(c)
      PROVE  InsertedOnce'
  BY <1>3, SelectFacts
<1>4. ASSUME NEW c \in Checkers, UseRecoveryCode(c)
      PROVE  InsertedOnce'
  BY <1>4, UseFacts
<1>5. ASSUME NEW c \in Checkers, CountAttempt(c)
      PROVE  InsertedOnce'
  BY <1>5, RequestAssumption DEF TypeOK, Disjoint, Rows, Goto, CountAttempt, Usable
<1>6. ASSUME NEW c \in Checkers, ConsumeChallenge(c)
      PROVE  InsertedOnce'
  <2>1. CASE ~Usable(seen[c])
    BY <2>1, <1>6, RequestAssumption DEF TypeOK, Disjoint, Goto, ConsumeChallenge
  <2>2. CASE Usable(seen[c])
    <3>1. /\ c \notin Openers /\ c \notin Regenerations /\ pc[c] = "consume"
          /\ \A r \in Requests \ {c} : pc'[r] = pc[r]
          /\ pc'[c] \in {"bulk", "done", "recheck", "failed"}
          /\ c \in LoginCodes => pc'[c] \in {"done", "failed"}
      BY <2>2, <1>6, ConsumeFacts
    <3>2. /\ seen[c] \in Openers
          /\ \A o \in Openers :
                challenge'[o] = IF o = seen[c] THEN "consumed" ELSE challenge[o]
          /\ tries' = tries /\ codes' = codes /\ lock' = lock
          /\ seen' = seen /\ shown' = shown /\ undoing' = undoing
      BY <2>2, <1>6, ConsumeFacts
    <3>3. challenge[seen[c]] # "none"
      BY <2>2 DEF Usable
    <3> QED
      BY <3>1, <3>2, <3>3
  <2> QED
    BY <2>1, <2>2
<1>7. ASSUME NEW c \in SetupCodes, Activate(c)
      PROVE  InsertedOnce'
  BY <1>7, RequestAssumption DEF TypeOK, Disjoint, Rows, Goto, Activate
<1>8. ASSUME NEW c \in DisableCodes, Recheck(c)
      PROVE  InsertedOnce'
  BY <1>8, RequestAssumption DEF TypeOK, Disjoint, Rows, Goto, Recheck
<1>9. ASSUME NEW c \in DisableCodes, DisableUser(c)
      PROVE  InsertedOnce'
  BY <1>9, RequestAssumption DEF TypeOK, Disjoint, Rows, Goto, DisableUser
<1>10. ASSUME NEW r \in Requests, StartBulk(r)
      PROVE  InsertedOnce'
  BY <1>10, RequestAssumption DEF TypeOK, Disjoint, Rows, Goto, StartBulk
<1>11. ASSUME NEW r \in Requests, VisitRow(r)
      PROVE  InsertedOnce'
  BY <1>11, RequestAssumption DEF TypeOK, Disjoint, Rows, Goto, VisitRow, Affected,
      SameKind, SamePurpose
<1>12. ASSUME NEW r \in Requests, InsertRow(r)
      PROVE  InsertedOnce'
  BY <1>12, RequestAssumption DEF TypeOK, Disjoint, Rows, Goto, InsertRow
<1>13. ASSUME NEW r \in Requests, Commit(r)
      PROVE  InsertedOnce'
  BY <1>13, CommitFacts, RequestAssumption, SMTT(30) DEF Disjoint, Rows
<1>14. ASSUME NEW r \in Requests, Running(r), Abort(r)
      PROVE  InsertedOnce'
  BY <1>14, RequestAssumption DEF TypeOK, Disjoint, Rows, Goto, Abort,
      FreeUser, Free, Running
<1>15. ASSUME NEW o \in Openers, Age(o)
      PROVE  InsertedOnce'
  BY <1>15, RequestAssumption DEF TypeOK, Disjoint, Rows, Goto, Age
<1>16. ASSUME NEW o \in Openers, Expire(o)
      PROVE  InsertedOnce'
  BY <1>16, RequestAssumption DEF TypeOK, Disjoint, Rows, Goto, Expire
<1>17. CASE Restart
  BY <1>17, RequestAssumption DEF TypeOK, Disjoint, Rows, Restart, Running
<1>18. CASE UNCHANGED vars
  BY <1>18, RequestAssumption DEF TypeOK, Disjoint, Rows, vars
<1> QED
  BY <1>1, <1>2, <1>3, <1>4, <1>5, <1>6, <1>7, <1>8, <1>9, <1>10,
     <1>11, <1>12, <1>13, <1>14, <1>15, <1>16, <1>17, <1>18, Aborts
  DEF Next, Statement, Check, Bulk, Quiet

(* Of those who compare in time, the first to consume is the last.         *)
LEMMA PassedStep ==
    ASSUME TypeOK, Itinerary, InsertedOnce, PassedConsumed, PassesOnce, PassedWithinLimit,
           [Next]_vars
    PROVE  PassedConsumed' /\ PassesOnce' /\ PassedWithinLimit'
<1> USE DEF Itinerary, InsertedOnce, PassedConsumed, PassesOnce, PassedWithinLimit, Passed, Ended,
            Requests, Openers, Checkers, Makers
<1>1. ASSUME NEW r \in Requests, GetStatus(r)
      PROVE  PassedConsumed' /\ PassesOnce' /\ PassedWithinLimit'
  BY <1>1, RequestAssumption DEF TypeOK, Disjoint, Rows, Goto, GetStatus, AfterStatus
<1>2. ASSUME NEW o \in Openers, ChallengeCooldown(o)
      PROVE  PassedConsumed' /\ PassesOnce' /\ PassedWithinLimit'
  BY <1>2, RequestAssumption DEF TypeOK, Disjoint, Rows, Goto, ChallengeCooldown
<1>3. ASSUME NEW c \in Checkers, SelectChallenge(c)
      PROVE  PassedConsumed' /\ PassesOnce' /\ PassedWithinLimit'
  BY <1>3, SelectFacts
<1>4. ASSUME NEW c \in Checkers, UseRecoveryCode(c)
      PROVE  PassedConsumed' /\ PassesOnce' /\ PassedWithinLimit'
  BY <1>4, UseFacts
<1>5. ASSUME NEW c \in Checkers, CountAttempt(c)
      PROVE  PassedConsumed' /\ PassesOnce' /\ PassedWithinLimit'
  BY <1>5, RequestAssumption DEF TypeOK, Disjoint, Rows, Goto, CountAttempt, Usable
<1>6. ASSUME NEW c \in Checkers, ConsumeChallenge(c)
      PROVE  PassedConsumed' /\ PassesOnce' /\ PassedWithinLimit'
  <2>1. CASE ~Usable(seen[c])
    BY <2>1, <1>6, RequestAssumption DEF TypeOK, Disjoint, Goto, ConsumeChallenge
  <2>2. CASE Usable(seen[c])
    <3>1. /\ c \notin Openers /\ c \notin Regenerations /\ pc[c] = "consume"
          /\ \A r \in Requests \ {c} : pc'[r] = pc[r]
          /\ pc'[c] \in {"bulk", "done", "recheck", "failed"}
          /\ c \in LoginCodes => pc'[c] \in {"done", "failed"}
      BY <2>2, <1>6, ConsumeFacts
    <3>2. /\ seen[c] \in Openers
          /\ \A o \in Openers :
                challenge'[o] = IF o = seen[c] THEN "consumed" ELSE challenge[o]
          /\ tries' = tries /\ codes' = codes /\ lock' = lock
          /\ seen' = seen /\ shown' = shown /\ undoing' = undoing
      BY <2>2, <1>6, ConsumeFacts
    <3>3. challenge[seen[c]] = "open" /\ tries[seen[c]] < MaxAttempts
      BY <2>2 DEF Usable
    <3>4. \A d \in Checkers : Passed(d) => seen[d] \in Openers \ {seen[c]}
      BY <3>3 DEF TypeOK
    <3>5. \A d \in Checkers \ {c} : Passed(d)' <=> Passed(d)
      BY <3>1, <3>2
    <3> QED
      BY <3>2, <3>3, <3>4, <3>5
  <2> QED
    BY <2>1, <2>2
<1>7. ASSUME NEW c \in SetupCodes, Activate(c)
      PROVE  PassedConsumed' /\ PassesOnce' /\ PassedWithinLimit'
  BY <1>7, RequestAssumption DEF TypeOK, Disjoint, Rows, Goto, Activate
<1>8. ASSUME NEW c \in DisableCodes, Recheck(c)
      PROVE  PassedConsumed' /\ PassesOnce' /\ PassedWithinLimit'
  BY <1>8, RequestAssumption DEF TypeOK, Disjoint, Rows, Goto, Recheck
<1>9. ASSUME NEW c \in DisableCodes, DisableUser(c)
      PROVE  PassedConsumed' /\ PassesOnce' /\ PassedWithinLimit'
  BY <1>9, RequestAssumption DEF TypeOK, Disjoint, Rows, Goto, DisableUser
<1>10. ASSUME NEW r \in Requests, StartBulk(r)
      PROVE  PassedConsumed' /\ PassesOnce' /\ PassedWithinLimit'
  BY <1>10, RequestAssumption DEF TypeOK, Disjoint, Rows, Goto, StartBulk
<1>11. ASSUME NEW r \in Requests, VisitRow(r)
      PROVE  PassedConsumed' /\ PassesOnce' /\ PassedWithinLimit'
  BY <1>11, RequestAssumption DEF TypeOK, Disjoint, Rows, Goto, VisitRow
<1>12. ASSUME NEW r \in Requests, InsertRow(r)
      PROVE  PassedConsumed' /\ PassesOnce' /\ PassedWithinLimit'
  BY <1>12, RequestAssumption DEF TypeOK, Disjoint, Rows, Goto, InsertRow
<1>13. ASSUME NEW r \in Requests, Commit(r)
      PROVE  PassedConsumed' /\ PassesOnce' /\ PassedWithinLimit'
  <2>1. /\ pc[r] = "commit"
        /\ \A s \in Requests \ {r} : pc'[s] = pc[s]
        /\ UNCHANGED <<tries, seen>>
    BY <1>13, CommitFacts
  <2>2. \A o \in Openers : challenge[o] = "consumed" => challenge'[o] = "consumed"
    BY <1>13, CommitFacts
  <2>3. \A c \in Checkers : Passed(c)' => Passed(c)
    BY <2>1
  <2>4. \A c \in Checkers : Passed(c) => seen[c] \in Openers
    BY DEF TypeOK
  <2> QED
    BY <2>1, <2>2, <2>3, <2>4
<1>14. ASSUME NEW r \in Requests, Running(r), Abort(r)
      PROVE  PassedConsumed' /\ PassesOnce' /\ PassedWithinLimit'
  BY <1>14, RequestAssumption DEF TypeOK, Disjoint, Rows, Goto, Abort,
      FreeUser, Free, Running
<1>15. ASSUME NEW o \in Openers, Age(o)
      PROVE  PassedConsumed' /\ PassesOnce' /\ PassedWithinLimit'
  BY <1>15, RequestAssumption DEF TypeOK, Disjoint, Rows, Goto, Age
<1>16. ASSUME NEW o \in Openers, Expire(o)
      PROVE  PassedConsumed' /\ PassesOnce' /\ PassedWithinLimit'
  BY <1>16, RequestAssumption DEF TypeOK, Disjoint, Rows, Goto, Expire
<1>17. CASE Restart
  BY <1>17, RequestAssumption DEF TypeOK, Disjoint, Rows, Restart, Running
<1>18. CASE UNCHANGED vars
  BY <1>18, RequestAssumption DEF TypeOK, Disjoint, Rows, vars
<1> QED
  BY <1>1, <1>2, <1>3, <1>4, <1>5, <1>6, <1>7, <1>8, <1>9, <1>10,
     <1>11, <1>12, <1>13, <1>14, <1>15, <1>16, <1>17, <1>18, Aborts
  DEF Next, Statement, Check, Bulk, Quiet

(* A used recovery code is not used again.                                 *)
LEMMA UsedStep ==
    ASSUME TypeOK, Itinerary, InsertedOnce, UsedNotFresh, UsedByOne, [Next]_vars
    PROVE  UsedNotFresh' /\ UsedByOne'
<1> USE DEF Itinerary, InsertedOnce, UsedNotFresh, UsedByOne, HasUsed, Passed, Ended,
            Requests, Openers, Checkers, Makers
<1>1. ASSUME NEW r \in Requests, GetStatus(r)
      PROVE  UsedNotFresh' /\ UsedByOne'
  BY <1>1, RequestAssumption DEF TypeOK, Disjoint, Rows, Goto, GetStatus, AfterStatus
<1>2. ASSUME NEW o \in Openers, ChallengeCooldown(o)
      PROVE  UsedNotFresh' /\ UsedByOne'
  BY <1>2, RequestAssumption DEF TypeOK, Disjoint, Rows, Goto, ChallengeCooldown
<1>3. ASSUME NEW c \in Checkers, SelectChallenge(c)
      PROVE  UsedNotFresh' /\ UsedByOne'
  <2>1. \A m \in Makers : c \in LoginCodes => ~HasUsed(c, m)'
    <3>1. NoRequest \notin Makers
      BY RequestAssumption
    <3> QED
      BY <3>1, <1>3, SelectFacts
  <2>2. \A d \in LoginCodes \ {c}, m \in Makers : HasUsed(d, m)' => HasUsed(d, m)
    BY <1>3, SelectFacts
  <2>3. \A m \in Makers : pc'[m] = pc[m] \/ (m = c /\ pc[m] \notin {"activate"} \cup Ended)
    BY <1>3, SelectFacts
  <2>4. codes' = codes /\ undoing' = undoing
    BY <1>3, SelectFacts
  <2> QED
    BY <2>1, <2>2, <2>3, <2>4
<1>4. ASSUME NEW c \in Checkers, UseRecoveryCode(c)
      PROVE  UsedNotFresh' /\ UsedByOne'
  BY <1>4, UseFacts
<1>5. ASSUME NEW c \in Checkers, CountAttempt(c)
      PROVE  UsedNotFresh' /\ UsedByOne'
  BY <1>5, RequestAssumption DEF TypeOK, Disjoint, Rows, Goto, CountAttempt, Usable
<1>6. ASSUME NEW c \in Checkers, ConsumeChallenge(c)
      PROVE  UsedNotFresh' /\ UsedByOne'
  <2>1. CASE ~Usable(seen[c])
    BY <2>1, <1>6, RequestAssumption DEF TypeOK, Disjoint, Goto, ConsumeChallenge
  <2>2. CASE Usable(seen[c])
    <3>1. /\ c \notin Openers /\ c \notin Regenerations /\ pc[c] = "consume"
          /\ \A r \in Requests \ {c} : pc'[r] = pc[r]
          /\ pc'[c] \in {"bulk", "done", "recheck", "failed"}
          /\ c \in LoginCodes => pc'[c] \in {"done", "failed"}
      BY <2>2, <1>6, ConsumeFacts
    <3>2. /\ seen[c] \in Openers
          /\ \A o \in Openers :
                challenge'[o] = IF o = seen[c] THEN "consumed" ELSE challenge[o]
          /\ tries' = tries /\ codes' = codes /\ lock' = lock
          /\ seen' = seen /\ shown' = shown /\ undoing' = undoing
      BY <2>2, <1>6, ConsumeFacts
    <3> QED
      BY <3>1, <3>2
  <2> QED
    BY <2>1, <2>2
<1>7. ASSUME NEW c \in SetupCodes, Activate(c)
      PROVE  UsedNotFresh' /\ UsedByOne'
  BY <1>7, RequestAssumption DEF TypeOK, Disjoint, Rows, Goto, Activate
<1>8. ASSUME NEW c \in DisableCodes, Recheck(c)
      PROVE  UsedNotFresh' /\ UsedByOne'
  BY <1>8, RequestAssumption DEF TypeOK, Disjoint, Rows, Goto, Recheck
<1>9. ASSUME NEW c \in DisableCodes, DisableUser(c)
      PROVE  UsedNotFresh' /\ UsedByOne'
  BY <1>9, RequestAssumption DEF TypeOK, Disjoint, Rows, Goto, DisableUser
<1>10. ASSUME NEW r \in Requests, StartBulk(r)
      PROVE  UsedNotFresh' /\ UsedByOne'
  BY <1>10, RequestAssumption DEF TypeOK, Disjoint, Rows, Goto, StartBulk
<1>11. ASSUME NEW r \in Requests, VisitRow(r)
      PROVE  UsedNotFresh' /\ UsedByOne'
  BY <1>11, RequestAssumption DEF TypeOK, Disjoint, Rows, Goto, VisitRow
<1>12. ASSUME NEW r \in Requests, InsertRow(r)
      PROVE  UsedNotFresh' /\ UsedByOne'
  BY <1>12, RequestAssumption DEF TypeOK, Disjoint, Rows, Goto, InsertRow
<1>13. ASSUME NEW r \in Requests, Commit(r)
      PROVE  UsedNotFresh' /\ UsedByOne'
  BY <1>13, CommitFacts, RequestAssumption, SMTT(30) DEF Disjoint, Rows
<1>14. ASSUME NEW r \in Requests, Running(r), Abort(r)
      PROVE  UsedNotFresh' /\ UsedByOne'
  BY <1>14, RequestAssumption DEF TypeOK, Disjoint, Rows, Goto, Abort,
      FreeUser, Free, Running
<1>15. ASSUME NEW o \in Openers, Age(o)
      PROVE  UsedNotFresh' /\ UsedByOne'
  BY <1>15, RequestAssumption DEF TypeOK, Disjoint, Rows, Goto, Age
<1>16. ASSUME NEW o \in Openers, Expire(o)
      PROVE  UsedNotFresh' /\ UsedByOne'
  BY <1>16, RequestAssumption DEF TypeOK, Disjoint, Rows, Goto, Expire
<1>17. CASE Restart
  BY <1>17, RequestAssumption DEF TypeOK, Disjoint, Rows, Restart, Running
<1>18. CASE UNCHANGED vars
  BY <1>18, RequestAssumption DEF TypeOK, Disjoint, Rows, vars
<1> QED
  BY <1>1, <1>2, <1>3, <1>4, <1>5, <1>6, <1>7, <1>8, <1>9, <1>10,
     <1>11, <1>12, <1>13, <1>14, <1>15, <1>16, <1>17, <1>18, Aborts
  DEF Next, Statement, Check, Bulk, Quiet

(* The inductive invariant holds in every reachable state.                 *)
THEOREM Invariance == Spec => []IInv
<1>1. Init => IInv
  BY RequestAssumption, AttemptAssumption, MethodAssumption
  DEF Init, IInv, TypeOK, ChallengeStates, CodeStates, Steps, Ended, Itinerary,
      InsertedOnce, PassedConsumed, PassesOnce, PassedWithinLimit, UsedNotFresh, UsedByOne,
      HasUsed, Passed, Disjoint, Requests, Rows, Openers, Checkers, Makers
<1>2. IInv /\ [Next]_vars => IInv'
  BY TypeStep, ItineraryStep, InsertedOnceStep, PassedStep, UsedStep DEF IInv
<1> QED
  BY <1>1, <1>2, PTL DEF Spec

(* Every variable keeps its type: among other things no challenge counts   *)
(* more attempts than it allows, for all requests and faults.              *)
THEOREM TypeCorrect == Spec => []TypeOK
<1>1. IInv => TypeOK
  BY DEF IInv
<1> QED
  BY Invariance, <1>1, PTL

(* However many requests hold the right code of a challenge at the same    *)
(* time, ConsumeActiveChallenge lets one of them pass.                     *)
THEOREM OnePasses == Spec => []PassesOnce
<1>1. IInv => PassesOnce
  BY DEF IInv
<1> QED
  BY Invariance, <1>1, PTL

(* Attempts that are compared late do not get past the limit.              *)
THEOREM LimitHolds == Spec => []PassedWithinLimit
<1>1. IInv => PassedWithinLimit
  BY DEF IInv
<1> QED
  BY Invariance, <1>1, PTL

(* A recovery code completes one login, whatever becomes of its set.       *)
THEOREM OneLoginPerCode == Spec => []RecoveryCodeOnce
<1>1. IInv => RecoveryCodeOnce
  BY DEF IInv, TypeOK, UsedByOne, HasUsed, RecoveryCodeOnce
<1> QED
  BY Invariance, <1>1, PTL

-----------------------------------------------------------------------------
(* What becomes of the recovery codes of a setup.  They are committed      *)
(* before the activation, which needs the row of the user; whoever         *)
(* disables holds that row while it deletes them.                          *)
UndoingGoesOn ==
    \A v \in undoing : pc[v] \in {"bulk", "rest", "commit", "failed", "dead"}

(* This one without faults.                                                *)
MadeBeforeActivation ==
    /\ undoing = {}
    /\ \A v \in SetupCodes : codes[v] # "none" => pc[v] \in {"activate", "done"}

DisablerHoldsUser ==
    \A x \in DisableCodes : userLock = x <=> pc[x] \in {"bulk", "rest", "commit"}

(* The holder has locked, or is still going to visit, the codes of every   *)
(* setup that is complete.                                                 *)
DisablerReachesAll ==
    \A x \in DisableCodes, v \in SetupCodes :
        userLock = x /\ codes[v] # "none" /\ pc[v] = "done" =>
            /\ pc[x] = "rest" => v \in rest[x] \/ lock[v] = x
            /\ pc[x] = "commit" => lock[v] = x

OffWithoutCodes ==
    factor = "off" => \A v \in SetupCodes : pc[v] = "done" => codes[v] = "none"

DisableInv ==
    /\ TypeOK
    /\ Itinerary
    /\ InsertedOnce
    /\ UndoingGoesOn
    /\ Faults = {} => MadeBeforeActivation
    /\ DisablerHoldsUser
    /\ DisablerReachesAll
    /\ OffWithoutCodes

(* A setup whose activation failed goes on to fail.                        *)
LEMMA UndoingStep ==
    ASSUME TypeOK, Itinerary, UndoingGoesOn, [Next]_vars
    PROVE  UndoingGoesOn'
<1> USE RequestAssumption
    DEF TypeOK, Itinerary, UndoingGoesOn, Ended, Disjoint, Requests, Rows, Openers,
        Checkers, Makers
<1>1. ASSUME NEW r \in Requests, GetStatus(r)
      PROVE  UndoingGoesOn'
  BY <1>1 DEF Goto, GetStatus, AfterStatus
<1>2. ASSUME NEW o \in Openers, ChallengeCooldown(o)
      PROVE  UndoingGoesOn'
  BY <1>2 DEF Goto, ChallengeCooldown
<1>3. ASSUME NEW c \in Checkers, SelectChallenge(c)
      PROVE  UndoingGoesOn'
  BY <1>3 DEF Goto, SelectChallenge
<1>4. ASSUME NEW c \in Checkers, UseRecoveryCode(c)
      PROVE  UndoingGoesOn'
  BY <1>4 DEF Goto, UseRecoveryCode, Answered
<1>5. ASSUME NEW c \in Checkers, CountAttempt(c)
      PROVE  UndoingGoesOn'
  BY <1>5 DEF Goto, CountAttempt, Usable
<1>6. ASSUME NEW c \in Checkers, ConsumeChallenge(c)
      PROVE  UndoingGoesOn'
  BY <1>6 DEF Goto, ConsumeChallenge, Answered, AfterConsume, Usable
<1>7. ASSUME NEW c \in SetupCodes, Activate(c)
      PROVE  UndoingGoesOn'
  BY <1>7 DEF Goto, Activate
<1>8. ASSUME NEW c \in DisableCodes, Recheck(c)
      PROVE  UndoingGoesOn'
  BY <1>8 DEF Goto, Recheck
<1>9. ASSUME NEW c \in DisableCodes, DisableUser(c)
      PROVE  UndoingGoesOn'
  BY <1>9 DEF Goto, DisableUser
<1>10. ASSUME NEW r \in Requests, StartBulk(r)
      PROVE  UndoingGoesOn'
  BY <1>10 DEF Goto, StartBulk
<1>11. ASSUME NEW r \in Requests, VisitRow(r)
      PROVE  UndoingGoesOn'
  BY <1>11 DEF Goto, VisitRow
<1>12. ASSUME NEW r \in Requests, InsertRow(r)
      PROVE  UndoingGoesOn'
  BY <1>12 DEF Goto, InsertRow
<1>13. ASSUME NEW r \in Requests, Commit(r)
      PROVE  UndoingGoesOn'
  BY <1>13 DEF Goto, Commit, Answered, AfterCommit, FreeUser, Free, Inserts
<1>14. ASSUME NEW r \in Requests, Running(r), Abort(r)
      PROVE  UndoingGoesOn'
  BY <1>14 DEF Goto, Abort, FreeUser, Free, Running
<1>15. ASSUME NEW o \in Openers, Age(o)
      PROVE  UndoingGoesOn'
  BY <1>15 DEF Age
<1>16. ASSUME NEW o \in Openers, Expire(o)
      PROVE  UndoingGoesOn'
  BY <1>16 DEF Expire
<1>17. CASE Restart
  BY <1>17 DEF Restart, Running
<1>18. CASE UNCHANGED vars
  BY <1>18 DEF vars
<1> QED
  BY <1>1, <1>2, <1>3, <1>4, <1>5, <1>6, <1>7, <1>8, <1>9, <1>10,
     <1>11, <1>12, <1>13, <1>14, <1>15, <1>16, <1>17, <1>18, Aborts
  DEF Next, Statement, Check, Bulk, Quiet

(* A setup that has made its codes goes on to activate.                    *)
LEMMA MadeStep ==
    ASSUME Faults = {}, TypeOK, Itinerary, InsertedOnce, MadeBeforeActivation, [Next]_vars
    PROVE  MadeBeforeActivation'
<1> USE RequestAssumption
    DEF TypeOK, Itinerary, MadeBeforeActivation, Ended, Disjoint, Requests, Rows, Openers,
        Checkers, Makers
<1>1. ASSUME NEW r \in Requests, GetStatus(r)
      PROVE  MadeBeforeActivation'
  BY <1>1 DEF Goto, GetStatus, AfterStatus
<1>2. ASSUME NEW o \in Openers, ChallengeCooldown(o)
      PROVE  MadeBeforeActivation'
  BY <1>2 DEF Goto, ChallengeCooldown
<1>3. ASSUME NEW c \in Checkers, SelectChallenge(c)
      PROVE  MadeBeforeActivation'
  BY <1>3 DEF Goto, SelectChallenge
<1>4. ASSUME NEW c \in Checkers, UseRecoveryCode(c)
      PROVE  MadeBeforeActivation'
  BY <1>4 DEF Goto, UseRecoveryCode, Answered
<1>5. ASSUME NEW c \in Checkers, CountAttempt(c)
      PROVE  MadeBeforeActivation'
  BY <1>5 DEF Goto, CountAttempt, Usable
<1>6. ASSUME NEW c \in Checkers, ConsumeChallenge(c)
      PROVE  MadeBeforeActivation'
  BY <1>6 DEF Goto, ConsumeChallenge, Answered, AfterConsume, Usable
<1>7. ASSUME NEW c \in SetupCodes, Activate(c)
      PROVE  MadeBeforeActivation'
  BY <1>7 DEF Goto, Activate
<1>8. ASSUME NEW c \in DisableCodes, Recheck(c)
      PROVE  MadeBeforeActivation'
  BY <1>8 DEF Goto, Recheck
<1>9. ASSUME NEW c \in DisableCodes, DisableUser(c)
      PROVE  MadeBeforeActivation'
  BY <1>9 DEF Goto, DisableUser
<1>10. ASSUME NEW r \in Requests, StartBulk(r)
      PROVE  MadeBeforeActivation'
  BY <1>10 DEF Goto, StartBulk
<1>11. ASSUME NEW r \in Requests, VisitRow(r)
      PROVE  MadeBeforeActivation'
  BY <1>11 DEF Goto, VisitRow
<1>12. ASSUME NEW r \in Requests, InsertRow(r)
      PROVE  MadeBeforeActivation'
  BY <1>12 DEF Goto, InsertRow
<1>13. ASSUME NEW r \in Requests, Commit(r)
      PROVE  MadeBeforeActivation'
  BY <1>13 DEF Goto, Commit, Answered, AfterCommit, FreeUser, Free, Inserts
<1>14. ASSUME NEW r \in Requests, pc[r] = "rest", Abort(r)
      PROVE  MadeBeforeActivation'
  BY <1>14 DEF Abort, Goto
<1>15. ASSUME NEW o \in Openers, Age(o)
      PROVE  MadeBeforeActivation'
  BY <1>15 DEF Goto, Age
<1>16. ASSUME NEW o \in Openers, Expire(o)
      PROVE  MadeBeforeActivation'
  BY <1>16 DEF Goto, Expire
<1>17. CASE Restart
  BY <1>17 DEF Restart, Running
<1>18. CASE UNCHANGED vars
  BY <1>18 DEF vars
<1> QED
  BY <1>1, <1>2, <1>3, <1>4, <1>5, <1>6, <1>7, <1>8, <1>9, <1>10,
     <1>11, <1>12, <1>13, <1>14, <1>15, <1>16, <1>17, <1>18, Aborts
  DEF Next, Statement, Check, Bulk, Quiet

(* The row of the user stays with the request that disables.               *)
LEMMA HoldsStep ==
    ASSUME TypeOK, Itinerary, DisablerHoldsUser, [Next]_vars
    PROVE  DisablerHoldsUser'
<1> USE RequestAssumption
    DEF TypeOK, Itinerary, DisablerHoldsUser, Ended, Disjoint,
        Requests, Rows, Openers, Checkers, Makers
<1>1. ASSUME NEW r \in Requests, GetStatus(r)
      PROVE  DisablerHoldsUser'
  BY <1>1 DEF Goto, GetStatus, AfterStatus
<1>2. ASSUME NEW o \in Openers, ChallengeCooldown(o)
      PROVE  DisablerHoldsUser'
  BY <1>2 DEF Goto, ChallengeCooldown
<1>3. ASSUME NEW c \in Checkers, SelectChallenge(c)
      PROVE  DisablerHoldsUser'
  BY <1>3 DEF Goto, SelectChallenge
<1>4. ASSUME NEW c \in Checkers, UseRecoveryCode(c)
      PROVE  DisablerHoldsUser'
  BY <1>4 DEF Goto, UseRecoveryCode, Answered
<1>5. ASSUME NEW c \in Checkers, CountAttempt(c)
      PROVE  DisablerHoldsUser'
  BY <1>5 DEF Goto, CountAttempt, Usable
<1>6. ASSUME NEW c \in Checkers, ConsumeChallenge(c)
      PROVE  DisablerHoldsUser'
  BY <1>6 DEF Goto, ConsumeChallenge, Answered, AfterConsume, Usable
<1>7. ASSUME NEW c \in SetupCodes, Activate(c)
      PROVE  DisablerHoldsUser'
  BY <1>7 DEF Goto, Activate
<1>8. ASSUME NEW c \in DisableCodes, Recheck(c)
      PROVE  DisablerHoldsUser'
  BY <1>8 DEF Goto, Recheck
<1>9. ASSUME NEW c \in DisableCodes, DisableUser(c)
      PROVE  DisablerHoldsUser'
  BY <1>9 DEF Goto, DisableUser
<1>10. ASSUME NEW r \in Requests, StartBulk(r)
      PROVE  DisablerHoldsUser'
  BY <1>10 DEF Goto, StartBulk
<1>11. ASSUME NEW r \in Requests, VisitRow(r)
      PROVE  DisablerHoldsUser'
  BY <1>11 DEF Goto, VisitRow
<1>12. ASSUME NEW r \in Requests, InsertRow(r)
      PROVE  DisablerHoldsUser'
  BY <1>12 DEF Goto, InsertRow
<1>13. ASSUME NEW r \in Requests, Commit(r)
      PROVE  DisablerHoldsUser'
  BY <1>13 DEF Goto, Commit, Answered, AfterCommit, FreeUser, Free, Inserts
<1>14. ASSUME NEW r \in Requests, Running(r), Abort(r)
      PROVE  DisablerHoldsUser'
  BY <1>14 DEF Goto, Abort, FreeUser, Free, Running
<1>15. ASSUME NEW o \in Openers, Age(o)
      PROVE  DisablerHoldsUser'
  BY <1>15 DEF Goto, Age
<1>16. ASSUME NEW o \in Openers, Expire(o)
      PROVE  DisablerHoldsUser'
  BY <1>16 DEF Goto, Expire
<1>17. CASE Restart
  BY <1>17 DEF Restart, Running
<1>18. CASE UNCHANGED vars
  BY <1>18 DEF vars
<1> QED
  BY <1>1, <1>2, <1>3, <1>4, <1>5, <1>6, <1>7, <1>8, <1>9, <1>10,
     <1>11, <1>12, <1>13, <1>14, <1>15, <1>16, <1>17, <1>18, Aborts
  DEF Next, Statement, Check, Bulk, Quiet

(* Nothing escapes the request that disables.                              *)
LEMMA ReachesStep ==
    ASSUME TypeOK, Itinerary, DisablerHoldsUser, DisablerReachesAll, [Next]_vars
    PROVE  DisablerReachesAll'
<1> USE RequestAssumption
    DEF TypeOK, Itinerary, DisablerReachesAll, Ended, Disjoint,
        Requests, Rows, Openers, Checkers, Makers
<1>1. ASSUME NEW r \in Requests, GetStatus(r)
      PROVE  DisablerReachesAll'
  BY <1>1 DEF Goto, GetStatus, AfterStatus
<1>2. ASSUME NEW o \in Openers, ChallengeCooldown(o)
      PROVE  DisablerReachesAll'
  BY <1>2 DEF Goto, ChallengeCooldown
<1>3. ASSUME NEW c \in Checkers, SelectChallenge(c)
      PROVE  DisablerReachesAll'
  BY <1>3 DEF Goto, SelectChallenge
<1>4. ASSUME NEW c \in Checkers, UseRecoveryCode(c)
      PROVE  DisablerReachesAll'
  BY <1>4 DEF Goto, UseRecoveryCode, Answered
<1>5. ASSUME NEW c \in Checkers, CountAttempt(c)
      PROVE  DisablerReachesAll'
  BY <1>5 DEF Goto, CountAttempt, Usable
<1>6. ASSUME NEW c \in Checkers, ConsumeChallenge(c)
      PROVE  DisablerReachesAll'
  BY <1>6 DEF Goto, ConsumeChallenge, Answered, AfterConsume, Usable
<1>7. ASSUME NEW c \in SetupCodes, Activate(c)
      PROVE  DisablerReachesAll'
  BY <1>7 DEF Goto, Activate
<1>8. ASSUME NEW c \in DisableCodes, Recheck(c)
      PROVE  DisablerReachesAll'
  BY <1>8 DEF Goto, Recheck
<1>9. ASSUME NEW c \in DisableCodes, DisableUser(c)
      PROVE  DisablerReachesAll'
  BY <1>9 DEF Goto, DisableUser, DisablerHoldsUser
<1>10. ASSUME NEW r \in Requests, StartBulk(r)
      PROVE  DisablerReachesAll'
  BY <1>10 DEF Goto, StartBulk, Affected
<1>11. ASSUME NEW r \in Requests, VisitRow(r)
      PROVE  DisablerReachesAll'
  BY <1>11 DEF Goto, VisitRow, Affected
<1>12. ASSUME NEW r \in Requests, InsertRow(r)
      PROVE  DisablerReachesAll'
  BY <1>12 DEF Goto, InsertRow
<1>13. ASSUME NEW r \in Requests, Commit(r)
      PROVE  DisablerReachesAll'
  BY <1>13 DEF Goto, Commit, Answered, AfterCommit, FreeUser, Free, Inserts
<1>14. ASSUME NEW r \in Requests, Running(r), Abort(r)
      PROVE  DisablerReachesAll'
  BY <1>14 DEF Goto, Abort, FreeUser, Free, Running
<1>15. ASSUME NEW o \in Openers, Age(o)
      PROVE  DisablerReachesAll'
  BY <1>15 DEF Goto, Age
<1>16. ASSUME NEW o \in Openers, Expire(o)
      PROVE  DisablerReachesAll'
  BY <1>16 DEF Goto, Expire
<1>17. CASE Restart
  BY <1>17 DEF Restart, Running
<1>18. CASE UNCHANGED vars
  BY <1>18 DEF vars
<1> QED
  BY <1>1, <1>2, <1>3, <1>4, <1>5, <1>6, <1>7, <1>8, <1>9, <1>10,
     <1>11, <1>12, <1>13, <1>14, <1>15, <1>16, <1>17, <1>18, Aborts
  DEF Next, Statement, Check, Bulk, Quiet

(* The factor goes off together with the codes.                            *)
LEMMA OffStep ==
    ASSUME TypeOK, Itinerary, InsertedOnce, UndoingGoesOn, DisablerHoldsUser,
           DisablerReachesAll, OffWithoutCodes, [Next]_vars
    PROVE  OffWithoutCodes'
<1> USE RequestAssumption, MethodAssumption
    DEF TypeOK, Itinerary, OffWithoutCodes, Ended, Disjoint,
        Requests, Rows, Openers, Checkers, Makers
<1>1. ASSUME NEW r \in Requests, GetStatus(r)
      PROVE  OffWithoutCodes'
  BY <1>1 DEF Goto, GetStatus, AfterStatus
<1>2. ASSUME NEW o \in Openers, ChallengeCooldown(o)
      PROVE  OffWithoutCodes'
  BY <1>2 DEF Goto, ChallengeCooldown
<1>3. ASSUME NEW c \in Checkers, SelectChallenge(c)
      PROVE  OffWithoutCodes'
  BY <1>3 DEF Goto, SelectChallenge
<1>4. ASSUME NEW c \in Checkers, UseRecoveryCode(c)
      PROVE  OffWithoutCodes'
  BY <1>4 DEF Goto, UseRecoveryCode, Answered
<1>5. ASSUME NEW c \in Checkers, CountAttempt(c)
      PROVE  OffWithoutCodes'
  BY <1>5 DEF Goto, CountAttempt, Usable
<1>6. ASSUME NEW c \in Checkers, ConsumeChallenge(c)
      PROVE  OffWithoutCodes'
  BY <1>6 DEF Goto, ConsumeChallenge, Answered, AfterConsume, Usable
<1>7. ASSUME NEW c \in SetupCodes, Activate(c)
      PROVE  OffWithoutCodes'
  BY <1>7 DEF Goto, Activate
<1>8. ASSUME NEW c \in DisableCodes, Recheck(c)
      PROVE  OffWithoutCodes'
  BY <1>8 DEF Goto, Recheck
<1>9. ASSUME NEW c \in DisableCodes, DisableUser(c)
      PROVE  OffWithoutCodes'
  BY <1>9 DEF Goto, DisableUser
<1>10. ASSUME NEW r \in Requests, StartBulk(r)
      PROVE  OffWithoutCodes'
  BY <1>10 DEF Goto, StartBulk
<1>11. ASSUME NEW r \in Requests, VisitRow(r)
      PROVE  OffWithoutCodes'
  BY <1>11 DEF Goto, VisitRow
<1>12. ASSUME NEW r \in Requests, InsertRow(r)
      PROVE  OffWithoutCodes'
  BY <1>12 DEF Goto, InsertRow
<1>13. ASSUME NEW r \in Requests, Commit(r)
      PROVE  OffWithoutCodes'
  BY <1>13 DEF Goto, Commit, Answered, AfterCommit, FreeUser, Free, Inserts,
      DisablerHoldsUser, DisablerReachesAll
<1>14. ASSUME NEW r \in Requests, Running(r), Abort(r)
      PROVE  OffWithoutCodes'
  BY <1>14 DEF Goto, Abort, FreeUser, Free, Running
<1>15. ASSUME NEW o \in Openers, Age(o)
      PROVE  OffWithoutCodes'
  BY <1>15 DEF Goto, Age
<1>16. ASSUME NEW o \in Openers, Expire(o)
      PROVE  OffWithoutCodes'
  BY <1>16 DEF Goto, Expire
<1>17. CASE Restart
  BY <1>17 DEF Restart, Running
<1>18. CASE UNCHANGED vars
  BY <1>18 DEF vars
<1> QED
  BY <1>1, <1>2, <1>3, <1>4, <1>5, <1>6, <1>7, <1>8, <1>9, <1>10,
     <1>11, <1>12, <1>13, <1>14, <1>15, <1>16, <1>17, <1>18, Aborts
  DEF Next, Statement, Check, Bulk, Quiet

(* With the factor off and no request in flight a setup that was completed *)
(* leaves no recovery codes behind, and as long as the server runs and the *)
(* database answers no other setup does either.                            *)
THEOREM LeftoverOnlyRegenerated == Spec => []LeftoverCodesAreRegenerated
<1>1. Init => DisableInv
  BY RequestAssumption, AttemptAssumption, MethodAssumption
  DEF Init, DisableInv, TypeOK, ChallengeStates, CodeStates, Steps, Ended, Itinerary,
      InsertedOnce, UndoingGoesOn,
      MadeBeforeActivation, DisablerHoldsUser, DisablerReachesAll, OffWithoutCodes,
      Disjoint, Requests, Rows, Openers, Checkers, Makers
<1>2. DisableInv /\ [Next]_vars => DisableInv'
  BY TypeStep, ItineraryStep, InsertedOnceStep, UndoingStep, MadeStep, HoldsStep, ReachesStep,
     OffStep DEF DisableInv
<1>3. DisableInv => LeftoverCodesAreRegenerated
  <2> SUFFICES ASSUME DisableInv, factor = "off", \A r \in Requests : ~Running(r),
                      NEW v \in SetupCodes, codes[v] # "none"
               PROVE  Faults # {} /\ pc[v] \in {"failed", "dead"}
    BY DEF LeftoverCodesAreRegenerated
  <2>1. v \in Requests /\ v \in Makers /\ ~Running(v)
    BY DEF Requests, Checkers, Makers
  <2>2. v \in undoing \/ pc[v] \in {"activate", "done", "failed", "dead"}
    BY <2>1 DEF DisableInv, InsertedOnce, Ended
  <2>3. pc[v] # "done"
    BY DEF DisableInv, OffWithoutCodes
  <2>4. pc[v] \in {"failed", "dead"}
    BY <2>1, <2>2, <2>3 DEF DisableInv, UndoingGoesOn, Running, Ended
  <2>5. Faults # {}
    BY <2>4 DEF DisableInv, MadeBeforeActivation
  <2> QED
    BY <2>4, <2>5
<1> QED
  BY <1>1, <1>2, <1>3, PTL DEF Spec

-----------------------------------------------------------------------------
(* The refinement.  What the mapping needs beyond the invariant: a checker *)
(* that came in did so by a challenge meant for it, and a lock tells who   *)
(* is going to write the row.                                              *)
SeenFits ==
    \A c \in Checkers :
        /\ seen[c] # NoRequest =>
              /\ seen[c] \in SamePurpose(c)
              /\ c \in SetupCodes => method[seen[c]] = method[c]
        /\ pc[c] \in {"recheck", "user", "bulk", "rest", "commit", "activate"} =>
              seen[c] \in Openers
        /\ pc[c] = "use" => c \in LoginCodes

LocksFit ==
    \A i \in Rows : lock[i] # NoRequest =>
        IF lock[i] \in Openers THEN i \in SamePurpose(lock[i])
        ELSE i \in Makers /\ codes[i] # "none"

GateInv ==
    /\ TypeOK
    /\ Itinerary
    /\ InsertedOnce
    /\ DisablerHoldsUser
    /\ SeenFits
    /\ LocksFit

(* A checker selects what was meant for it.                                *)
LEMMA SeenStep ==
    ASSUME TypeOK, Itinerary, SeenFits, [Next]_vars
    PROVE  SeenFits'
<1> USE RequestAssumption
    DEF TypeOK, Itinerary, SeenFits, SamePurpose, Ended, Disjoint, Requests, Rows,
        Openers, Checkers, Makers
<1>1. ASSUME NEW r \in Requests, GetStatus(r)
      PROVE  SeenFits'
  BY <1>1 DEF Goto, GetStatus, AfterStatus
<1>2. ASSUME NEW o \in Openers, ChallengeCooldown(o)
      PROVE  SeenFits'
  BY <1>2 DEF Goto, ChallengeCooldown
<1>3. ASSUME NEW c \in Checkers, SelectChallenge(c)
      PROVE  SeenFits'
  BY <1>3 DEF Goto, SelectChallenge, ActiveChallenge, SameKind
<1>4. ASSUME NEW c \in Checkers, UseRecoveryCode(c)
      PROVE  SeenFits'
  BY <1>4 DEF Goto, UseRecoveryCode, Answered
<1>5. ASSUME NEW c \in Checkers, CountAttempt(c)
      PROVE  SeenFits'
  BY <1>5 DEF Goto, CountAttempt, Usable
<1>6. ASSUME NEW c \in Checkers, ConsumeChallenge(c)
      PROVE  SeenFits'
  BY <1>6 DEF Goto, ConsumeChallenge, Answered, AfterConsume, Usable
<1>7. ASSUME NEW c \in SetupCodes, Activate(c)
      PROVE  SeenFits'
  BY <1>7 DEF Goto, Activate
<1>8. ASSUME NEW c \in DisableCodes, Recheck(c)
      PROVE  SeenFits'
  BY <1>8 DEF Goto, Recheck
<1>9. ASSUME NEW c \in DisableCodes, DisableUser(c)
      PROVE  SeenFits'
  BY <1>9 DEF Goto, DisableUser
<1>10. ASSUME NEW r \in Requests, StartBulk(r)
      PROVE  SeenFits'
  BY <1>10 DEF Goto, StartBulk
<1>11. ASSUME NEW r \in Requests, VisitRow(r)
      PROVE  SeenFits'
  BY <1>11 DEF Goto, VisitRow
<1>12. ASSUME NEW r \in Requests, InsertRow(r)
      PROVE  SeenFits'
  BY <1>12 DEF Goto, InsertRow
<1>13. ASSUME NEW r \in Requests, Commit(r)
      PROVE  SeenFits'
  BY <1>13 DEF Goto, Commit, Answered, AfterCommit, FreeUser, Free, Inserts
<1>14. ASSUME NEW r \in Requests, Running(r), Abort(r)
      PROVE  SeenFits'
  BY <1>14 DEF Goto, Abort, FreeUser, Free, Running
<1>15. ASSUME NEW o \in Openers, Age(o)
      PROVE  SeenFits'
  BY <1>15 DEF Age
<1>16. ASSUME NEW o \in Openers, Expire(o)
      PROVE  SeenFits'
  BY <1>16 DEF Expire
<1>17. CASE Restart
  BY <1>17 DEF Restart, Running
<1>18. CASE UNCHANGED vars
  BY <1>18 DEF vars
<1> QED
  BY <1>1, <1>2, <1>3, <1>4, <1>5, <1>6, <1>7, <1>8, <1>9, <1>10,
     <1>11, <1>12, <1>13, <1>14, <1>15, <1>16, <1>17, <1>18, Aborts
  DEF Next, Statement, Check, Bulk, Quiet

(* Every row is locked by a request that may write it.                     *)
LEMMA LockStep ==
    ASSUME TypeOK, Itinerary, InsertedOnce, LocksFit, [Next]_vars
    PROVE  LocksFit'
<1> USE RequestAssumption
    DEF TypeOK, Itinerary, InsertedOnce, LocksFit, SamePurpose, Ended, Disjoint,
        Requests, Rows, Openers, Checkers, Makers
<1>1. ASSUME NEW r \in Requests, GetStatus(r)
      PROVE  LocksFit'
  BY <1>1 DEF Goto, GetStatus, AfterStatus
<1>2. ASSUME NEW o \in Openers, ChallengeCooldown(o)
      PROVE  LocksFit'
  BY <1>2 DEF Goto, ChallengeCooldown
<1>3. ASSUME NEW c \in Checkers, SelectChallenge(c)
      PROVE  LocksFit'
  BY <1>3 DEF Goto, SelectChallenge
<1>4. ASSUME NEW c \in Checkers, UseRecoveryCode(c)
      PROVE  LocksFit'
  BY <1>4 DEF Goto, UseRecoveryCode, Answered
<1>5. ASSUME NEW c \in Checkers, CountAttempt(c)
      PROVE  LocksFit'
  BY <1>5 DEF Goto, CountAttempt, Usable
<1>6. ASSUME NEW c \in Checkers, ConsumeChallenge(c)
      PROVE  LocksFit'
  BY <1>6 DEF Goto, ConsumeChallenge, Answered, AfterConsume, Usable
<1>7. ASSUME NEW c \in SetupCodes, Activate(c)
      PROVE  LocksFit'
  BY <1>7 DEF Goto, Activate
<1>8. ASSUME NEW c \in DisableCodes, Recheck(c)
      PROVE  LocksFit'
  BY <1>8 DEF Goto, Recheck
<1>9. ASSUME NEW c \in DisableCodes, DisableUser(c)
      PROVE  LocksFit'
  BY <1>9 DEF Goto, DisableUser
<1>10. ASSUME NEW r \in Requests, StartBulk(r)
      PROVE  LocksFit'
  BY <1>10 DEF Goto, StartBulk
<1>11. ASSUME NEW r \in Requests, VisitRow(r)
      PROVE  LocksFit'
  BY <1>11 DEF Goto, VisitRow, Affected, SameKind
<1>12. ASSUME NEW r \in Requests, InsertRow(r)
      PROVE  LocksFit'
  BY <1>12 DEF Goto, InsertRow
<1>13. ASSUME NEW r \in Requests, Commit(r)
      PROVE  LocksFit'
  BY <1>13 DEF Goto, Commit, Answered, AfterCommit, FreeUser, Free, Inserts
<1>14. ASSUME NEW r \in Requests, Running(r), Abort(r)
      PROVE  LocksFit'
  BY <1>14 DEF Goto, Abort, FreeUser, Free, Running
<1>15. ASSUME NEW o \in Openers, Age(o)
      PROVE  LocksFit'
  BY <1>15 DEF Age
<1>16. ASSUME NEW o \in Openers, Expire(o)
      PROVE  LocksFit'
  BY <1>16 DEF Expire
<1>17. CASE Restart
  BY <1>17 DEF Restart, Running
<1>18. CASE UNCHANGED vars
  BY <1>18 DEF vars
<1> QED
  BY <1>1, <1>2, <1>3, <1>4, <1>5, <1>6, <1>7, <1>8, <1>9, <1>10,
     <1>11, <1>12, <1>13, <1>14, <1>15, <1>16, <1>17, <1>18, Aborts
  DEF Next, Statement, Check, Bulk, Quiet

(* What SecondFactor calls visitors, doors and kits.                       *)
LEMMA GateSets ==
    /\ Gate!Visitors = Checkers
    /\ Gate!Doors = Openers
    /\ Gate!Kits = Makers
    /\ \A c \in Checkers : Gate!DoorsFor(c) = SamePurpose(c)
    /\ \A o \in Openers : Gate!DoorsLike(o) = SamePurpose(o)
<1> USE RequestAssumption
    DEF Disjoint, Requests, Openers, Checkers, Makers, SamePurpose
<1> QED
  BY DEF Gate!Visitors, Gate!Doors, Gate!Kits, Gate!DoorsFor, Gate!DoorsLike

(* The mapping before and after a step.                                    *)
LEMMA StageIs ==
    ASSUME NEW c
    PROVE  /\ StageOf(c) = "outside" <=> pc[c] \in {"idle", "select", "use", "count", "consume"}
           /\ StageOf(c) = "away" <=> pc[c] \in {"failed", "dead"}
           /\ StageOf(c) \in {"outside", "away", "inside"}
BY DEF StageOf

LEMMA StageNext ==
    ASSUME NEW c
    PROVE  /\ StageOf(c)' = "outside" <=> pc'[c] \in {"idle", "select", "use", "count", "consume"}
           /\ StageOf(c)' = "away" <=> pc'[c] \in {"failed", "dead"}
           /\ StageOf(c)' \in {"outside", "away", "inside"}
BY DEF StageOf

(* A step SecondFactor does not see.                                       *)
LEMMA Unseen ==
    ASSUME factor' = factor, tries' = tries,
           \A o \in SetupStarts : method'[o] = method[o],
           \A o \in Openers : DoorOf(o)' = DoorOf(o),
           \A c \in Checkers : StageOf(c)' = StageOf(c) /\ EntryOf(c)' = EntryOf(c),
           \A l \in LoginCodes : HeldBy(l)' = HeldBy(l),
           \A m \in Makers : KitOf(m)' = KitOf(m)
    PROVE  UNCHANGED Gate!vars
BY DEF Gate!vars

(* A request that goes on where it was, in the eyes of SecondFactor.       *)
LEMMA GoesOn ==
    ASSUME TypeOK, NEW r \in Requests,
           factor' = factor, tries' = tries, challenge' = challenge, codes' = codes,
           undoing' = undoing,
           \A o \in SetupStarts : method'[o] = method[o],
           \A s \in Requests \ {r} : pc'[s] = pc[s],
           \A c \in Checkers \ {r} : seen'[c] = seen[c],
           \A l \in LoginCodes \ {r} : shown'[l] = shown[l],
           \/ /\ pc[r] \in {"idle", "select", "use", "count"}
              /\ pc'[r] \in {"idle", "select", "use", "count"}
           \/ /\ pc[r] \in {"idle", "select", "use", "count"} \cup {"consume"}
              /\ pc'[r] \in {"idle", "select", "use", "count"} \cup {"consume"}
              /\ r \notin LoginCodes \/ (shown'[r] = NoRequest /\ pc[r] # "consume")
           \/ /\ pc[r] \in {"recheck", "user", "bulk", "rest", "commit"}
              /\ pc'[r] \in {"recheck", "user", "bulk", "rest", "commit"}
              /\ r \in Checkers => seen'[r] = seen[r]
              /\ r \in LoginCodes => shown'[r] = shown[r]
           \/ r \notin Checkers \cup Makers
    PROVE  UNCHANGED Gate!vars
<1> USE DEF Requests, Checkers, Makers
<1>1. \A o \in Openers : DoorOf(o)' = DoorOf(o)
  BY DEF DoorOf
<1>2. \A c \in Checkers : StageOf(c)' = StageOf(c)
  BY StageIs, StageNext
<1>3. \A c \in Checkers : EntryOf(c)' = EntryOf(c)
  BY <1>2, StageIs DEF EntryOf
<1>4. \A l \in LoginCodes : HeldBy(l)' = HeldBy(l)
  BY <1>2, StageIs DEF HeldBy
<1>5. \A m \in Makers : KitOf(m)' = KitOf(m)
  BY DEF KitOf, Ended
<1> QED
  BY <1>1, <1>2, <1>3, <1>4, <1>5, Unseen

(* Requests that end without an effect.                                    *)
LEMMA Departs ==
    ASSUME TypeOK, NEW R \in SUBSET Requests,
           factor' = factor, tries' = tries, challenge' = challenge, codes' = codes,
           undoing' = undoing,
           \A o \in SetupStarts : method'[o] = method[o],
           \A r \in R : pc[r] \notin Ended /\ pc'[r] \in {"failed", "dead"},
           \A s \in Requests \ R : pc'[s] = pc[s],
           \A c \in Checkers \ R : seen'[c] = seen[c],
           \A l \in LoginCodes \ R : shown'[l] = shown[l]
    PROVE  Gate!Next
<1> DEFINE Q == R \cap (Checkers \cup Makers)
<1> USE DEF Requests, Checkers, Makers
<1>1. \A o \in Openers : DoorOf(o)' = DoorOf(o)
  BY DEF DoorOf
<1>2. \A c \in Checkers : StageOf(c)' = IF c \in Q THEN "away" ELSE StageOf(c)
  BY StageIs, StageNext DEF StageOf
<1>3. \A c \in Checkers : EntryOf(c)' = IF c \in Q THEN NoRequest ELSE EntryOf(c)
  BY <1>2, StageIs DEF EntryOf
<1>4. \A l \in LoginCodes : HeldBy(l)' = IF l \in Q THEN NoRequest ELSE HeldBy(l)
  BY <1>2, StageIs DEF HeldBy
<1>5. \A m \in Makers : KitOf(m)' = IF m \in Q /\ KitOf(m) = "unmade" THEN "gone" ELSE KitOf(m)
  BY DEF KitOf, Ended, TypeOK, CodeStates
<1>6. Gate!GiveUp(Q)
  <2>1. Gate!Leave(Q)
    BY <1>2, <1>3, <1>4, GateSets DEF Gate!Leave
  <2>2. [m \in Makers |-> KitOf(m)]' = Gate!WithoutMakers(Q)
    BY <1>5, GateSets DEF Gate!WithoutMakers
  <2> QED
    BY <1>1, <2>1, <2>2 DEF Gate!GiveUp
<1> QED
  BY <1>6, GateSets DEF Gate!Next

(* One that ends, and one that stays where it was.                         *)
LEMMA Leaves ==
    ASSUME TypeOK, NEW c \in Checkers,
           pc'[c] \in {"failed", "dead"}, seen' = seen, shown' = shown,
           \A s \in Requests \ {c} : pc'[s] = pc[s]
    PROVE  Gate!Leave({c})
<1> USE DEF Requests, Checkers
<1>1. \A d \in Checkers : StageOf(d)' = IF d \in {c} THEN "away" ELSE StageOf(d)
  BY StageIs, StageNext DEF StageOf
<1>2. \A d \in Checkers : EntryOf(d)' = IF d \in {c} THEN NoRequest ELSE EntryOf(d)
  BY <1>1 DEF EntryOf
<1>3. \A l \in LoginCodes : HeldBy(l)' = IF l \in {c} THEN NoRequest ELSE HeldBy(l)
  BY <1>1 DEF HeldBy
<1> QED
  BY <1>1, <1>2, <1>3, GateSets DEF Gate!Leave

LEMMA Stays ==
    ASSUME TypeOK, seen' = seen, shown' = shown, NEW r \in Requests,
           \A s \in Requests \ {r} : pc'[s] = pc[s],
           r \in Checkers =>
              /\ pc[r] \in {"recheck", "user", "bulk", "rest", "commit", "activate", "done"}
              /\ pc'[r] \in {"recheck", "user", "bulk", "rest", "commit", "activate", "done"}
    PROVE  Gate!Leave({})
<1> USE DEF Requests, Checkers
<1>1. \A d \in Checkers : StageOf(d)' = StageOf(d)
  BY StageIs, StageNext DEF StageOf
<1>2. \A d \in Checkers : EntryOf(d)' = EntryOf(d)
  BY <1>1 DEF EntryOf
<1>3. \A l \in LoginCodes : HeldBy(l)' = HeldBy(l)
  <2>1. ASSUME NEW l \in LoginCodes
        PROVE  HeldBy(l)' = HeldBy(l)
    <3>1. pc'[l] = "consume" <=> pc[l] = "consume"
      OBVIOUS
    <3> QED
      BY <1>1, <3>1 DEF HeldBy
  <2> QED
    BY <2>1
<1> QED
  BY <1>1, <1>2, <1>3, GateSets DEF Gate!Leave

LEMMA LeavesAlone ==
    ASSUME TypeOK, NEW c \in Checkers,
           pc[c] \notin Ended, pc'[c] \in {"failed", "dead"},
           codes' = codes, undoing' = undoing, seen' = seen, shown' = shown,
           \A s \in Requests \ {c} : pc'[s] = pc[s]
    PROVE  /\ Gate!Leave({c})
           /\ [m \in Makers |-> KitOf(m)]' = Gate!WithoutMakers({c})
<1> USE DEF Requests, Checkers, Makers
<1>1. \A m \in Makers : KitOf(m)' = IF m \in {c} /\ KitOf(m) = "unmade" THEN "gone" ELSE KitOf(m)
  BY DEF KitOf, Ended, TypeOK, CodeStates
<1> QED
  BY <1>1, Leaves, GateSets DEF Gate!WithoutMakers

(* What becomes of the kits when a request commits that writes them.       *)
LEMMA CommitKits ==
    ASSUME TypeOK, InsertedOnce, LocksFit, NEW r \in Makers \cup DisableCodes, Commit(r)
    PROVE  /\ \A o \in Openers : challenge'[o] = challenge[o]
           /\ \A m \in Makers : lock[m] = r =>
                 KitOf(m) # "unmade" /\ (m = r => r \in undoing)
           /\ r \in Makers \ undoing => KitOf(r) = "unmade"
           /\ \A m \in Makers : KitOf(m)' =
                 IF m = r /\ r \notin undoing THEN "fresh"
                 ELSE IF lock[m] = r THEN "gone" ELSE KitOf(m)
<1> USE RequestAssumption DEF Disjoint, Requests, Rows, Openers, Checkers, Makers
<1>1. r \in Requests /\ r \notin Openers
  OBVIOUS
<1>2. \A o \in Openers : lock[o] # r
  BY <1>1 DEF LocksFit
<1>3. \A o \in Openers : challenge'[o] = challenge[o]
  BY <1>1, <1>2, CommitFacts
<1>4. \A m \in Makers : lock[m] = r => codes[m] # "none"
  BY <1>1 DEF LocksFit
<1>5. pc[r] = "commit" /\ undoing' = undoing /\ \A s \in Requests \ {r} : pc'[s] = pc[s]
  BY <1>1, CommitFacts
<1>6. r \in Makers \ undoing => codes[r] = "none"
  BY <1>5 DEF InsertedOnce, Ended
<1>7. \A m \in Makers : lock[m] = r => m = r \/ pc[m] \in {"activate"} \cup Ended \/ m \in undoing
  BY <1>4 DEF InsertedOnce
<1>8. ASSUME NEW m \in Makers
      PROVE  KitOf(m)' = IF m = r /\ r \notin undoing THEN "fresh"
                         ELSE IF lock[m] = r THEN "gone" ELSE KitOf(m)
  <2>1. codes'[m] = IF m = r /\ r \notin undoing THEN "fresh"
                    ELSE IF lock[m] = r THEN "none" ELSE codes[m]
    BY <1>1, CommitFacts
  <2> QED
    BY <2>1, <1>4, <1>5, <1>6, <1>7 DEF KitOf, Ended
<1>9. \A m \in Makers : lock[m] = r => KitOf(m) # "unmade" /\ (m = r => r \in undoing)
  BY <1>4, <1>6 DEF KitOf, TypeOK, CodeStates
<1>10. r \in Makers \ undoing => KitOf(r) = "unmade"
  BY <1>5, <1>6 DEF KitOf, Ended
<1> QED
  BY <1>3, <1>8, <1>9, <1>10

(* Every step of the code is a step of SecondFactor, or none.              *)
LEMMA GateStep ==
    ASSUME GateInv, [Next]_vars
    PROVE  [Gate!Next]_(Gate!vars)
<1> USE RequestAssumption DEF GateInv, Disjoint, Requests, Openers, Checkers, Makers
<1>1. ASSUME NEW r \in Requests, GetStatus(r)
      PROVE  [Gate!Next]_(Gate!vars)
  <2>1. /\ pc[r] = "idle" /\ pc' = [pc EXCEPT ![r] = AfterStatus(r)]
        /\ \A o \in SetupStarts : method'[o] = method[o]
        /\ UNCHANGED <<factor, challenge, tries, codes, seen, shown, undoing>>
    BY <1>1 DEF GetStatus, Goto, TypeOK
  <2>2. CASE AfterStatus(r) = "failed"
    <3>1. /\ pc[r] \notin Ended /\ pc'[r] \in {"failed", "dead"}
          /\ \A s \in Requests \ {r} : pc'[s] = pc[s]
      BY <2>1, <2>2 DEF TypeOK, Ended
    <3> QED
      BY <2>1, <3>1, Departs, {r} \in SUBSET Requests
  <2>3. CASE r \in LoginCodes /\ factor = "off"
    <3>1. AfterStatus(r) = "done"
      BY <2>3 DEF AfterStatus
    <3>2. /\ pc'[r] = "done" /\ \A s \in Requests \ {r} : pc'[s] = pc[s]
          /\ seen[r] = NoRequest /\ shown[r] = NoRequest
      BY <2>1, <2>3, <3>1 DEF TypeOK, Itinerary
    <3>3. \A c \in Checkers : StageOf(c)' = IF c = r THEN "inside" ELSE StageOf(c)
      BY <3>2, StageIs, StageNext DEF StageOf
    <3>4. StageOf(r) = "outside"
      BY <2>1, StageIs
    <3>5. \A c \in Checkers : EntryOf(c)' = EntryOf(c)
      BY <2>1, <3>2, <3>3, <3>4 DEF EntryOf
    <3>6. \A l \in LoginCodes : HeldBy(l)' = HeldBy(l)
      BY <2>1, <3>2, <3>3, <3>4 DEF HeldBy
    <3>7. \A m \in Makers : KitOf(m)' = KitOf(m)
      BY <2>1, <2>3, <3>2 DEF KitOf
    <3>8. \A o \in Openers : DoorOf(o)' = DoorOf(o)
      BY <2>1 DEF DoorOf
    <3>9. Gate!LetIn(r)
      BY <2>1, <2>3, <3>3, <3>4, <3>5, <3>6, <3>7, <3>8 DEF Gate!LetIn
    <3> QED
      BY <2>3, <3>9 DEF Gate!Next
  <2>4. CASE AfterStatus(r) # "failed" /\ ~(r \in LoginCodes /\ factor = "off")
    <3>1. CASE r \in SetupCodes \cup LoginCodes \cup DisableCodes
      <4>1. pc'[r] = "select"
        BY <2>1, <2>4, <3>1 DEF AfterStatus, TypeOK
      <4> QED
        BY <2>1, <4>1, GoesOn
    <3>2. CASE r \in Regenerations
      <4>1. AfterStatus(r) = "bulk"
        BY <2>4, <3>2 DEF AfterStatus
      <4>2. \A m \in Makers : KitOf(m)' = KitOf(m)
        BY <2>1, <4>1 DEF KitOf, Ended, TypeOK
      <4>3. \A c \in Checkers : pc'[c] = pc[c]
        BY <2>1, <3>2 DEF TypeOK
      <4>4. \A c \in Checkers : StageOf(c)' = StageOf(c)
        BY <4>3 DEF StageOf
      <4> QED
        BY <2>1, <4>2, <4>3, <4>4, Unseen DEF DoorOf, EntryOf, HeldBy
    <3>3. CASE r \in Openers
      BY <2>1, <3>3, GoesOn DEF TypeOK
    <3> QED
      BY <3>1, <3>2, <3>3
  <2> QED
    BY <2>2, <2>3, <2>4
<1>2. ASSUME NEW o \in Openers, ChallengeCooldown(o)
      PROVE  [Gate!Next]_(Gate!vars)
  <2>1. \A s \in Requests \ {o} : pc'[s] = pc[s]
    BY <1>2 DEF ChallengeCooldown, Goto, TypeOK
  <2> QED
    BY <1>2, <2>1, GoesOn DEF ChallengeCooldown
<1>3. ASSUME NEW c \in Checkers, SelectChallenge(c)
      PROVE  [Gate!Next]_(Gate!vars)
  <2>1. /\ c \in Requests /\ pc[c] = "select"
        /\ \A r \in Requests \ {c} : pc'[r] = pc[r]
        /\ pc'[c] \in {"failed", "consume", "count", "use"}
        /\ \A d \in Checkers \ {c} : seen'[d] = seen[d]
        /\ \A l \in LoginCodes \ {c} : shown'[l] = shown[l]
        /\ UNCHANGED <<factor, challenge, tries, codes, method, undoing>>
    BY <1>3, SelectFacts DEF SelectChallenge
  <2>2. CASE pc'[c] = "failed"
    <3>1. pc[c] \notin Ended /\ pc'[c] \in {"failed", "dead"}
      BY <2>1, <2>2 DEF Ended
    <3>2. \A o \in SetupStarts : method'[o] = method[o]
      BY <2>1
    <3> QED
      BY <2>1, <3>1, <3>2, Departs, {c} \in SUBSET Requests
  <2>3. CASE pc'[c] \in {"count", "use"}
    BY <2>1, <2>3, GoesOn
  <2>4. CASE pc'[c] = "consume"
    <3>1. c \notin LoginCodes \/ shown'[c] = NoRequest
      BY <1>3, <2>1, <2>4, SelectFacts DEF Itinerary
    <3> QED
      BY <2>1, <2>4, <3>1, GoesOn
  <2> QED
    BY <2>1, <2>2, <2>3, <2>4
<1>4. ASSUME NEW c \in Checkers, UseRecoveryCode(c)
      PROVE  [Gate!Next]_(Gate!vars)
  <2>1. /\ c \in LoginCodes /\ pc[c] = "use" /\ shown[c] \in Makers
        /\ \A r \in Requests \ {c} : pc'[r] = pc[r]
        /\ pc'[c] \in {"consume", "count"}
        /\ UNCHANGED <<factor, challenge, tries, method, seen, shown, undoing>>
    BY <1>4, UseFacts DEF UseRecoveryCode, Itinerary, SeenFits
  <2>2. CASE codes[shown[c]] # "fresh"
    <3>1. codes' = codes /\ pc'[c] = "count"
      BY <1>4, <2>2 DEF UseRecoveryCode, Goto, TypeOK
    <3> QED
      BY <2>1, <3>1, GoesOn
  <2>3. CASE codes[shown[c]] = "fresh"
    <3> DEFINE m == shown[c]
               h == IF pc'[c] = "consume" THEN m ELSE NoRequest
    <3>1. codes' = [codes EXCEPT ![m] = "used"]
      BY <1>4, <2>3 DEF UseRecoveryCode
    <3>2. \A d \in Checkers : StageOf(d)' = StageOf(d) /\ EntryOf(d)' = EntryOf(d)
      <4>1. \A d \in Checkers : StageOf(d)' = StageOf(d)
        BY <2>1, StageIs, StageNext DEF StageOf
      <4> QED
        BY <2>1, <4>1 DEF EntryOf
    <3>3. StageOf(c) = "outside" /\ StageOf(c)' = "outside"
      BY <2>1, StageIs, StageNext
    <3>4. \A l \in LoginCodes : HeldBy(l)' = IF l = c THEN h ELSE HeldBy(l)
      BY <2>1, <3>2, <3>3 DEF HeldBy
    <3>5. KitOf(m) = "fresh"
      BY <2>3 DEF KitOf
    <3>6. \A k \in Makers : KitOf(k)' = IF k = m THEN "used" ELSE KitOf(k)
      BY <2>1, <3>1 DEF KitOf, TypeOK, Ended
    <3>7. \A o \in Openers : DoorOf(o)' = DoorOf(o)
      BY <2>1 DEF DoorOf
    <3>8. Gate!Burn(c, m)
      <4>1. h \in {m, NoRequest}
        OBVIOUS
      <4>2. [l \in LoginCodes |-> HeldBy(l)]' = [[l \in LoginCodes |-> HeldBy(l)] EXCEPT ![c] = h]
        BY <2>1, <3>4
      <4> QED
        BY <2>1, <3>2, <3>3, <3>5, <3>6, <3>7, <4>1, <4>2 DEF Gate!Burn
    <3> QED
      BY <2>1, <3>8, GateSets DEF Gate!Next
  <2> QED
    BY <2>2, <2>3
<1>5. ASSUME NEW c \in Checkers, CountAttempt(c)
      PROVE  [Gate!Next]_(Gate!vars)
  <2>1. /\ pc[c] = "count" /\ seen[c] \in Openers /\ seen[c] \in SamePurpose(c)
        /\ pc'[c] = "failed" /\ \A r \in Requests \ {c} : pc'[r] = pc[r]
        /\ UNCHANGED <<factor, challenge, codes, method, seen, shown, undoing>>
    BY <1>5 DEF CountAttempt, Goto, TypeOK, Itinerary, SeenFits
  <2>2. CASE ~Usable(seen[c])
    <3>1. pc[c] \notin Ended /\ pc'[c] \in {"failed", "dead"} /\ tries' = tries
      BY <1>5, <2>1, <2>2 DEF Ended, CountAttempt
    <3>2. \A o \in SetupStarts : method'[o] = method[o]
      BY <2>1
    <3> QED
      BY <2>1, <3>1, <3>2, Departs, {c} \in SUBSET Requests
  <2>3. CASE Usable(seen[c])
    <3>1. tries' = [tries EXCEPT ![seen[c]] = @ + 1]
      BY <1>5, <2>3 DEF CountAttempt
    <3>2. StageOf(c) = "outside" /\ DoorOf(seen[c]) = "open" /\ tries[seen[c]] < MaxAttempts
      BY <2>1, <2>3, StageIs DEF DoorOf, Usable
    <3>3. Gate!Leave({c}) /\ [m \in Makers |-> KitOf(m)]' = Gate!WithoutMakers({c})
      BY <2>1, LeavesAlone DEF Ended
    <3>4. \A o \in Openers : DoorOf(o)' = DoorOf(o)
      BY <2>1 DEF DoorOf
    <3>5. Gate!Miss(c, seen[c])
      BY <2>1, <3>1, <3>2, <3>3, <3>4 DEF Gate!Miss, Gate!Admits
    <3> QED
      BY <2>1, <3>5, GateSets DEF Gate!Next
  <2> QED
    BY <2>2, <2>3
<1>6. ASSUME NEW c \in Checkers, ConsumeChallenge(c)
      PROVE  [Gate!Next]_(Gate!vars)
  <2>1. /\ pc[c] = "consume" /\ seen[c] \in Openers /\ seen[c] \in SamePurpose(c)
        /\ UNCHANGED <<factor, tries, codes, method, seen, shown, undoing>>
        /\ \A r \in Requests \ {c} : pc'[r] = pc[r]
    BY <1>6 DEF ConsumeChallenge, Answered, Goto, TypeOK, Itinerary, SeenFits
  <2>2. CASE ~Usable(seen[c])
    <3>1. pc[c] \notin Ended /\ pc'[c] \in {"failed", "dead"} /\ challenge' = challenge
      BY <1>6, <2>1, <2>2 DEF Ended, ConsumeChallenge, Goto, TypeOK
    <3>2. \A o \in SetupStarts : method'[o] = method[o]
      BY <2>1
    <3> QED
      BY <2>1, <3>1, <3>2, Departs, {c} \in SUBSET Requests
  <2>3. CASE Usable(seen[c])
    <3>1. StageOf(c) = "outside" /\ DoorOf(seen[c]) = "open" /\ tries[seen[c]] < MaxAttempts
      BY <2>1, <2>3, StageIs DEF DoorOf, Usable
    <3>2. \A o \in Openers : DoorOf(o)' = IF o = seen[c] THEN "shut" ELSE DoorOf(o)
      BY <1>6, <2>3, ConsumeFacts DEF DoorOf
    <3>3. pc'[c] \in {"bulk", "done", "recheck", "failed"} /\ (c \in LoginCodes => pc'[c] \in {"done", "failed"})
      BY <1>6, <2>3, ConsumeFacts
    <3>4. CASE pc'[c] = "failed"
      <4>1. Gate!Leave({c}) /\ [m \in Makers |-> KitOf(m)]' = Gate!WithoutMakers({c})
        BY <2>1, <3>4, LeavesAlone DEF Ended
      <4>2. Gate!Waste(c, seen[c])
        BY <2>1, <3>1, <3>2, <4>1 DEF Gate!Waste, Gate!Admits
      <4> QED
        BY <2>1, <4>2, GateSets DEF Gate!Next
    <3>5. CASE pc'[c] # "failed"
      <4>1. \A d \in Checkers : StageOf(d)' = IF d = c THEN "inside" ELSE StageOf(d)
        BY <2>1, <3>3, <3>5, StageIs, StageNext DEF StageOf
      <4>2. \A d \in Checkers : EntryOf(d)' = IF d = c THEN seen[c] ELSE EntryOf(d)
        BY <2>1, <4>1 DEF EntryOf
      <4>3. \A l \in LoginCodes : HeldBy(l)' = HeldBy(l)
        BY <2>1, <4>1 DEF HeldBy
      <4>4. c \in SetupCodes => pc'[c] = "bulk"
        BY <1>6, <2>1, <2>3, <3>5 DEF ConsumeChallenge, Answered, AfterConsume, Goto, TypeOK
      <4>5. \A m \in Makers : KitOf(m)' = KitOf(m)
        BY <2>1, <4>4 DEF KitOf, Ended
      <4>6. Gate!Enter(c, seen[c])
        BY <2>1, <3>1, <3>2, <4>1, <4>2, <4>3, <4>5 DEF Gate!Enter, Gate!Admits
      <4> QED
        BY <2>1, <4>6, GateSets DEF Gate!Next
    <3> QED
      BY <3>4, <3>5
  <2> QED
    BY <2>2, <2>3
<1>7. ASSUME NEW c \in SetupCodes, Activate(c)
      PROVE  [Gate!Next]_(Gate!vars)
  <2>0. c \in Requests /\ c \in Checkers /\ c \in Makers /\ c \notin LoginCodes
    OBVIOUS
  <2>1. /\ pc[c] = "activate" /\ factor' = method[c]
        /\ \A r \in Requests \ {c} : pc'[r] = pc[r]
        /\ \/ pc'[c] = "done" /\ undoing' = undoing
           \/ pc'[c] = "bulk" /\ undoing' = undoing \cup {c}
        /\ UNCHANGED <<challenge, tries, codes, method, seen, shown>>
    <3>1. /\ pc[c] = "activate" /\ factor' = method[c]
          /\ UNCHANGED <<challenge, tries, codes, method, seen, shown>>
      BY <1>7 DEF Activate
    <3>2. \/ pc' = [pc EXCEPT ![c] = "done"] /\ undoing' = undoing
          \/ pc' = [pc EXCEPT ![c] = "bulk"] /\ undoing' = undoing \cup {c}
      BY <1>7 DEF Activate, Goto
    <3> QED
      BY <2>0, <3>1, <3>2 DEF TypeOK
  <2>2. seen[c] \in SamePurpose(c) /\ method[seen[c]] = method[c] /\ seen[c] \in SetupStarts
    BY <2>0, <2>1 DEF SeenFits, SamePurpose, TypeOK
  <2>3. \A d \in Checkers : StageOf(d)' = StageOf(d) /\ EntryOf(d)' = EntryOf(d)
    <3>1. \A d \in Checkers : StageOf(d)' = StageOf(d)
      BY <2>0, <2>1, StageIs, StageNext DEF StageOf
    <3> QED
      BY <2>0, <2>1, <3>1 DEF EntryOf
  <2>4. \A l \in LoginCodes : HeldBy(l)' = HeldBy(l)
    BY <2>0, <2>1, <2>3 DEF HeldBy
  <2>5. \A m \in Makers : KitOf(m)' = KitOf(m)
    BY <2>0, <2>1 DEF KitOf, Ended
  <2>6. KitOf(c) # "unmade"
    BY <2>0, <2>1 DEF KitOf, TypeOK, CodeStates
  <2>7. StageOf(c) = "inside" /\ EntryOf(c) = seen[c]
    BY <2>0, <2>1, StageIs DEF EntryOf
  <2>8. \A o \in Openers : DoorOf(o)' = DoorOf(o)
    BY <2>0, <2>1 DEF DoorOf
  <2>9. Gate!TurnOn(c)
    BY <2>0, <2>1, <2>2, <2>3, <2>4, <2>5, <2>6, <2>7, <2>8, GateSets
    DEF Gate!TurnOn, Gate!CameIn, Gate!Made
  <2> QED
    BY <2>9 DEF Gate!Next
<1>8. ASSUME NEW c \in DisableCodes, Recheck(c)
      PROVE  [Gate!Next]_(Gate!vars)
  <2>1. /\ c \in Requests /\ c \in Checkers /\ pc[c] = "recheck"
        /\ \A r \in Requests \ {c} : pc'[r] = pc[r]
        /\ pc'[c] \in {"failed", "user"}
        /\ \A o \in SetupStarts : method'[o] = method[o]
        /\ UNCHANGED <<factor, challenge, tries, codes, method, seen, shown, undoing>>
    BY <1>8 DEF Recheck, Goto, TypeOK
  <2>2. CASE pc'[c] = "failed"
    <3>1. pc[c] \notin Ended /\ pc'[c] \in {"failed", "dead"}
      BY <2>1, <2>2 DEF Ended
    <3> QED
      BY <2>1, <3>1, Departs, {c} \in SUBSET Requests
  <2>3. CASE pc'[c] = "user"
    BY <2>1, <2>3, GoesOn
  <2> QED
    BY <2>1, <2>2, <2>3
<1>9. ASSUME NEW c \in DisableCodes, DisableUser(c)
      PROVE  [Gate!Next]_(Gate!vars)
  <2>1. /\ c \in Requests /\ pc[c] = "user" /\ pc'[c] = "bulk"
        /\ \A r \in Requests \ {c} : pc'[r] = pc[r]
    BY <1>9 DEF DisableUser, Goto, TypeOK
  <2> QED
    BY <1>9, <2>1, GoesOn DEF DisableUser
<1>10. ASSUME NEW r \in Requests, StartBulk(r)
       PROVE  [Gate!Next]_(Gate!vars)
  <2>1. /\ pc[r] = "bulk" /\ pc'[r] = "rest"
        /\ \A s \in Requests \ {r} : pc'[s] = pc[s]
    BY <1>10 DEF StartBulk, Goto, TypeOK
  <2> QED
    BY <1>10, <2>1, GoesOn DEF StartBulk
<1>11. ASSUME NEW r \in Requests, VisitRow(r)
       PROVE  [Gate!Next]_(Gate!vars)
  BY <1>11, GoesOn DEF VisitRow
<1>12. ASSUME NEW r \in Requests, InsertRow(r)
       PROVE  [Gate!Next]_(Gate!vars)
  <2>1. /\ pc[r] = "rest" /\ pc'[r] = "commit"
        /\ \A s \in Requests \ {r} : pc'[s] = pc[s]
    BY <1>12 DEF InsertRow, Goto, TypeOK
  <2> QED
    BY <1>12, <2>1, GoesOn DEF InsertRow
<1>13. ASSUME NEW r \in Requests, Commit(r)
       PROVE  [Gate!Next]_(Gate!vars)
  <2>1. /\ pc[r] = "commit" /\ pc'[r] \in {"activate", "done", "failed"}
        /\ r \in undoing => pc'[r] = "failed"
        /\ \A s \in Requests \ {r} : pc'[s] = pc[s]
        /\ factor' = IF userLock = r THEN "off" ELSE factor
        /\ UNCHANGED <<tries, method, seen, shown, undoing>>
    BY <1>13, CommitFacts DEF Commit, Answered, AfterCommit, Goto, TypeOK
  <2>2. r \notin DisableCodes => factor' = factor
    BY <2>1 DEF TypeOK
  <2> DEFINE S == {m \in Makers : lock[m] = r}
  <2>3. CASE r \in Openers
    <3> DEFINE T == {o \in Openers : lock[o] = r /\ challenge[o] = "open"}
    <3>1. \A o \in Openers : challenge'[o] =
             IF o = r THEN "open" ELSE IF lock[o] = r THEN "consumed" ELSE challenge[o]
      BY <1>13, CommitFacts
    <3>2. challenge[r] = "none" /\ \A o \in Openers : lock[o] = r => challenge[o] # "none"
      BY <2>1, <2>3 DEF InsertedOnce, Ended
    <3>3. \A m \in Makers : lock[m] # r
      BY <2>3 DEF LocksFit, SamePurpose, Rows
    <3>4. codes' = codes
      BY <1>13, <2>3, <3>3, CommitFacts DEF TypeOK, Commit
    <3>5. \A o \in Openers : DoorOf(o)' =
             IF o = r THEN "open" ELSE IF o \in T THEN "shut" ELSE DoorOf(o)
      BY <3>1, <3>2 DEF DoorOf, TypeOK, ChallengeStates
    <3>6. /\ \A c \in Checkers : StageOf(c)' = StageOf(c) /\ EntryOf(c)' = EntryOf(c)
          /\ \A l \in LoginCodes : HeldBy(l)' = HeldBy(l)
          /\ \A m \in Makers : KitOf(m)' = KitOf(m)
      BY <2>1, <2>3, <3>4 DEF StageOf, EntryOf, HeldBy, KitOf
    <3>7. T \in SUBSET SamePurpose(r) /\ DoorOf(r) = "none" /\ \A o \in T : DoorOf(o) = "open"
      BY <2>3, <3>2 DEF LocksFit, Rows, DoorOf
    <3>8. Gate!Open(r, T)
      BY <2>1, <2>2, <2>3, <3>5, <3>6, <3>7, GateSets DEF Gate!Open
    <3> QED
      BY <2>3, <3>7, <3>8, GateSets DEF Gate!Next
  <2>4. r \in Makers \cup DisableCodes =>
           /\ \A o \in Openers : DoorOf(o)' = DoorOf(o)
           /\ S \subseteq Gate!Made
           /\ \A m \in S : m = r => r \in undoing
           /\ r \in Makers \ undoing => KitOf(r) = "unmade"
           /\ \A m \in Makers : KitOf(m)' = IF m = r /\ r \notin undoing THEN "fresh"
                                         ELSE IF m \in S THEN "gone" ELSE KitOf(m)
    BY <1>13, CommitKits, GateSets DEF DoorOf, Gate!Made
  <2>5. r \in Checkers => Gate!CameIn(r)
    <3> SUFFICES ASSUME r \in Checkers
                 PROVE  Gate!CameIn(r)
      OBVIOUS
    <3>1. StageOf(r) = "inside" /\ EntryOf(r) = seen[r]
      BY <2>1, StageIs DEF EntryOf
    <3>2. seen[r] \in SamePurpose(r)
      BY <2>1 DEF SeenFits
    <3> QED
      BY <3>1, <3>2, GateSets DEF Gate!CameIn
  <2>6. Gate!MayLeave(r) /\ (r \in undoing => Gate!Leave({r}))
    <3>1. CASE pc'[r] = "failed" /\ r \in Checkers
      BY <2>1, <3>1, Leaves DEF Gate!MayLeave
    <3>2. CASE ~(pc'[r] = "failed" /\ r \in Checkers)
      <4>1. Gate!Leave({}) /\ r \notin undoing
        BY <2>1, <3>2, Stays DEF TypeOK
      <4> QED
        BY <4>1 DEF Gate!MayLeave
    <3> QED
      BY <3>1, <3>2
  <2>7. CASE r \in Makers /\ r \notin undoing
    <3>1. [m \in Makers |-> KitOf(m)]' = [Gate!WithoutKits(S) EXCEPT ![r] = "fresh"]
      BY <2>4, <2>7, GateSets DEF Gate!WithoutKits
    <3>2. Gate!Make(r, S)
      BY <2>1, <2>2, <2>4, <2>5, <2>6, <2>7, <3>1 DEF Gate!Make
    <3> QED
      BY <2>7, <3>2, GateSets DEF Gate!Next
  <2>8. CASE r \in undoing
    <3>1. r \in SetupCodes
      BY <2>8 DEF TypeOK
    <3>2. [m \in Makers |-> KitOf(m)]' = Gate!WithoutKits(S)
      BY <2>4, <2>8, <3>1, GateSets DEF Gate!WithoutKits
    <3>3. r \in Gate!Made
      BY <2>8, <3>1, GateSets DEF Gate!Made, KitOf, TypeOK, CodeStates
    <3>4. Gate!Discard(r, S)
      BY <2>1, <2>2, <2>4, <2>5, <2>6, <2>8, <3>1, <3>2, <3>3 DEF Gate!Discard
    <3> QED
      BY <3>1, <3>4, GateSets DEF Gate!Next
  <2>9. CASE r \in DisableCodes
    <3>1. r \notin Makers
      BY <2>9
    <3>2. [m \in Makers |-> KitOf(m)]' = Gate!WithoutKits(S)
      BY <2>4, <2>9, <3>1, GateSets DEF Gate!WithoutKits
    <3>3. factor' = "off"
      BY <2>1, <2>9 DEF DisablerHoldsUser
    <3>4. Gate!TurnOff(r, S)
      BY <2>1, <2>4, <2>5, <2>6, <2>9, <3>2, <3>3 DEF Gate!TurnOff
    <3> QED
      BY <2>9, <3>4, GateSets DEF Gate!Next
  <2>10. CASE r \in LoginCodes
    BY <2>1, <2>10 DEF Itinerary, Ended
  <2> QED
    BY <2>3, <2>7, <2>8, <2>9, <2>10
<1>14. ASSUME NEW r \in Requests, Running(r), Abort(r)
       PROVE  [Gate!Next]_(Gate!vars)
  <2>1. /\ \A s \in Requests \ {r} : pc'[s] = pc[s]
        /\ pc[r] \notin Ended
        /\ pc'[r] = IF pc[r] = "use" THEN "count"
                    ELSE IF pc[r] = "activate" THEN "bulk" ELSE "failed"
        /\ undoing' = IF pc[r] = "activate" THEN undoing \cup {r} ELSE undoing
        /\ \A o \in SetupStarts : method'[o] = method[o]
        /\ UNCHANGED <<factor, challenge, tries, codes, method, seen, shown>>
    BY <1>14 DEF Abort, Running, Goto, TypeOK
  <2>2. CASE pc[r] = "use"
    BY <2>1, <2>2, GoesOn
  <2>3. CASE pc[r] = "activate"
    <3>1. \A c \in Checkers : StageOf(c)' = StageOf(c)
      BY <2>1, <2>3, StageIs, StageNext DEF StageOf
    <3>2. \A m \in Makers : KitOf(m)' = KitOf(m)
      BY <2>1, <2>3 DEF KitOf, Ended
    <3>3. \A l \in LoginCodes : HeldBy(l)' = HeldBy(l)
      BY <2>1, <2>3, <3>1 DEF HeldBy
    <3> QED
      BY <2>1, <3>1, <3>2, <3>3, Unseen DEF EntryOf, DoorOf
  <2>4. CASE pc[r] \notin {"use", "activate"}
    <3>1. pc'[r] \in {"failed", "dead"} /\ undoing' = undoing
      BY <2>1, <2>4
    <3> QED
      BY <2>1, <3>1, Departs, {r} \in SUBSET Requests
  <2> QED
    BY <2>2, <2>3, <2>4
<1>15. ASSUME NEW o \in Openers, Age(o)
       PROVE  [Gate!Next]_(Gate!vars)
  BY <1>15, Unseen DEF Age, StageOf, EntryOf, HeldBy, KitOf, DoorOf
<1>16. ASSUME NEW o \in Openers, Expire(o)
       PROVE  [Gate!Next]_(Gate!vars)
  <2>1. \A p \in Openers : DoorOf(p)' = IF p = o THEN "shut" ELSE DoorOf(p)
    BY <1>16 DEF Expire, DoorOf, TypeOK
  <2>2. DoorOf(o) = "open"
    BY <1>16 DEF Expire, DoorOf
  <2>3. /\ \A c \in Checkers : StageOf(c)' = StageOf(c) /\ EntryOf(c)' = EntryOf(c)
        /\ \A l \in LoginCodes : HeldBy(l)' = HeldBy(l)
        /\ \A m \in Makers : KitOf(m)' = KitOf(m)
    BY <1>16 DEF Expire, StageOf, EntryOf, HeldBy, KitOf
  <2>4. Gate!Shut(o)
    BY <1>16, <2>1, <2>2, <2>3 DEF Expire, Gate!Shut
  <2> QED
    BY <2>4, GateSets DEF Gate!Next
<1>17. CASE Restart
  <2> DEFINE R == {r \in Requests : Running(r)}
  <2>1. /\ \A r \in R : pc[r] \notin Ended /\ pc'[r] \in {"failed", "dead"}
        /\ \A s \in Requests \ R : pc'[s] = pc[s]
        /\ \A o \in SetupStarts : method'[o] = method[o]
        /\ UNCHANGED <<factor, challenge, tries, codes, method, seen, shown, undoing>>
    BY <1>17 DEF Restart, Running, TypeOK
  <2>2. R \in SUBSET Requests
    OBVIOUS
  <2> HIDE DEF R
  <2> QED
    BY <2>1, <2>2, Departs
<1>18. CASE UNCHANGED vars
  BY <1>18, Unseen DEF vars, StageOf, EntryOf, HeldBy, KitOf, DoorOf
<1> QED
  BY <1>1, <1>2, <1>3, <1>4, <1>5, <1>6, <1>7, <1>8, <1>9, <1>10,
     <1>11, <1>12, <1>13, <1>14, <1>15, <1>16, <1>17, <1>18, Aborts
  DEF Next, Statement, Check, Bulk, Quiet

(* TwoFactor implements SecondFactor, for every number of requests and     *)
(* attempts and under every combination of faults: whatever is compared    *)
(* late or written late, a challenge lets in one request that is meant for *)
(* it, a recovery code serves one login, and the factor is turned on and   *)
(* off by who came in.                                                     *)
THEOREM SecondFactorKept == Spec => ImplementsSecondFactor
<1>1. Init => GateInv /\ Gate!Init
  <2> SUFFICES ASSUME Init
               PROVE  GateInv /\ Gate!Init
    OBVIOUS
  <2> USE RequestAssumption, AttemptAssumption, MethodAssumption
      DEF Init, Disjoint, Requests, Rows, Openers, Checkers, Makers
  <2>1. GateInv
    BY DEF GateInv, TypeOK, ChallengeStates, CodeStates, Steps, Ended, Itinerary, InsertedOnce,
        DisablerHoldsUser, SeenFits, LocksFit
  <2>2. \A c \in Checkers : StageOf(c) = IF c \in Enrolled THEN "inside" ELSE "outside"
    BY StageIs DEF StageOf
  <2>3. /\ \A c \in Checkers : EntryOf(c) = NoRequest
        /\ \A l \in LoginCodes : HeldBy(l) = NoRequest
        /\ \A m \in Makers : KitOf(m) = IF m \in Enrolled THEN "fresh" ELSE "unmade"
        /\ \A o \in Openers : DoorOf(o) = "none"
    BY DEF EntryOf, HeldBy, KitOf, DoorOf, Ended
  <2>4. [o \in SetupStarts |-> method[o]] \in [SetupStarts -> Methods]
    OBVIOUS
  <2>5. Gate!Init
    BY <2>2, <2>3, <2>4, GateSets DEF Gate!Init
  <2> QED
    BY <2>1, <2>5
<1>2. GateInv /\ [Next]_vars => GateInv'
  BY TypeStep, ItineraryStep, InsertedOnceStep, HoldsStep, SeenStep, LockStep DEF GateInv
<1>3. GateInv /\ [Next]_vars => [Gate!Next]_(Gate!vars)
  BY GateStep
<1> QED
  BY <1>1, <1>2, <1>3, PTL DEF Spec, ImplementsSecondFactor, Gate!Spec

=============================================================================
