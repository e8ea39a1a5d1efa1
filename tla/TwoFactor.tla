------------------------------- MODULE TwoFactor -------------------------------
(***************************************************************************)
(* Two-step verification of one account: the method in its row of          *)
(* public.users, the challenges in public.users_two_factor_challenges and  *)
(* the sets of recovery codes in public.users_recovery_codes, as the       *)
(* concurrent requests of TwoFactorService read and write them.            *)
(*                                                                         *)
(* The grain is the SQL statement under READ COMMITTED, as in              *)
(* AccountTokens.  A request is served once; one that opens a challenge or *)
(* makes a set of recovery codes stands for that row or set.  The codes of *)
(* a set are alike, so a set has the state of one of its codes.            *)
(***************************************************************************)
EXTENDS Naturals, FiniteSets

CONSTANTS
    SetupStarts,    \* POST /me/twofactor/start
    SetupCodes,     \* POST /me/twofactor/verify
    LoginStarts,    \* POST /user/signin, once the password was right
    LoginCodes,     \* POST /user/twofactor
    DisableStarts,  \* POST /me/twofactor/disable/start
    DisableCodes,   \* POST /me/twofactor/disable/verify
    Regenerations,  \* POST /me/twofactor/recovery-codes/regenerate
    Enrolled,       \* the setups verified before the behaviour starts
    Methods,        \* the methods asked for, of "email" and "totp"
    MaxAttempts,    \* twoFactorMaxAttempts
    NoRequest,      \* nobody, no row
    Faults          \* what may go wrong around the code

Openers == SetupStarts \cup LoginStarts \cup DisableStarts   \* make a challenge
Checkers == SetupCodes \cup LoginCodes \cup DisableCodes     \* answer one
Makers == SetupCodes \cup Regenerations                      \* make recovery codes
Rows == Openers \cup Makers
Requests == Openers \cup Checkers \cup Makers

FaultKinds == {
    "database",  \* a statement fails, or the answer to it is lost
    "restart"}   \* the server stops and is started again

Disjoint(A, B) == A \cap B = {}

ASSUME RequestAssumption ==
    /\ IsFiniteSet(Requests)
    /\ NoRequest \notin Requests
    /\ Disjoint(SetupStarts, LoginStarts \cup DisableStarts)
    /\ Disjoint(LoginStarts, DisableStarts)
    /\ Disjoint(SetupCodes, LoginCodes \cup DisableCodes)
    /\ Disjoint(LoginCodes, DisableCodes)
    /\ Disjoint(Openers, Checkers \cup Regenerations)
    /\ Disjoint(Checkers, Regenerations)
    /\ Enrolled \subseteq SetupCodes

ASSUME MethodAssumption == Methods # {} /\ Methods \subseteq {"email", "totp"}

ASSUME AttemptAssumption == MaxAttempts \in Nat \ {0}

ASSUME FaultAssumption == Faults \subseteq FaultKinds

VARIABLES
    factor,     \* users.two_factor_method, "off" where it is null
    challenge,  \* challenge[o]: the committed challenge opener o made
    tries,      \* tries[o]: its attempt_count
    young,      \* the challenges made less than a minute ago
    codes,      \* codes[m]: the committed recovery codes maker m made
    number,     \* number[o]: the id of the challenge of opener o; 0 before
    userLock,   \* the transaction that has written the row of the user
    lock,       \* lock[i]: the transaction that has written row i
    pc,         \* pc[r]: the next statement of request r
    method,     \* method[r]: the method r was asked for or read
    seen,       \* seen[c]: the challenge checker c selected
    shown,      \* shown[l]: the recovery codes login l answers from
    rest,       \* rest[r]: rows a bulk statement of r has yet to reach
    undoing     \* setups whose activation failed

vars == <<factor, challenge, tries, young, codes, number, userLock, lock,
          pc, method, seen, shown, rest, undoing>>

ChallengeStates == {"none", "open", "expired", "consumed"}
CodeStates == {"none", "fresh", "used"}
Ended == {"done", "failed", "dead"}
Steps == {"idle", "cooldown", "select", "use", "count", "consume", "recheck",
          "user", "bulk", "rest", "commit", "activate"} \cup Ended

Running(r) == pc[r] \notin Ended \cup {"idle"}

TypeOK ==
    /\ factor \in Methods \cup {"off"}
    /\ challenge \in [Openers -> ChallengeStates]
    /\ tries \in [Openers -> 0 .. MaxAttempts]
    /\ young \subseteq Openers
    /\ codes \in [Makers -> CodeStates]
    /\ number \in [Openers -> Nat]
    /\ userLock \in DisableCodes \cup {NoRequest}
    /\ lock \in [Rows -> Requests \cup {NoRequest}]
    /\ pc \in [Requests -> Steps]
    /\ method \in [Requests -> Methods]
    /\ seen \in [Checkers -> Openers \cup {NoRequest}]
    /\ shown \in [LoginCodes -> Makers \cup {NoRequest}]
    /\ rest \in [Requests -> SUBSET Rows]
    /\ undoing \subseteq SetupCodes

(* The account is confirmed.  It has two-step verification already if some *)
(* setup is enrolled.  Setups that ran at once with challenges of their    *)
(* own did not see the recovery codes of each other and left them all.     *)
Init ==
    /\ factor \in IF Enrolled = {} THEN {"off"} ELSE Methods
    /\ challenge = [o \in Openers |-> "none"]
    /\ tries = [o \in Openers |-> 0]
    /\ young = {}
    /\ codes = [m \in Makers |-> IF m \in Enrolled THEN "fresh" ELSE "none"]
    /\ number = [o \in Openers |-> 0]
    /\ userLock = NoRequest
    /\ lock = [i \in Rows |-> NoRequest]
    /\ pc = [r \in Requests |-> IF r \in Enrolled THEN "done" ELSE "idle"]
    /\ method \in [Requests -> Methods]
    /\ \A r \in Requests \ (SetupStarts \cup (SetupCodes \ Enrolled)) :
          method[r] = CHOOSE m \in Methods : TRUE
    /\ seen = [c \in Checkers |-> NoRequest]
    /\ shown = [l \in LoginCodes |-> NoRequest]
    /\ rest = [r \in Requests |-> {}]
    /\ undoing = {}

Goto(r, step) == pc' = [pc EXCEPT ![r] = step]

(* How a statement of its own is answered: as it should, or with an error  *)
(* although it took effect.                                                *)
Answered(r, step, onError) ==
    \/ Goto(r, step)
    \/ "database" \in Faults /\ Goto(r, onError)

-----------------------------------------------------------------------------
(* Reading.                                                                *)

SamePurpose(r) ==
    IF r \in SetupStarts \cup SetupCodes THEN SetupStarts
    ELSE IF r \in LoginStarts \cup LoginCodes THEN LoginStarts
    ELSE DisableStarts

SameKind(r) == {o \in SamePurpose(r) : method[o] = method[r]}

(* GetActiveChallenge: the one with the highest id, if any.                *)
ActiveChallenge(r) ==
    {o \in SameKind(r) :
        /\ challenge[o] = "open"
        /\ \A p \in SameKind(r) : challenge[p] = "open" => number[p] <= number[o]}

(* GetStatus, with which every operation begins.  Setting up and its code  *)
(* want the factor off and name a method, the others want it on and take   *)
(* the method it has; a login without a factor needs no code.              *)
AfterStatus(r) ==
    IF r \in SetupStarts \cup SetupCodes
       THEN IF factor # "off" THEN "failed"
            ELSE IF r \in SetupStarts THEN "cooldown" ELSE "select"
    ELSE IF r \in LoginStarts
       THEN IF factor = "off" THEN "done"
            ELSE IF factor = "email" THEN "cooldown" ELSE "bulk"
    ELSE IF factor = "off" THEN (IF r \in LoginCodes THEN "done" ELSE "failed")
    ELSE IF r \in DisableStarts THEN "cooldown"
    ELSE IF r \in Regenerations THEN "bulk"
    ELSE "select"

GetStatus(r) ==
    /\ pc[r] = "idle"
    /\ Goto(r, AfterStatus(r))
    /\ method' = IF r \in SetupStarts \cup SetupCodes \/ factor = "off" THEN method
                 ELSE [method EXCEPT ![r] = factor]
    /\ UNCHANGED <<factor, challenge, tries, young, codes, number, userLock, lock,
                   seen, shown, rest, undoing>>

(* ensureChallengeCooldown: BeginLogin takes the challenge there is for    *)
(* good enough, however often it was answered wrongly.                     *)
ChallengeCooldown(o) ==
    /\ pc[o] = "cooldown"
    /\ Goto(o, IF ActiveChallenge(o) \cap young = {} THEN "bulk"
               ELSE IF o \in LoginStarts THEN "done" ELSE "failed")
    /\ UNCHANGED <<factor, challenge, tries, young, codes, number, userLock, lock,
                   method, seen, shown, rest, undoing>>

(* The challenge is read, its attempts looked at, and the answer compared  *)
(* with what was read: right, wrong, or from a set of recovery codes.      *)
SelectChallenge(c) ==
    /\ pc[c] = "select"
    /\ \/ /\ ActiveChallenge(c) = {}
          /\ Goto(c, "failed")
          /\ UNCHANGED <<seen, shown>>
       \/ \E o \in ActiveChallenge(c) :
             /\ seen' = [seen EXCEPT ![c] = o]
             /\ \/ /\ tries[o] >= MaxAttempts
                   /\ Goto(c, "failed")
                   /\ UNCHANGED shown
                \/ /\ tries[o] < MaxAttempts
                   /\ Goto(c, "consume") \/ Goto(c, "count")
                   /\ UNCHANGED shown
                \/ /\ tries[o] < MaxAttempts
                   /\ c \in LoginCodes
                   /\ \E m \in Makers : shown' = [shown EXCEPT ![c] = m]
                   /\ Goto(c, "use")
    /\ UNCHANGED <<factor, challenge, tries, young, codes, number, userLock, lock,
                   method, rest, undoing>>

-----------------------------------------------------------------------------
(* Statements that are transactions of their own.                          *)

Usable(o) == challenge[o] = "open" /\ tries[o] < MaxAttempts

(* Variant: Use does not ask whether the code was used before.             *)
UseRecoveryCodeAgain(c) ==
    LET m == shown[c] IN
    /\ pc[c] = "use"
    /\ IF codes[m] # "none"
          THEN /\ lock[m] = NoRequest
               /\ codes' = [codes EXCEPT ![m] = "used"]
               /\ Answered(c, "consume", "count")
          ELSE Goto(c, "count") /\ UNCHANGED codes
    /\ UNCHANGED <<factor, challenge, tries, young, number, userLock, lock,
                   method, seen, shown, rest, undoing>>

(* RecoveryCodeRepository.Use: any error counts as a wrong answer.         *)
UseRecoveryCode(c) ==
    LET m == shown[c] IN
    /\ pc[c] = "use"
    /\ IF codes[m] = "fresh"
          THEN /\ lock[m] = NoRequest
               /\ codes' = [codes EXCEPT ![m] = "used"]
               /\ Answered(c, "consume", "count")
          ELSE Goto(c, "count") /\ UNCHANGED codes
    /\ UNCHANGED <<factor, challenge, tries, young, number, userLock, lock,
                   method, seen, shown, rest, undoing>>

(* Variant: the UPDATE does not compare attempt_count with the maximum.    *)
CountEveryAttempt(c) ==
    LET o == seen[c] IN
    /\ pc[c] = "count"
    /\ lock[o] = NoRequest
    /\ tries' = IF challenge[o] = "open" THEN [tries EXCEPT ![o] = @ + 1] ELSE tries
    /\ Goto(c, "failed")
    /\ UNCHANGED <<factor, challenge, young, codes, number, userLock, lock,
                   method, seen, shown, rest, undoing>>

(* IncrementActiveChallengeAttempts, whose error nobody looks at.          *)
CountAttempt(c) ==
    LET o == seen[c] IN
    /\ pc[c] = "count"
    /\ IF Usable(o)
          THEN lock[o] = NoRequest /\ tries' = [tries EXCEPT ![o] = @ + 1]
          ELSE UNCHANGED tries
    /\ Goto(c, "failed")
    /\ UNCHANGED <<factor, challenge, young, codes, number, userLock, lock,
                   method, seen, shown, rest, undoing>>

(* Variant: the factor is turned on before its recovery codes are there.   *)
AfterConsumeActivates(c) ==
    IF c \in SetupCodes THEN "activate" ELSE IF c \in LoginCodes THEN "done" ELSE "recheck"

AfterConsume(c) ==
    IF c \in SetupCodes THEN "bulk" ELSE IF c \in LoginCodes THEN "done" ELSE "recheck"

(* Variant: consumed_at is not asked for a second time.                    *)
ConsumeChallengeAgain(c) ==
    LET o == seen[c] IN
    /\ pc[c] = "consume"
    /\ lock[o] = NoRequest
    /\ tries[o] < MaxAttempts
    /\ challenge' = [challenge EXCEPT ![o] = "consumed"]
    /\ Goto(c, AfterConsume(c))
    /\ UNCHANGED <<factor, tries, young, codes, number, userLock, lock,
                   method, seen, shown, rest, undoing>>

(* Variant: attempt_count is not asked for a second time.                  *)
ConsumeExhaustedChallenge(c) ==
    LET o == seen[c] IN
    /\ pc[c] = "consume"
    /\ IF challenge[o] = "open"
          THEN /\ lock[o] = NoRequest
               /\ challenge' = [challenge EXCEPT ![o] = "consumed"]
               /\ Goto(c, AfterConsume(c))
          ELSE Goto(c, "failed") /\ UNCHANGED challenge
    /\ UNCHANGED <<factor, tries, young, codes, number, userLock, lock,
                   method, seen, shown, rest, undoing>>

(* ConsumeActiveChallenge: one UPDATE that asks for everything again.      *)
ConsumeChallenge(c) ==
    LET o == seen[c] IN
    /\ pc[c] = "consume"
    /\ IF Usable(o)
          THEN /\ lock[o] = NoRequest
               /\ challenge' = [challenge EXCEPT ![o] = "consumed"]
               /\ Answered(c, AfterConsume(c), "failed")
          ELSE Goto(c, "failed") /\ UNCHANGED challenge
    /\ UNCHANGED <<factor, tries, young, codes, number, userLock, lock,
                   method, seen, shown, rest, undoing>>

(* activate, after the recovery codes were replaced; should it fail,       *)
(* activateWithRecoveryCodes deletes every recovery code there is.         *)
Activate(c) ==
    /\ pc[c] = "activate"
    /\ userLock = NoRequest
    /\ factor' = method[c]
    /\ \/ Goto(c, "done") /\ UNCHANGED undoing
       \/ /\ "database" \in Faults
          /\ undoing' = undoing \cup {c}
          /\ Goto(c, "bulk")
    /\ UNCHANGED <<challenge, tries, young, codes, number, userLock, lock,
                   method, seen, shown, rest>>

(* disableWithoutVerification reads the status a second time.              *)
Recheck(c) ==
    /\ pc[c] = "recheck"
    /\ Goto(c, IF factor = "off" THEN "failed" ELSE "user")
    /\ UNCHANGED <<factor, challenge, tries, young, codes, number, userLock, lock,
                   method, seen, shown, rest, undoing>>

-----------------------------------------------------------------------------
(* The transactions: CreateChallenge (consume the old, insert the new),    *)
(* Replace (delete the old, insert the new), Disable (write the user,      *)
(* delete the codes), and Delete of the recovery codes.                    *)

(* Variant: the recovery codes stay.                                       *)
DisableUserOnly(c) ==
    /\ pc[c] = "user"
    /\ userLock = NoRequest
    /\ userLock' = c
    /\ Goto(c, "commit")
    /\ UNCHANGED <<factor, challenge, tries, young, codes, number, lock,
                   method, seen, shown, rest, undoing>>

DisableUser(c) ==
    /\ pc[c] = "user"
    /\ userLock = NoRequest
    /\ userLock' = c
    /\ Goto(c, "bulk")
    /\ UNCHANGED <<factor, challenge, tries, young, codes, number, lock,
                   method, seen, shown, rest, undoing>>

(* The rows a bulk statement of r still finds to write.                    *)
Affected(r) ==
    IF r \in Openers
       THEN {o \in SameKind(r) : challenge[o] \in {"open", "expired"}}
       ELSE {m \in Makers : codes[m] # "none"}

(* It sees what is committed when it starts ...                            *)
StartBulk(r) ==
    /\ pc[r] = "bulk"
    /\ rest' = [rest EXCEPT ![r] = Affected(r)]
    /\ Goto(r, "rest")
    /\ UNCHANGED <<factor, challenge, tries, young, codes, number, userLock, lock,
                   method, seen, shown, undoing>>

(* ... visits the rows in whatever order the table is read, waits for each *)
(* to be free and looks at it again ...                                    *)
VisitRow(r) ==
    /\ pc[r] = "rest"
    /\ \E i \in rest[r] :
          /\ lock[i] = NoRequest
          /\ lock' = IF i \in Affected(r) THEN [lock EXCEPT ![i] = r] ELSE lock
          /\ rest' = [rest EXCEPT ![r] = @ \ {i}]
    /\ UNCHANGED <<factor, challenge, tries, young, codes, number, userLock,
                   pc, method, seen, shown, undoing>>

Inserts(r) == r \in Rows \ undoing

(* ... and the insert follows; a challenge has the next id.                *)
InsertRow(r) ==
    /\ pc[r] = "rest"
    /\ rest[r] = {}
    /\ number' = IF r \in Openers
                    THEN [number EXCEPT ![r] = Cardinality({o \in Openers : number[o] # 0}) + 1]
                    ELSE number
    /\ Goto(r, "commit")
    /\ UNCHANGED <<factor, challenge, tries, young, codes, userLock, lock,
                   method, seen, shown, rest, undoing>>

FreeNothing(r) == lock   \* variant: the transaction is left open
Free(r) == [i \in Rows |-> IF lock[i] = r THEN NoRequest ELSE lock[i]]
FreeUser(r) == IF userLock = r THEN NoRequest ELSE userLock

(* A setup goes on to activate; one that is undoing has failed.            *)
AfterCommit(r) ==
    IF r \in undoing THEN "failed" ELSE IF r \in SetupCodes THEN "activate" ELSE "done"

(* The mail with the code may fail as well once the challenge is there.    *)
Commit(r) ==
    /\ pc[r] = "commit"
    /\ factor' = IF userLock = r THEN "off" ELSE factor
    /\ challenge' = [o \in Openers |->
                        IF o = r THEN "open" ELSE IF lock[o] = r THEN "consumed" ELSE challenge[o]]
    /\ codes' = [m \in Makers |->
                    IF m = r /\ Inserts(r) THEN "fresh" ELSE IF lock[m] = r THEN "none" ELSE codes[m]]
    /\ young' = IF r \in Openers THEN young \cup {r} ELSE young
    /\ userLock' = FreeUser(r)
    /\ lock' = Free(r)
    /\ Answered(r, AfterCommit(r), "failed")
    /\ UNCHANGED <<tries, number, method, seen, shown, rest, undoing>>

(* An error rolls the transaction back; a failed Use is a wrong answer and *)
(* a failed activation deletes the recovery codes.                         *)
Abort(r) ==
    /\ Goto(r, IF pc[r] = "use" THEN "count" ELSE IF pc[r] = "activate" THEN "bulk" ELSE "failed")
    /\ undoing' = IF pc[r] = "activate" THEN undoing \cup {r} ELSE undoing
    /\ userLock' = FreeUser(r)
    /\ lock' = Free(r)
    /\ rest' = [rest EXCEPT ![r] = {}]
    /\ UNCHANGED <<factor, challenge, tries, young, codes, number, method, seen, shown>>

StatementFails(r) ==
    /\ "database" \in Faults
    /\ Running(r)
    /\ Abort(r)

(* Whom a request waits for while others may wait for it, and whether it   *)
(* waits for itself in the end.  Only a bulk statement holds rows when it  *)
(* has to wait.  PostgreSQL ends a circle by failing one of its statements.*)
Holders(r) ==
    IF pc[r] = "rest" /\ \A i \in rest[r] : lock[i] # NoRequest
       THEN {lock[i] : i \in rest[r]} ELSE {}

WaitsForItself(r) ==
    /\ Holders(r) # {}
    /\ \A S \in SUBSET Requests :
          (Holders(r) \subseteq S /\ \A s \in S : Holders(s) \subseteq S) => r \in S

DeadlockVictim(r) ==
    /\ WaitsForItself(r)
    /\ Abort(r)

-----------------------------------------------------------------------------
(* Time passes: a minute, and in the end the ten minutes of a challenge.   *)
Age(o) ==
    /\ o \in young
    /\ young' = young \ {o}
    /\ UNCHANGED <<factor, challenge, tries, codes, number, userLock, lock,
                   pc, method, seen, shown, rest, undoing>>

Expire(o) ==
    /\ challenge[o] = "open"
    /\ o \notin young
    /\ challenge' = [challenge EXCEPT ![o] = "expired"]
    /\ UNCHANGED <<factor, tries, young, codes, number, userLock, lock,
                   pc, method, seen, shown, rest, undoing>>

(* The server stops.  On its way up DeleteExpiredChallenges removes rows   *)
(* of another day, which no statement finds any more.                      *)
Restart ==
    /\ "restart" \in Faults
    /\ \E r \in Requests : Running(r)
    /\ pc' = [r \in Requests |-> IF Running(r) THEN "dead" ELSE pc[r]]
    /\ userLock' = NoRequest
    /\ lock' = [i \in Rows |-> NoRequest]
    /\ rest' = [r \in Requests |-> {}]
    /\ UNCHANGED <<factor, challenge, tries, young, codes, number, method, seen,
                   shown, undoing>>

Check(c) ==
    \/ SelectChallenge(c)
    \/ UseRecoveryCode(c)
    \/ CountAttempt(c)
    \/ ConsumeChallenge(c)

Bulk(r) == StartBulk(r) \/ VisitRow(r) \/ InsertRow(r) \/ Commit(r)

Statement(r) ==
    \/ r \in Openers /\ ChallengeCooldown(r)
    \/ r \in Checkers /\ Check(r)
    \/ r \in SetupCodes /\ Activate(r)
    \/ r \in DisableCodes /\ (Recheck(r) \/ DisableUser(r))
    \/ Bulk(r)
    \/ DeadlockVictim(r)

Quiet ==
    /\ \A r \in Requests : pc[r] \in Ended
    /\ UNCHANGED vars

Next ==
    \/ \E r \in Requests : GetStatus(r) \/ Statement(r) \/ StatementFails(r)
    \/ \E o \in Openers : Age(o) \/ Expire(o)
    \/ Restart
    \/ Quiet

Spec == Init /\ [][Next]_vars

(* A request once begun is scheduled and the database answers, with an     *)
(* error to one of those that wait for each other.                         *)
Fairness == \A r \in Requests : WF_vars(Statement(r))

FairSpec == Spec /\ Fairness

-----------------------------------------------------------------------------
(* The answer of checker c was right and the challenge was its to consume. *)
Passed(c) ==
    /\ seen[c] # NoRequest
    /\ pc[c] \in {"recheck", "user", "bulk", "rest", "commit", "activate", "done"}

(* A challenge lets one request pass: of two with the same code in flight, *)
(* which both read it while it was open, the UPDATE accepts only one.      *)
PassesOnce ==
    \A c, d \in Checkers : Passed(c) /\ Passed(d) /\ seen[c] = seen[d] => c = d

(* A recovery code completes one login ("aceita codigo de recuperacao uma  *)
(* unica vez"), whichever challenges the logins answer.                    *)
RecoveryCodeOnce ==
    \A c, d \in LoginCodes :
        (Passed(c) /\ Passed(d) /\ shown[c] # NoRequest /\ shown[c] = shown[d]) => c = d

(* Nobody passes with a challenge whose attempts are used up, not even a   *)
(* request that read it while attempts were left and compared before the   *)
(* others were counted; and nothing is counted once somebody has passed.   *)
PassedWithinLimit ==
    \A c \in Checkers : Passed(c) => tries[seen[c]] < MaxAttempts

(* Disabling takes the recovery codes along: with the factor off and no    *)
(* request in flight the only codes left come from a regeneration that     *)
(* read the status before, which GenerateRecoveryCodes does not lock, or   *)
(* from a setup that a fault cut short before it was active.               *)
LeftoverCodesAreRegenerated ==
    (factor = "off" /\ \A r \in Requests : ~Running(r))
        => \A v \in SetupCodes : codes[v] # "none" =>
              Faults # {} /\ pc[v] \in {"failed", "dead"}

(* Where a visitor of SecondFactor is, and what has become of a kit.       *)
StageOf(c) ==
    CASE pc[c] \in {"idle", "select", "use", "count", "consume"} -> "outside"
      [] pc[c] \in {"failed", "dead"} -> "away"
      [] OTHER -> "inside"

DoorOf(o) ==
    IF challenge[o] \in {"none", "open"} THEN challenge[o] ELSE "shut"

EntryOf(c) == IF StageOf(c) = "inside" THEN seen[c] ELSE NoRequest
HeldBy(l) == IF StageOf(l) = "inside" \/ pc[l] = "consume" THEN shown[l] ELSE NoRequest

KitOf(m) ==
    IF codes[m] # "none" THEN codes[m]
    ELSE IF m \in undoing \/ pc[m] \in Ended \cup {"activate"} THEN "gone"
    ELSE "unmade"

(* The code keeps the promise of SecondFactor: every request takes place   *)
(* at the instant of one statement, although it compares what it read and  *)
(* writes what it compared in statements of their own.                     *)
Gate == INSTANCE SecondFactor WITH
    Setups <- SetupCodes, Logins <- LoginCodes, Disablings <- DisableCodes,
    SetupDoors <- SetupStarts, LoginDoors <- LoginStarts, DisableDoors <- DisableStarts,
    Nothing <- NoRequest,
    door <- [o \in Openers |-> DoorOf(o)],
    sent <- [o \in SetupStarts |-> method[o]],
    misses <- tries,
    stage <- [c \in Checkers |-> StageOf(c)],
    entry <- [c \in Checkers |-> EntryOf(c)],
    held <- [l \in LoginCodes |-> HeldBy(l)],
    kit <- [m \in Makers |-> KitOf(m)]

ImplementsSecondFactor == Gate!Spec

(* Every request comes to an end, whichever rows it has to wait for.       *)
RequestsEnd == \A r \in Requests : Running(r) ~> pc[r] \in Ended

(* A login that was sent to the page for its code finds a challenge it can *)
(* still answer: "Limite de tentativas excedido. Faca login novamente."    *)
SigninGivesAnswerableChallenge ==
    [][\A l \in LoginStarts :
          (pc[l] = "cooldown" /\ pc'[l] = "done") => \E o \in ActiveChallenge(l) : Usable(o)]_vars

=============================================================================
