------------------------------ MODULE MailedLinks ------------------------------
(***************************************************************************)
(* What the links mailed to the owner of an account promise, whatever runs *)
(* at once: each is made once, is no good any more once it is late or      *)
(* void, and only who presents one of the right kind while it is good      *)
(* confirms the account, sets the password by mail or makes a recovery     *)
(* address final.  Every request takes place in one instant; the one good  *)
(* link for a recovery address comes and goes with the pending address.    *)
(***************************************************************************)
CONSTANTS
    Signups, Resends, Forgots, RecoveryChanges,   \* who has a link made
    Confirms, Resets, RecoveryConfirms,           \* who redeems one
    PasswordChanges,                              \* who needs none
    Addresses, NoAddress,
    Nobody          \* no password set here, no link presented

SignupLinks == Signups \cup Resends   \* a link is named after its maker
ResetLinks == Forgots
RecoveryLinks == RecoveryChanges
Links == SignupLinks \cup ResetLinks \cup RecoveryLinks
Redeemers == Confirms \cup Resets \cup RecoveryConfirms

LinksFor(r) ==
    IF r \in Confirms THEN SignupLinks ELSE IF r \in Resets THEN ResetLinks ELSE RecoveryLinks

VARIABLES
    user,       \* its state, password, recovery address and the one pending
    link,       \* link[i] \in {"unmade", "good", "late", "void"}
    mailed,     \* the links that were put in a mail
    refused,    \* the recovery changes whose mail was, or seemed, refused
    presented,  \* presented[r]: the link redeemer r came with
    address     \* address[b]: what recovery change b asks for

vars == <<user, link, mailed, refused, presented, address>>

Init ==
    /\ user \in [state: {"none", "active"}, password: {Nobody},
                 recovery: {NoAddress}, pending: {NoAddress}]
    /\ link = [i \in Links |-> "unmade"]
    /\ mailed = {}
    /\ refused = {}
    /\ presented = [r \in Redeemers |-> Nobody]
    /\ address \in [RecoveryChanges -> Addresses]

Good(L) == {i \in L : link[i] = "good"}
Made(L) == {i \in L : link[i] # "unmade"}

(* Some links are void from now on, and the ones in N are new.             *)
Change(V, N) ==
    link' = [i \in Links |-> IF i \in N THEN "good" ELSE IF i \in V THEN "void" ELSE link[i]]

New(i) == link[i] = "unmade"

Register(s) ==
    /\ user.state = "none"
    /\ New(s)
    /\ user' = [user EXCEPT !.state = "inactive"]
    /\ Change({}, {s})
    /\ UNCHANGED <<mailed, refused, presented, address>>

Issue(i, V) ==
    /\ New(i)
    /\ i \in Forgots => user.state = "active" /\ V \subseteq ResetLinks
    /\ i \in Resends => V \subseteq SignupLinks
    /\ Change(V, {i})
    /\ UNCHANGED <<user, mailed, refused, presented, address>>

Mail(i) ==
    /\ ~New(i)
    /\ mailed' = mailed \cup {i}
    /\ UNCHANGED <<user, link, refused, presented, address>>

Refuse(b) ==
    /\ ~New(b)
    /\ mailed' \in {mailed, mailed \cup {b}}
    /\ refused' = refused \cup {b}
    /\ UNCHANGED <<user, link, presented, address>>

Present(r, i) ==
    /\ presented[r] = Nobody
    /\ i \in mailed
    /\ link[i] = "good"
    /\ r \in Confirms => user.state = "inactive"
    /\ r \in RecoveryConfirms => user.pending # NoAddress
    /\ presented' = [presented EXCEPT ![r] = i]
    /\ UNCHANGED <<user, link, mailed, refused, address>>

(* The link is redeemed, and void whatever became of it meanwhile.         *)
Redeem(r, V) ==
    /\ presented[r] \in LinksFor(r)
    /\ presented[r] \in V
    /\ V \subseteq Made(LinksFor(r))
    /\ presented' = [presented EXCEPT ![r] = Nobody]
    /\ Change(V, {})
    /\ UNCHANGED <<mailed, refused, address>>

ConfirmAccount(r) ==
    /\ Redeem(r, {presented[r]})
    /\ user' = [user EXCEPT !.state = "active"]

ResetPassword(r, V) ==
    /\ Redeem(r, V)
    /\ user' = [user EXCEPT !.password = r]

(* No link for a recovery address is good afterwards.                      *)
ConfirmRecovery(r, V) ==
    /\ Redeem(r, V)
    /\ Good(RecoveryLinks) \subseteq V
    /\ user' = [user EXCEPT !.recovery = user.pending, !.pending = NoAddress]

ChangePassword(p, V) ==
    /\ user.state = "active"
    /\ V \subseteq Made(ResetLinks)
    /\ user' = [user EXCEPT !.password = p]
    /\ Change(V, {})
    /\ UNCHANGED <<mailed, refused, presented, address>>

(* The address is pending and its link the only good one, in one instant.  *)
AskRecovery(b, V) ==
    /\ user.state = "active"
    /\ New(b)
    /\ Good(RecoveryLinks) \subseteq V /\ V \subseteq Made(RecoveryLinks)
    /\ user' = [user EXCEPT !.pending = address[b]]
    /\ Change(V, {b})
    /\ UNCHANGED <<mailed, refused, presented, address>>

(* Only a change whose mail was refused is taken back, only where what is  *)
(* pending is its own, and once; it may void a newer link all the same.    *)
CancelRecovery(b, V) ==
    /\ b \in refused
    /\ refused' = refused \ {b}
    /\ V \subseteq Made(RecoveryLinks)
    /\ \/ UNCHANGED user
       \/ /\ user.pending = address[b]
          /\ Good(RecoveryLinks) \subseteq V
          /\ user' = [user EXCEPT !.pending = NoAddress]
    /\ Change(V, {})
    /\ UNCHANGED <<mailed, presented, address>>

(* A link is not redeemed after all, or a change not taken back.           *)
GiveUp(r) ==
    /\ presented' = [s \in Redeemers |-> IF s = r THEN Nobody ELSE presented[s]]
    /\ refused' = refused \ {r}
    /\ UNCHANGED <<user, link, mailed, address>>

Late(i) ==
    /\ link[i] = "good"
    /\ link' = [link EXCEPT ![i] = "late"]
    /\ UNCHANGED <<user, mailed, refused, presented, address>>

(* The server stops and sweeps up what is late.                            *)
Sweep ==
    /\ Change({i \in Links : link[i] = "late"}, {})
    /\ presented' = [r \in Redeemers |-> Nobody]
    /\ refused' = {}
    /\ UNCHANGED <<user, mailed, address>>

(* Most of what a request does shows nowhere.                               *)
Idle == UNCHANGED vars

Next ==
    \/ Idle
    \/ Sweep
    \/ \E i \in Links : Mail(i) \/ Late(i)
    \/ \E b \in RecoveryChanges : Refuse(b)
    \/ \E r \in Redeemers \cup RecoveryChanges : GiveUp(r)
    \/ \E r \in Redeemers : \E i \in LinksFor(r) : Present(r, i)
    \/ \E s \in Signups : Register(s)
    \/ \E r \in Confirms : ConfirmAccount(r)
    \/ \E V \in SUBSET Links :
          \/ \E i \in Resends \cup Forgots : Issue(i, V)
          \/ \E r \in Resets : ResetPassword(r, V)
          \/ \E p \in PasswordChanges : ChangePassword(p, V)
          \/ \E b \in RecoveryChanges : AskRecovery(b, V) \/ CancelRecovery(b, V)
          \/ \E r \in RecoveryConfirms : ConfirmRecovery(r, V)

Spec == Init /\ [][Next]_vars

=============================================================================
