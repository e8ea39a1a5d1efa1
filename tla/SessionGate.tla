------------------------------- MODULE SessionGate -------------------------------
(***************************************************************************)
(* What signing in and out promises: a session is opened once, closed for  *)
(* good, and a request is let in only with a session that is open.         *)
(***************************************************************************)
CONSTANTS
    Sessions,
    Requests,
    Outside     \* no session: a request that is not let in

VARIABLES
    session,    \* session[s] \in {"new", "open", "closed"}
    inside      \* inside[r]: the session request r was let in with

vars == <<session, inside>>

Init ==
    /\ session = [s \in Sessions |-> "new"]
    /\ inside = [r \in Requests |-> Outside]

(* A new session takes the place of some that are open.                    *)
Open(s, replaced) ==
    /\ session[s] = "new"
    /\ \A t \in replaced : session[t] = "open"
    /\ session' = [t \in Sessions |-> IF t = s THEN "open"
                                      ELSE IF t \in replaced THEN "closed" ELSE session[t]]
    /\ UNCHANGED inside

Close(S) ==
    /\ \A s \in S : session[s] = "open"
    /\ session' = [s \in Sessions |-> IF s \in S THEN "closed" ELSE session[s]]
    /\ UNCHANGED inside

Enter(r, s) ==
    /\ inside[r] = Outside
    /\ session[s] = "open"
    /\ inside' = [inside EXCEPT ![r] = s]
    /\ UNCHANGED session

Next ==
    \/ \E S \in SUBSET Sessions : Close(S) \/ \E s \in Sessions : Open(s, S)
    \/ \E r \in Requests, s \in Sessions : Enter(r, s)

Spec == Init /\ [][Next]_vars

=============================================================================
