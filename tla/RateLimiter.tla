------------------------------- MODULE RateLimiter ------------------------------
(***************************************************************************)
(* The limit on requests from one address, of sign-in and of what else     *)
(* takes a password or a code.  A request reads the clock before it waits  *)
(* for the mutex, so the times in the list of an address may be out of     *)
(* order, and a late request is judged by a list that a later one has      *)
(* pruned.  The list lives as long as the process, as does this model.     *)
(***************************************************************************)
EXTENDS Integers, FiniteSets

CONSTANTS
    Requests,    \* each stands for the time that it leaves in a list
    Addresses,
    Limit,       \* limit and window of the limiter
    Window,
    Delay,       \* bound: the longest wait between the clock and the mutex
    MaxTime      \* bound: the last time there is

VARIABLES
    clock,
    pc,          \* pc[r] \in {"new", "waiting", "allowed", "refused"}
    address,     \* address[r], now[r]: the arguments of allow
    now,
    requests     \* requests[ip]: the times kept, as the requests they are of

vars == <<clock, pc, address, now, requests>>

Init ==
    /\ clock = 0
    /\ pc = [r \in Requests |-> "new"]
    /\ address \in [Requests -> Addresses]
    /\ now = [r \in Requests |-> 0]
    /\ requests = [ip \in Addresses |-> {}]

(* The middleware calls allow(key.ClientIP(r), time.Now()).                *)
Limiting(r) ==
    /\ pc[r] = "new"
    /\ pc' = [pc EXCEPT ![r] = "waiting"]
    /\ now' = [now EXCEPT ![r] = clock]
    /\ UNCHANGED <<clock, address, requests>>

(* ts.After(cutoff)                                                        *)
Kept(r) == {s \in requests[address[r]] : now[s] > now[r] - Window}

(* allow is one critical section, from Lock to the deferred Unlock.        *)
Answer(r, answer, times) ==
    /\ pc[r] = "waiting"
    /\ pc' = [pc EXCEPT ![r] = answer]
    /\ requests' = [requests EXCEPT ![address[r]] = times]
    /\ UNCHANGED <<clock, address, now>>

Admit(r) ==
    Cardinality(Kept(r)) < Limit /\ Answer(r, "allowed", Kept(r) \cup {r})

Refuse(r) ==
    Cardinality(Kept(r)) >= Limit /\ Answer(r, "refused", Kept(r))

(* Nobody waits for longer than Delay.                                     *)
Tick ==
    /\ clock < MaxTime
    /\ \A r \in Requests : pc[r] = "waiting" => clock < now[r] + Delay
    /\ clock' = clock + 1
    /\ UNCHANGED <<pc, address, now, requests>>

Quiet ==
    /\ \A r \in Requests : pc[r] \in {"allowed", "refused"}
    /\ UNCHANGED vars

Next ==
    \/ \E r \in Requests : Limiting(r) \/ Admit(r) \/ Refuse(r)
    \/ Tick
    \/ Quiet

Spec == Init /\ [][Next]_vars

-----------------------------------------------------------------------------
TypeOK ==
    /\ clock \in 0..MaxTime
    /\ pc \in [Requests -> {"new", "waiting", "allowed", "refused"}]
    /\ address \in [Requests -> Addresses]
    /\ now \in [Requests -> 0..MaxTime]
    /\ requests \in [Addresses -> SUBSET Requests]

Allowed(ip) == {r \in Requests : pc[r] = "allowed" /\ address[r] = ip}

(* No address gets more than Limit requests through whose times lie closer *)
(* together than the window.  The clock is read outside the mutex, so this *)
(* holds of a window shorter by the longest wait, and of no wider one.     *)
WindowKept ==
    \A ip \in Addresses : \A S \in SUBSET Allowed(ip) :
        (\A r, s \in S : now[r] - now[s] < Window - Delay) => Cardinality(S) <= Limit

(* What a request is refused for are Limit others of its own address that  *)
(* got through in the window before it, or overtook it in the wait: those  *)
(* refused, those of other addresses and those too old do not count.       *)
RefusedForCause ==
    \A r \in Requests : pc[r] = "refused" =>
        Cardinality({s \in Allowed(address[r]) :
                        now[r] - Window < now[s] /\ now[s] <= now[r] + Delay}) >= Limit

(* WindowKept without the wait.  False: when the list is pruned by a later *)
(* request first, one that comes late finds room of which it is no part.   *)
FullWindowKept ==
    \A ip \in Addresses : \A S \in SUBSET Allowed(ip) :
        (\A r, s \in S : now[r] - now[s] < Window) => Cardinality(S) <= Limit

=============================================================================
