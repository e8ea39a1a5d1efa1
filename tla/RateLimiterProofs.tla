---------------------------- MODULE RateLimiterProofs ---------------------------
(***************************************************************************)
(* What RateLimiter guarantees for every limit, window and wait, and for   *)
(* every number of requests and addresses.                                 *)
(*                                                                         *)
(* What a list has lost is a whole window old by the clock, since whoever  *)
(* pruned it had read the clock before.  A request may be late by Delay,   *)
(* so in its eyes the list lacks nothing younger than Window - Delay.      *)
(***************************************************************************)
EXTENDS RateLimiter, FiniteSetTheorems, TLAPS

(* What is assumed of the constants.                                       *)
Bounds == {Limit, Window, Delay, MaxTime} \subseteq Nat /\ IsFiniteSet(Requests)

(* Times are read from the clock, and nobody waits too long.               *)
TimesRead ==
    \A r \in Requests :
        /\ pc[r] # "new" => now[r] <= clock
        /\ pc[r] = "waiting" => clock <= now[r] + Delay

(* A list holds only requests of its address that got through.             *)
ListsAllowed == \A ip \in Addresses : requests[ip] \subseteq Allowed(ip)

(* What has got through and is not in the list is too old for it.          *)
ForgottenOld ==
    \A ip \in Addresses : \A s \in Allowed(ip) \ requests[ip] : now[s] <= clock - Window

IInv == TypeOK /\ TimesRead /\ ListsAllowed /\ ForgottenOld /\ WindowKept /\ RefusedForCause

(* The requests that may count against r.                                  *)
Causes(r) ==
    {s \in Allowed(address[r]) : now[r] - Window < now[s] /\ now[s] <= now[r] + Delay}

-----------------------------------------------------------------------------
LEMMA InitInv ==
    ASSUME Bounds
    PROVE  Init => IInv
<1> USE Bounds DEF Bounds
<1> SUFFICES ASSUME Init PROVE IInv
  OBVIOUS
<1>1. TypeOK /\ TimesRead /\ ListsAllowed /\ ForgottenOld /\ RefusedForCause
  BY DEF Init, TypeOK, TimesRead, ListsAllowed, ForgottenOld, RefusedForCause,
     Allowed
<1>2. \A ip \in Addresses : Allowed(ip) = {}
  BY DEF Init, Allowed
<1>3. WindowKept
  BY <1>2, FS_EmptySet DEF WindowKept
<1> QED
  BY <1>1, <1>3 DEF IInv

LEMMA TypeStep ==
    ASSUME Bounds
    PROVE  TypeOK /\ [Next]_vars => TypeOK'
<1> USE Bounds DEF Bounds
<1> SUFFICES ASSUME TypeOK, [Next]_vars PROVE TypeOK'
  OBVIOUS
<1> USE DEF TypeOK
<1>1. ASSUME NEW r \in Requests, Limiting(r) PROVE TypeOK'
  BY <1>1 DEF Limiting
<1>2. ASSUME NEW r \in Requests, Admit(r) PROVE TypeOK'
  BY <1>2 DEF Admit, Answer, Kept
<1>3. ASSUME NEW r \in Requests, Refuse(r) PROVE TypeOK'
  BY <1>3 DEF Refuse, Answer, Kept
<1>4. CASE Tick
  BY <1>4 DEF Tick
<1>5. CASE UNCHANGED vars
  BY <1>5 DEF vars
<1> QED
  BY <1>1, <1>2, <1>3, <1>4, <1>5 DEF Next, Quiet

LEMMA TimesStep ==
    ASSUME Bounds
    PROVE  TypeOK /\ TimesRead /\ [Next]_vars => TimesRead'
<1> USE Bounds DEF Bounds
<1> SUFFICES ASSUME TypeOK, TimesRead, [Next]_vars PROVE TimesRead'
  OBVIOUS
<1> USE DEF TypeOK, TimesRead
<1>1. ASSUME NEW r \in Requests, Limiting(r) PROVE TimesRead'
  BY <1>1 DEF Limiting
<1>2. ASSUME NEW r \in Requests, NEW a \in {"allowed", "refused"}, NEW S, Answer(r, a, S)
      PROVE  TimesRead'
  BY <1>2 DEF Answer
<1>3. CASE Tick
  BY <1>3 DEF Tick
<1>4. CASE UNCHANGED vars
  BY <1>4 DEF vars
<1> QED
  BY <1>1, <1>2, <1>3, <1>4 DEF Next, Quiet, Admit, Refuse

(* Who got through stays so; only Admit adds to them.                      *)
LEMMA AllowedStep ==
    ASSUME Bounds, TypeOK, [Next]_vars
    PROVE  /\ \A ip \in Addresses : Allowed(ip) \subseteq Allowed(ip)'
           /\ (\A r \in Requests : ~Admit(r)) => \A ip \in Addresses : Allowed(ip)' = Allowed(ip)
           /\ \A r \in Requests : Admit(r) =>
                 \A ip \in Addresses : Allowed(ip)' = Allowed(ip) \cup (IF ip = address[r] THEN {r} ELSE {})
           /\ \A s \in Requests : pc[s] # "new" => now'[s] = now[s]
           /\ address' = address
<1> USE Bounds DEF Bounds
<1> USE DEF TypeOK, Allowed
<1>1. ASSUME NEW r \in Requests, Limiting(r)
      PROVE  /\ \A s \in Requests : pc[s] # "new" => now'[s] = now[s] /\ pc'[s] = pc[s]
             /\ pc[r] = "new" /\ pc'[r] = "waiting"
             /\ \A s \in Requests \ {r} : pc'[s] = pc[s]
             /\ address' = address /\ requests' = requests
  BY <1>1 DEF Limiting
<1>2. ASSUME NEW r \in Requests, Admit(r)
      PROVE  /\ now' = now /\ address' = address
             /\ pc[r] = "waiting" /\ pc'[r] = "allowed"
             /\ \A s \in Requests \ {r} : pc'[s] = pc[s]
  BY <1>2 DEF Admit, Answer
<1>3. ASSUME NEW r \in Requests, Refuse(r)
      PROVE  /\ now' = now /\ address' = address
             /\ pc[r] = "waiting" /\ pc'[r] = "refused"
             /\ \A s \in Requests \ {r} : pc'[s] = pc[s]
  BY <1>3 DEF Refuse, Answer
<1>4. CASE \E r \in Requests : Limiting(r)
  <2>1. PICK r \in Requests : Limiting(r)
    BY <1>4
  <2>2. \A ip \in Addresses : Allowed(ip)' = Allowed(ip)
    BY <1>1, <2>1
  <2>3. \A q \in Requests : ~Admit(q)
    BY <1>1, <1>2, <2>1
  <2> QED
    BY <1>1, <2>1, <2>2, <2>3
<1>5. CASE \E r \in Requests : Admit(r)
  <2>1. ASSUME NEW r \in Requests, Admit(r)
        PROVE  \A ip \in Addresses : Allowed(ip)' = Allowed(ip) \cup (IF ip = address[r] THEN {r} ELSE {})
    BY <1>2, <2>1
  <2> QED
    BY <1>2, <1>5, <2>1
<1>6. CASE \E r \in Requests : Refuse(r)
  <2>1. PICK r \in Requests : Refuse(r)
    BY <1>6
  <2>2. \A ip \in Addresses : Allowed(ip)' = Allowed(ip)
    BY <1>3, <2>1
  <2>3. \A q \in Requests : ~Admit(q)
    BY <1>3, <1>2, <2>1
  <2> QED
    BY <1>3, <2>1, <2>2, <2>3
<1>7. CASE Tick \/ UNCHANGED vars
  <2>1. pc' = pc /\ now' = now /\ address' = address
    BY <1>7 DEF Tick, vars
  <2>2. \A q \in Requests : ~Admit(q)
    BY <1>2, <2>1
  <2> QED
    BY <2>1, <2>2
<1> QED
  BY <1>4, <1>5, <1>6, <1>7 DEF Next, Quiet

(* Only Admit and Refuse touch a list, the one of the request's address.   *)
LEMMA ListsStep ==
    ASSUME Bounds
    PROVE  TypeOK /\ TimesRead /\ ListsAllowed /\ ForgottenOld /\ [Next]_vars
           => (ListsAllowed /\ ForgottenOld)'
<1> USE Bounds DEF Bounds
<1> SUFFICES ASSUME TypeOK, TimesRead, ListsAllowed, ForgottenOld, [Next]_vars
             PROVE  (ListsAllowed /\ ForgottenOld)'
  OBVIOUS
<1>1. clock \in Int /\ clock' \in Int /\ clock <= clock' /\ Window \in Int
  <2>1. TypeOK'
    BY TypeStep
  <2>2. clock <= clock'
    BY DEF Next, Limiting, Admit, Refuse, Answer, Tick, Quiet, vars, TypeOK
  <2> QED
    BY <2>1, <2>2 DEF TypeOK
<1>2. \A s \in Requests : now[s] \in Int
  BY DEF TypeOK
<1>3. \A ip \in Addresses : \A s \in Allowed(ip) : s \in Requests /\ now'[s] = now[s]
  BY AllowedStep DEF Allowed
<1>4. ASSUME requests' = requests, \A r \in Requests : ~Admit(r)
      PROVE  (ListsAllowed /\ ForgottenOld)'
  <2>1. \A ip \in Addresses : Allowed(ip)' = Allowed(ip)
    BY <1>4, AllowedStep
  <2>2. ListsAllowed'
    BY <2>1, <1>4 DEF ListsAllowed
  <2>3. ForgottenOld'
    BY <2>1, <1>1, <1>2, <1>3, <1>4 DEF ForgottenOld
  <2> QED
    BY <2>2, <2>3
<1>5. ASSUME NEW r \in Requests, Admit(r) \/ Refuse(r)
      PROVE  (ListsAllowed /\ ForgottenOld)'
  <2> DEFINE ip == address[r]
             mine == IF Admit(r) THEN {r} ELSE {}
  <2>1. /\ pc[r] = "waiting" /\ ip \in Addresses
        /\ \A i \in Addresses \ {ip} : requests'[i] = requests[i]
    BY <1>5 DEF Admit, Refuse, Answer, TypeOK
  <2>2. requests'[ip] = Kept(r) \cup mine
    BY <1>5, <2>1 DEF Admit, Refuse, Answer, TypeOK
  <2>3. \A i \in Addresses : Allowed(i)' = Allowed(i) \cup (IF i = ip THEN mine ELSE {})
    <3>1. CASE Admit(r)
      BY <3>1, AllowedStep
    <3>2. CASE ~Admit(r)
      <4>1. \A q \in Requests : ~Admit(q)
        <5>1. Refuse(r)
          BY <3>2, <1>5
        <5>2. pc'[r] = "refused"
          BY <5>1 DEF Refuse, Answer, TypeOK
        <5>3. ASSUME NEW q \in Requests, Admit(q) PROVE FALSE
          <6>1. pc' = [pc EXCEPT ![q] = "allowed"]
            BY <5>3 DEF Admit, Answer
          <6>2. pc'[r] \in {pc[r], "allowed"}
            BY <6>1 DEF TypeOK
          <6> QED
            BY <6>2, <5>2, <2>1
        <5> QED
          BY <5>3
      <4> QED
        BY <4>1, <3>2, AllowedStep
    <3> QED
      BY <3>1, <3>2
  <2>4. Kept(r) \subseteq requests[ip]
    BY DEF Kept
  <2>5. ListsAllowed'
    BY <2>1, <2>2, <2>3, <2>4 DEF ListsAllowed
  <2>6. ASSUME NEW i \in Addresses, NEW s \in Allowed(i)' \ requests'[i]
        PROVE  now'[s] <= clock' - Window
    <3>1. CASE s \in Allowed(i) /\ s \notin requests[i]
      BY <3>1, <1>1, <1>2, <1>3 DEF ForgottenOld
    <3>2. CASE s \in Allowed(i) /\ s \in requests[i]
      <4>1. i = ip /\ s \notin Kept(r)
        BY <3>2, <2>1, <2>2, <2>6
      <4>2. now[s] <= now[r] - Window
        BY <4>1, <3>2, <1>1, <1>2, <1>3 DEF Kept
      <4>3. now[r] <= clock
        BY <2>1 DEF TimesRead
      <4> QED
        BY <4>2, <4>3, <3>2, <1>1, <1>2, <1>3
    <3> QED
      BY <3>1, <3>2, <2>2, <2>3, <2>6
  <2> QED
    BY <2>5, <2>6 DEF ForgottenOld
<1>6. CASE \A r \in Requests : ~Admit(r) /\ ~Refuse(r)
  <2>1. requests' = requests
    BY <1>6 DEF Next, Limiting, Tick, Quiet, vars
  <2> QED
    BY <1>4, <1>6, <2>1
<1> QED
  BY <1>5, <1>6

LEMMA AllowedFinite ==
    ASSUME Bounds
    PROVE  \A ip \in Addresses : IsFiniteSet(Allowed(ip))
  BY Bounds, FS_Subset DEF Allowed, Bounds

LEMMA WindowStep ==
    ASSUME Bounds
    PROVE  IInv /\ [Next]_vars => WindowKept'
<1> USE Bounds DEF Bounds
<1> SUFFICES ASSUME IInv, [Next]_vars,
                    NEW ip \in Addresses, NEW S \in SUBSET (Allowed(ip)'),
                    \A r, s \in S : now'[r] - now'[s] < Window - Delay
             PROVE  Cardinality(S) <= Limit
  BY DEF WindowKept
<1> USE DEF IInv
<1>1. \A s \in Requests : now[s] \in Int /\ now'[s] \in Int
  BY TypeStep DEF TypeOK
<1>2. clock \in Int /\ Window \in Int /\ Delay \in Int /\ Limit \in Int
  BY DEF TypeOK
<1>3. \A s \in Allowed(ip) : s \in Requests /\ now'[s] = now[s]
  BY AllowedStep DEF Allowed
<1>4. CASE S \subseteq Allowed(ip)
  <2>1. \A r, s \in S : now[r] - now[s] < Window - Delay
    BY <1>3, <1>4
  <2> QED
    BY <1>4, <2>1 DEF WindowKept
<1>5. CASE ~(S \subseteq Allowed(ip))
  <2>1. PICK r \in Requests : Admit(r)
    BY <1>5, AllowedStep
  <2>2. ip = address[r] /\ r \in S /\ S \ {r} \subseteq Allowed(ip)
    BY <1>5, <2>1, AllowedStep
  <2>3. pc[r] = "waiting" /\ now' = now /\ Cardinality(Kept(r)) < Limit
    BY <2>1 DEF Admit, Answer
  <2>4. clock <= now[r] + Delay
    BY <2>3 DEF TimesRead
  <2>5. S \ {r} \subseteq Kept(r)
    <3> SUFFICES ASSUME NEW s \in S \ {r} PROVE s \in Kept(r)
      OBVIOUS
    <3>1. now[r] - now[s] < Window - Delay
      BY <2>2, <2>3
    <3>2. s \in Allowed(ip) /\ now[s] \in Int
      BY <2>2, <1>1, <1>3
    <3>3. now[s] > clock - Window /\ now[s] > now[r] - Window
      BY <3>1, <3>2, <2>4, <1>1, <1>2
    <3>4. s \in requests[ip]
      BY <3>2, <3>3, <1>2 DEF ForgottenOld
    <3> QED
      BY <3>3, <3>4, <2>2 DEF Kept
  <2>6. IsFiniteSet(Kept(r)) /\ IsFiniteSet(S)
    <3>1. Kept(r) \subseteq Allowed(ip)
      BY <2>2 DEF Kept, ListsAllowed
    <3>2. S \subseteq Requests
      BY <2>2, <1>3
    <3> QED
      BY <3>1, <3>2, AllowedFinite, FS_Subset
  <2>7. Cardinality(S \ {r}) <= Cardinality(Kept(r))
    BY <2>5, <2>6, FS_Subset
  <2>8. IsFiniteSet(S \ {r}) /\ Cardinality(S \ {r}) = Cardinality(S) - 1
    BY <2>2, <2>6, FS_RemoveElement
  <2>9. /\ Cardinality(S \ {r}) \in Nat
        /\ Cardinality(S) \in Nat
        /\ Cardinality(Kept(r)) \in Nat
    BY <2>6, <2>8, FS_CardinalityType
  <2> QED
    BY <2>3, <2>7, <2>8, <2>9, <1>2
<1> QED
  BY <1>4, <1>5

LEMMA CauseStep ==
    ASSUME Bounds
    PROVE  IInv /\ [Next]_vars => RefusedForCause'
<1> USE Bounds DEF Bounds
<1> SUFFICES ASSUME IInv, [Next]_vars, NEW r \in Requests, pc'[r] = "refused"
             PROVE  Cardinality(Causes(r)') >= Limit
  BY DEF RefusedForCause, Causes
<1> USE DEF IInv
<1>1. address[r] \in Addresses /\ address' = address
  BY AllowedStep DEF TypeOK
<1>2. pc[r] # "new" /\ now'[r] = now[r]
  <2>1. pc[r] # "new"
    BY DEF Next, Limiting, Admit, Refuse, Answer, Tick, Quiet, vars, TypeOK
  <2> QED
    BY <2>1, AllowedStep
<1>3. Causes(r) \subseteq Causes(r)'
  <2>1. \A s \in Allowed(address[r]) : s \in Allowed(address[r])' /\ now'[s] = now[s]
    BY <1>1, AllowedStep DEF Allowed
  <2> QED
    BY <2>1, <1>1, <1>2 DEF Causes
<1>4. IsFiniteSet(Causes(r)') /\ IsFiniteSet(Causes(r))
  <2>1. Causes(r)' \subseteq Requests /\ Causes(r) \subseteq Requests
    BY DEF Causes, Allowed
  <2> QED
    BY <2>1, FS_Subset
<1>5. ASSUME NEW S \in SUBSET Causes(r), Cardinality(S) >= Limit
      PROVE  Cardinality(Causes(r)') >= Limit
  <2>1. IsFiniteSet(S) /\ Cardinality(S) <= Cardinality(Causes(r)')
    BY <1>3, <1>4, FS_Subset
  <2> QED
    BY <2>1, <1>4, <1>5, FS_CardinalityType
<1>6. CASE pc[r] = "refused"
  <2>1. Cardinality(Causes(r)) >= Limit
    BY <1>6 DEF RefusedForCause, Causes
  <2> QED
    BY <2>1, <1>5
<1>7. CASE pc[r] # "refused"
  <2>1. Refuse(r)
    BY <1>7 DEF Next, Limiting, Admit, Refuse, Answer, Tick, Quiet, vars, TypeOK
  <2>2. pc[r] = "waiting" /\ Cardinality(Kept(r)) >= Limit
    BY <2>1 DEF Refuse, Answer
  <2>3. clock <= now[r] + Delay
    BY <2>2 DEF TimesRead
  <2>4. Kept(r) \subseteq Causes(r)
    <3> SUFFICES ASSUME NEW s \in Kept(r) PROVE s \in Causes(r)
      OBVIOUS
    <3>1. s \in Allowed(address[r]) /\ now[s] > now[r] - Window
      BY <1>1 DEF Kept, ListsAllowed
    <3>2. s \in Requests /\ now[s] <= clock
      BY <3>1 DEF Allowed, TimesRead
    <3> QED
      BY <3>1, <3>2, <2>3 DEF Causes, TypeOK
  <2> QED
    BY <2>2, <2>4, <1>5
<1> QED
  BY <1>6, <1>7

LEMMA Invariance ==
    ASSUME Bounds
    PROVE  Spec => []IInv
<1> USE Bounds DEF Bounds
<1>1. IInv /\ [Next]_vars => IInv'
  BY TypeStep, TimesStep, ListsStep, WindowStep, CauseStep DEF IInv
<1> QED
  BY InitInv, <1>1, PTL DEF Spec

-----------------------------------------------------------------------------
(* Every variable keeps its type.                                          *)
THEOREM TypeCorrect ==
    ASSUME Bounds
    PROVE  Spec => []TypeOK
<1> USE Bounds DEF Bounds
<1>1. IInv => TypeOK
  BY DEF IInv
<1> QED
  BY <1>1, Invariance, PTL

(* No address gets more than Limit requests through within a window        *)
(* shorter by the longest wait for the mutex, in whatever order they get   *)
(* it (ipRateLimiter.allow).                                               *)
THEOREM WindowHolds ==
    ASSUME Bounds
    PROVE  Spec => []WindowKept
<1> USE Bounds DEF Bounds
<1>1. IInv => WindowKept
  BY DEF IInv
<1> QED
  BY <1>1, Invariance, PTL

(* Nobody is refused but for Limit requests of the same address that got   *)
(* through in the window before, or while the request waited.              *)
THEOREM NobodyRefusedInVain ==
    ASSUME Bounds
    PROVE  Spec => []RefusedForCause
<1> USE Bounds DEF Bounds
<1>1. IInv => RefusedForCause
  BY DEF IInv
<1> QED
  BY <1>1, Invariance, PTL

=============================================================================
