----------------------------- MODULE MCUserSessions -----------------------------
(* UserSessions for TLC: sign-ins, the other requests and the devices are  *)
(* interchangeable.                                                        *)
EXTENDS UserSessions, TLC

Interchangeable ==
    UNION {Permutations(S) : S \in {Signins, Others, Devices}}

=============================================================================
