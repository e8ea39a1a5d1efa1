---------------------------- MODULE MCAccountTokens ----------------------------
(* AccountTokens for TLC: requests of the same kind and the addresses are  *)
(* interchangeable.                                                        *)
EXTENDS AccountTokens, TLC

Interchangeable ==
    UNION {Permutations(S) : S \in {Signups, Resends, Confirms, Forgots, Resets,
        PasswordChanges, RecoveryChanges, RecoveryConfirms, Addresses}}

=============================================================================
