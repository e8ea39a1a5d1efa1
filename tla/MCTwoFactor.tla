------------------------------ MODULE MCTwoFactor ------------------------------
(* TwoFactor for TLC: requests of the same kind are interchangeable, apart *)
(* from the setups verified before the behaviour starts.                   *)
EXTENDS TwoFactor, TLC

Interchangeable ==
    UNION {Permutations(S) : S \in {SetupStarts, SetupCodes \ Enrolled, LoginStarts,
        LoginCodes, DisableStarts, DisableCodes, Regenerations}}

=============================================================================
