---------------------------- MODULE OneTimeCode ----------------------------
(***************************************************************************)
(* What a challenge promises about guessing: each code it issues can be    *)
(* compared with at most MaxAttempts guesses, only the last code issued is *)
(* ever compared, and nothing but a new code restores the budget.          *)
(***************************************************************************)
EXTENDS Naturals

CONSTANTS Codes, MaxAttempts

VARIABLES
    phase,  \* "none" before the challenge, "live", "gone" after its purge
    code,   \* the last code issued
    left,   \* guesses it may still be compared with
    tries   \* guesses each code was compared with

vars == <<phase, code, left, tries>>

Init ==
    /\ phase = "none"
    /\ code = 0
    /\ left = 0
    /\ tries = [c \in Codes |-> 0]

Issue ==
    /\ phase \in {"none", "live"}
    /\ code + 1 \in Codes
    /\ phase' = "live"
    /\ code' = code + 1
    /\ left' = MaxAttempts
    /\ UNCHANGED tries

Try ==
    /\ phase = "live"
    /\ left > 0
    /\ left' = left - 1
    /\ tries' = [tries EXCEPT ![code] = @ + 1]
    /\ UNCHANGED <<phase, code>>

Drop ==
    /\ phase = "live"
    /\ phase' = "gone"
    /\ code' = 0
    /\ left' = 0
    /\ UNCHANGED tries

Next == Issue \/ Try \/ Drop

Spec == Init /\ [][Next]_vars

\* No code is compared with more than MaxAttempts guesses.
WithinBudget == \A c \in Codes : tries[c] <= MaxAttempts
=============================================================================
