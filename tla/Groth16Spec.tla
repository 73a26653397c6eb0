---------------------------- MODULE Groth16Spec ----------------------------
(***************************************************************************)
(* What a Groth16Verifier promises its caller, with no computation in it:  *)
(* an object is made only of parts that fit together, and a call answers   *)
(* with the outcome that the object and the entry point determine.  What   *)
(* was called before, and how it ended, makes no difference.               *)
(***************************************************************************)
EXTENDS Groth16Statement

VARIABLES
    object,     \* the object of the caller, or None
    pending,    \* the call in progress, or None
    answer      \* what the last call or constructor returned

specVars == <<object, pending, answer>>

-----------------------------------------------------------------------------
SpecInit == object = None /\ pending = None /\ answer = "Ok"

Create ==
    /\ object = None
    /\ object' \in Groth16Verifier /\ WellShaped(object')
    /\ answer' = "Ok"
    /\ UNCHANGED pending

Refuse ==
    /\ object = None
    /\ answer' \in {"UnexpectedCommitmentKey", "MissingCommitmentKey",
                    "InvalidPublicInputsLength"}
    /\ UNCHANGED <<object, pending>>

Begin ==
    /\ object # None /\ pending = None
    /\ pending' \in [check : BOOLEAN, verify : BOOLEAN]
    /\ UNCHANGED <<object, answer>>

Finish ==
    /\ pending # None
    /\ answer' = Outcome(object, pending)
    /\ pending' = None
    /\ UNCHANGED object

SpecNext == Create \/ Refuse \/ Begin \/ Finish

AbstractSpec == SpecInit /\ [][SpecNext]_specVars
=============================================================================
