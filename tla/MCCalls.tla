------------------------------ MODULE MCCalls ------------------------------
(* Instances of Calls for TLC: Ann calls Bob.                              *)
EXTENDS Calls, TLC

CONSTANTS ann, bob, call1, phone1, phone2, t1

MCHuman == (ann :> "Ann") @@ (bob :> "Bob")
MCMayCall == {<<ann, bob>>}
=============================================================================
