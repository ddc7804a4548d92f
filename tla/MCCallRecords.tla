--------------------------- MODULE MCCallRecords ---------------------------
(* Instances of CallRecords for TLC: Ann has a profile in two workspaces,  *)
(* each of which she shares with one of the others.                        *)
EXTENDS CallRecords, TLC

CONSTANTS a1, a2, b, c, call1, call2, call3, t1, t2

MCProfiles == {a1, a2, b, c}
MCHuman == (a1 :> "Ann") @@ (a2 :> "Ann") @@ (b :> "Bob") @@ (c :> "Cat")
MCMayCall == {<<a1, b>>, <<b, a1>>, <<a2, c>>, <<c, a2>>}

MCSymmetry == Permutations(CallIds)
=============================================================================
