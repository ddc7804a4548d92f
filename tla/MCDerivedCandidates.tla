------------------------ MODULE MCDerivedCandidates ------------------------
(* An instance of DerivedCandidates for TLC.                               *)
EXTENDS DerivedCandidates
=============================================================================
