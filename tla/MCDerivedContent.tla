-------------------------- MODULE MCDerivedContent --------------------------
(* Instances of DerivedContent for TLC: two texts, one of them with a      *)
(* link, and a voice note.                                                 *)
EXTENDS DerivedContent, TLC

CONSTANTS hello, bye, note, s1, s2, v1

MCText == (hello :> s1) @@ (bye :> s2) @@ (note :> None)
MCVoices == [c \in Contents |-> IF c = note THEN {v1} ELSE {}]
=============================================================================
