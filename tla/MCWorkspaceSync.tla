-------------------------- MODULE MCWorkspaceSync --------------------------
(***************************************************************************)
(* Model values of WorkspaceSync for TLC.                                  *)
(***************************************************************************)
EXTENDS WorkspaceSync

CONSTANTS alice, bob, w1, t1, a1, a2, a3

OneThread == {t1}
OneWorkspace == {w1}
TwoHumans == {alice, bob}
FirstAddresses == [s \in Humans |-> IF s = alice THEN a1 ELSE a2]
EverywhereBoth == [w \in Workspaces |-> {alice, bob}]
ThreeEmails == {a1, a2, a3}
=============================================================================
