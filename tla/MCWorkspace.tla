---------------------------- MODULE MCWorkspace ----------------------------
(***************************************************************************)
(* TLC instances of Workspace: an upstream with two branches, and a launch *)
(* that asks for one of them, for one it lacks, or for none.               *)
(***************************************************************************)
EXTENDS Workspace

CONSTANTS main, topic, lost

MCWanted == {Absent, topic, lost}

=============================================================================
