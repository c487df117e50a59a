------------------------------- MODULE MCTask -------------------------------
(***************************************************************************)
(* TLC instance of the two sides of a task: the image and the container it *)
(* runs in (Launch, with the files of MCLaunch), and the workspace that    *)
(* its launches share (Workspace, with the branches of MCWorkspace).  They *)
(* share no state: a behaviour is one of one of them.                      *)
(***************************************************************************)
EXTENDS MCLaunch, MCWorkspace

VARIABLE part   \* whose behaviour it is

\* A state that either may start in, for when it is not its turn: no verb runs on
\* files that do not load, and what the roster promises is not judged over again.
NoVerb   == Init /\ regime = CHOOSE r \in Catalog : LoadRoster(r.raw) = None
NoLaunch == WorkspaceInit /\ place = "container"

MCInit ==
    \/ part = "launch" /\ Init /\ NoLaunch
    \/ part = "workspace" /\ NoVerb /\ WorkspaceInit

MCNext ==
    \/ part = "launch" /\ Next /\ UNCHANGED <<part, workspaceVars>>
    \/ part = "workspace" /\ WorkspaceNext /\ UNCHANGED <<part, vars>>

MCSpec == MCInit /\ [][MCNext]_<<part, vars, workspaceVars>>

=============================================================================
