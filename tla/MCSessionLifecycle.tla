------------------------ MODULE MCSessionLifecycle ------------------------
(***************************************************************************)
(* Small instances of SessionLifecycle: two sessions of the same name, the *)
(* second created when the first is archived or gone, or at the same time. *)
(***************************************************************************)
EXTENDS SessionLifecycle

CONSTANTS alpha

SameName == [s \in Sessions |-> alpha]

\* Both sessions in one workspace, or each in one of its own: then the second one is
\* also created while the first is live.
SameWorkspace == [s \in Sessions |-> {"web"}]
OwnWorkspaces == [s \in Sessions |-> {s}]
=============================================================================
