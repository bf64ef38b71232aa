---------------------------- MODULE Repositories ----------------------------
(* The directories the workspaces are open on, and the worktrees of git     *)
(* they are in: what the rails (GitRail) and the operations (GitOps) share. *)

CONSTANTS
    Ws,     \* the workspaces ever opened: a SessionId is never reused
    Repos,  \* the repositories, a worktree each
    Repo    \* Repo[w]: the repository w's directory is in, or will be in
=============================================================================
