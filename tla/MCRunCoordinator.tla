-------------------------- MODULE MCRunCoordinator --------------------------
(***************************************************************************)
(* Instances of RunCoordinator for TLC.                                    *)
(***************************************************************************)
EXTENDS RunCoordinator, TLC

\* Two reads that may run, a write that needs approval, a repository read that an
\* override denies, and a tool that the model made up.
SomeTools == {"internal_health", "http_json_read", "technocore_signed_write",
              "github_repo_read", "shell"}

RepoDenied == "github_repo_read" :> "DENY"
=============================================================================
