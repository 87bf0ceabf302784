------------------------------ MODULE MCInitFiles ------------------------------
(***************************************************************************)
(* InitFiles for TLC: the .gitignore `check` writes too, the hook, and the *)
(* workflow, which comes last and lies two directories deep.               *)
(***************************************************************************)
EXTENDS InitFiles

CONSTANTS gitignore, hook, workflow

ThreeFiles == <<gitignore, hook, workflow>>
ThreeParents == [f \in {gitignore, hook, workflow} |->
                   CASE f = gitignore -> <<".hologram">>
                     [] f = hook -> <<".githooks">>
                     [] f = workflow -> <<".github", ".github/workflows">>]
=============================================================================
