---------------------------- MODULE MCShellJobs ----------------------------
(* Instances of the shell's job control: what the user types in each run. *)
EXTENDS ShellJobs

FgBg == {"fg", "bg"}
BgOnly == {"bg"}
============================================================================
