---------------------------- MODULE MC_LogOutput ----------------------------
(* Model-checking instance of LogOutput: two packages and up to eight     *)
(* opened files, four successful calls of SetLogOutput.                    *)
EXTENDS LogOutput, TLC

CONSTANTS p1, p2

MCPkgs == {p1, p2}
MCMaxOpens == 8

\* The two packages play the same part.
Sym == Permutations(MCPkgs)
=============================================================================
