------------------------- MODULE MC_PackageResolver -------------------------
(* Model-checking instance of PackageResolver: three CI daily builds and  *)
(* all three strategies.                                                   *)
EXTENDS GiteeCommon, TLC

MCMaxTime == 3
MCModes == {"ci", "dir", "orfail"}

=============================================================================
