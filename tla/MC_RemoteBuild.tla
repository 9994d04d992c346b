--------------------------- MODULE MC_RemoteBuild ---------------------------
(* Model-checking instance of RemoteBuild: two device pipelines, one or    *)
(* two build servers, two packages, the dayu200 loader and system images. *)
EXTENDS RemoteBuild, TLC

CONSTANTS b1, b2, s1, s2, p1, p2

MCBuilders == {b1, b2}
MCServers1 == {s1}
MCServers2 == {s1, s2}
MCPkgs == {p1, p2}
MCPkgs1 == {p1}
MCImgList == <<"MiniLoaderAll.bin", "system.img">>

\* Callers and packages are interchangeable model values.
MCSymmetry == Permutations(MCBuilders) \cup Permutations(MCPkgs)
=============================================================================
