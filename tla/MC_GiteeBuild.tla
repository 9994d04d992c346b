---------------------------- MODULE MC_GiteeBuild ----------------------------
(* Model-checking instance of GiteeBuild: two callers, one or two servers, *)
(* a package and a build_fail placeholder, two images.                     *)
EXTENDS GiteeBuild, TLC

CONSTANTS b1, b2, s1, s2, p1, p2

MCBuilders == {b1, b2}
MCServers1 == {s1}
MCPkgs == {p1, p2}
MCFailPkgs == {p2}
MCImgList == <<"MiniLoaderAll.bin", "system.img">>
=============================================================================
