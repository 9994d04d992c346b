--------------------------- MODULE MC_FlashAndTest ---------------------------
(* Model-checking instance of FlashAndTest: two device pipelines sharing  *)
(* one tester, two test cases, one package.                              *)
EXTENDS FlashAndTest, TLC

CONSTANTS d1, d2, v1

MCDevices == {d1, d2}
MCCases == {"c1", "c2"}
MCVersions == {v1}
MCKinds == {"common", "manual", "pkg_available"}

\* Devices are interchangeable model values.
MCSymmetry == Permutations(MCDevices)
=============================================================================
