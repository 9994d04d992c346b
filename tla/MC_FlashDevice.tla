--------------------------- MODULE MC_FlashDevice ---------------------------
(* Model-checking instance of FlashDevice: three optional partitions; the *)
(* package always has the loader, parameter table and uboot, and any     *)
(* subset of the partition images.                                        *)
EXTENDS FlashDevice

MCPartList == <<"boot_linux", "system", "vendor">>

MCImgName(p) == p \o ".img"

MCPkgContents ==
  {{UL, Param, Uboot} \cup S : S \in SUBSET {"boot_linux.img", "system.img", "vendor.img"}}
=============================================================================
