------------------------ MODULE MC_FlashWithSweeper -------------------------
(* FlashWithSweeper with three partitions and packages that carry their  *)
(* manifest tag and any subset of the partition images.                  *)
EXTENDS FlashWithSweeper

MCPartList == <<"boot_linux", "system", "vendor">>

MCImgName(p) == p \o ".img"

MCPkgContents ==
  {{UL, Param, Uboot, "manifest_tag.xml"} \cup S
     : S \in SUBSET {"boot_linux.img", "system.img", "vendor.img"}}

MCNameOrder ==
  <<"MiniLoaderAll.bin", "boot_linux.img", "manifest_tag.xml",
    "parameter.txt", "system.img", "uboot.img", "vendor.img">>
=============================================================================
