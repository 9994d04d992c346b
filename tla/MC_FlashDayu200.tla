--------------------------- MODULE MC_FlashDayu200 --------------------------
(* FlashDevice with the real dayu200 data: partList of                    *)
(* pkg/dayu200/flash.go and a package built by Build, i.e. holding the    *)
(* basenames of imgList of pkg/dayu200/dayu200.go.                        *)
EXTENDS FlashDevice

DayuPartList ==
  <<"boot_linux", "system", "vendor", "userdata", "resource", "ramdisk",
    "chipset", "sys-prod", "chip-prod", "updater">>

DayuImgName(p) == p \o ".img"

\* Basenames of dayu200 imgList: what BuildNoRetry copies into the package.
DayuBuiltImages ==
  {"MiniLoaderAll.bin", "boot_linux.img", "parameter.txt", "system.img",
   "uboot.img", "userdata.img", "vendor.img", "resource.img", "config.cfg",
   "ramdisk.img", "sys_prod.img", "chip_prod.img", "updater.img"}

DayuPkgContents == {DayuBuiltImages}

\* The built images that hold a partition (all but the loader, the
\* parameter table, uboot and config.cfg).
BuiltPartitionImages ==
  DayuBuiltImages \ {UL, Param, Uboot, "config.cfg"}

\* (Violation run) A successful flash of a package that Build produced has
\* written every partition image Build collected into it.
BuiltPartitionsFlashed ==
  outcome = "ok" =>
    \A f \in BuiltPartitionImages :
      \E i \in 1 .. Len(log) : log[i].res = "ok" /\ DayuImgName(log[i].op) = f
=============================================================================
