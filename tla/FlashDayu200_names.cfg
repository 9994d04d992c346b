CONSTANTS
  PartList <- DayuPartList
  PkgContents <- DayuPkgContents
  ImgName <- DayuImgName

SPECIFICATION Spec

INVARIANT BuiltPartitionsFlashed
