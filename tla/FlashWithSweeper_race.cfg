CONSTANTS
  PartList <- MCPartList
  PkgContents <- MCPkgContents
  ImgName <- MCImgName
  NameOrder <- MCNameOrder

INIT InitW
NEXT NextW

INVARIANT FlashedAsPackaged
