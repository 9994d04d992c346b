CONSTANTS
  PartList <- MCPartList
  PkgContents <- MCPkgContents
  ImgName <- MCImgName

SPECIFICATION Spec

INVARIANT TypeOK
INVARIANT ToolLogFollowsPlan
PROPERTY RefinesFlashAbstract
PROPERTY FlashCallReturns
