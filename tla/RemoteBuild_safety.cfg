CONSTANTS
  b1 = b1
  b2 = b2
  s1 = s1
  s2 = s2
  p1 = p1
  p2 = p2
  None = None
  Builders <- MCBuilders
  Servers <- MCServers1
  Pkgs <- MCPkgs
  ImgList <- MCImgList

SPECIFICATION Spec
SYMMETRY MCSymmetry

INVARIANT TypeOK
INVARIANT PoolConsistent
INVARIANT ImagesFromOwnManifest
PROPERTY RefinesBuildAbstract
