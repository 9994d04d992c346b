CONSTANTS
  p1 = p1
  p2 = p2
  Pkgs <- MCPkgs
  MaxOpens <- MCMaxOpens

SYMMETRY Sym

SPECIFICATION Spec

INVARIANT TypeOK
INVARIANT NoLeakedHandle
INVARIANT WritersOpen
