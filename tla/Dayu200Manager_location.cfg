CONSTANTS
  d1 = d1
  d2 = d2
  s1 = s1
  p1 = p1
  None = None
  DeviceList <- MCDeviceList
  LocationIDList <- MCLocationIDList
  LocOf <- MCLocOf
  Servers <- MCServers
  Pkgs <- MCPkgs
  Images <- MCImages

SPECIFICATION Spec

INVARIANT FlashesOwnDevice
