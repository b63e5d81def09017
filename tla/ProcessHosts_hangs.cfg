SPECIFICATION Spec
CONSTANTS
  Kinds = {"plugin"}
  Capacity = 1
  MaxOutput = 2
  Sizes = {1, 2, 3}
  StdinLimit = 2
  Limit <- MCLimit
  PluginSizes = {1, 2}
  CommandRequests <- MCCommandRequests
  MaxLimits <- MCMaxLimits
  MaxStdin = 1
  MaxModule = 1
  Imports = {"fd_read", "fd_write"}
PROPERTIES
  HungPluginIsKilled
CHECK_DEADLOCK FALSE
