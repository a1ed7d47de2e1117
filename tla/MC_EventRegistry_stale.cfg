CONSTANTS
  h1 = h1
  h2 = h2
  GENERIC = GENERIC
  f = f
  g = g
  a1 = a1
  a2 = a2
  a3 = a3
  NULL = NULL
  Handles <- MCOneHandle
  Types <- MCTypes
  Closures <- MCClosures
  Addrs <- MCTwoAddrs
  AddMasks <- MCAddMasks
  ModifyMasks <- MCModifyMasks
  AlwaysReported <- MCAlwaysReported
  MaxCalls = 1

SPECIFICATION Spec

PROPERTY FiresOnlyCurrentCallback
