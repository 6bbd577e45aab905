SPECIFICATION FairRegistrySpec
CONSTANTS
  c1 = c1
  c2 = c2
  c3 = c3
  c4 = c4
  c5 = c5
  a = a
  b = b
  NoCall = NoCall
  Calls <- MCCalls
  Aliases <- MCAliases
  AliasOf <- MCAliasOf
INVARIANTS
  OneCopyPerAlias
  NoNeedlessLoad
PROPERTIES
  EveryCallEnds
