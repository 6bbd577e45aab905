SPECIFICATION Spec
CONSTANTS
  Names = {english, multilingual, typed}
  Configured = {english, multilingual, typed}
  InitialMax = 1
  MaxPreload = 3
INVARIANTS
  ViewsAgree
  PreloadFromOwn
PROPERTIES
  EvictsLeastRecent
