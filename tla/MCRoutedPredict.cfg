SPECIFICATION RoutedSpec
CONSTANTS
  Names <- MCNames
  Configured <- MCNames
  InitialMax = 1
  MaxPreload = 0
  MaxDepth = 6
  MaxChars = 22
  OtherScripts = {"greek", "han"}
  Requests <- AllRequests
  Routers <- AllRouters
INVARIANTS
  UnreadableAvoided
  MarginDecides
  TypedOnlyWhenAsked
  RoutedIsResident
