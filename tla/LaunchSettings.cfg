SPECIFICATION Spec
CONSTANTS
  None = None
  Rejected = Rejected
  Blank = ""
  Trim <- MCTrim
  CliForms <- MCCliForms
  ManagerForms <- MCManagerForms
  Networks <- MCNetworks
  Tables <- MCTables
  Host <- MCHost
  ConfigFiles <- MCConfigs
  Given <- OneOrTwo
  Clients = {c1}
  FirstPanel <- OnSecure
INVARIANTS
  ExposesNoMore
  RoutedAsProbed
  AsAsked
