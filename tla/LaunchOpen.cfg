SPECIFICATION Spec
CONSTANTS
  None = None
  Rejected = Rejected
  Blank = ""
  Trim <- MCTrim
  CliForms <- AllCliForms
  ManagerForms <- AllManagerForms
  Networks <- MCNetworks
  Tables <- MCTables
  Host <- MCHost
  ConfigFiles <- MCConfigs
  Given <- OneOrTwo
  Clients = {c1}
  FirstPanel <- OnSecure
\* One of these at a time; each is refuted.  NothingRelaxedUnasked is with
\* FirstPanel <- OnBlank: the page has not fetched the status yet.
INVARIANT RunsAsPreviewed
\* INVARIANT FirefoxObeysTable
\* INVARIANT SpeaksProxysProtocol
\* INVARIANT StatusIsTrue
\* INVARIANT NoVpnWithoutEndpoint
\* INVARIANT NothingRelaxedUnasked
\* PROPERTY UntouchedFlagsStay
\* PROPERTY OneFlagAtATime
\* PROPERTY ReductionIsWarned
