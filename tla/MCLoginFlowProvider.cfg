SPECIFICATION Spec
CONSTANTS
  NULL = NULL
  Word <- Words
  PortValue <- Ports
  Worlds <- PlainProviderWorlds
  LongHosts <- MCLongHosts
  SessionIds <- MCSessionIds
  States <- MCStates
  MaxRestarts = 0
INVARIANT LoginWithAnyProvider
