SPECIFICATION FairSpec
CONSTANTS
  NULL = NULL
  Word <- Words
  PortValue <- Ports
  Worlds <- MCWorlds
  LongHosts <- MCLongHosts
  SessionIds <- MCSessionIds
  States <- MCStates
  MaxRestarts = 1
INVARIANTS TypeOK NoLoginLoop FailsOnlyAfterRestart ThrowsOnlyUnvalidated LogoutComplete
PROPERTIES LoginCompletes
