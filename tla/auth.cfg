SPECIFICATION FairSpec
CONSTANTS
  Client = {engine, uploader}
  Desk = {app, cli}
  Grant = {g1, g2, g3}
  Pair = {p}
  MaxFaults = 2
  None = None
INVARIANTS AuthTypeOK LastSignInStays PairsHaveAccount
PROPERTIES GoodSignInHeals
CHECK_DEADLOCK FALSE
