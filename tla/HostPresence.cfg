SPECIFICATION FairSpec
CONSTANTS
  HostConn = {hc1, hc2}
  Callback = {cb1, cb2}
  DevConn = {dc1}
  OfflineAfter = 2
  NoTimer = NoTimer
  MaxClock = 6
  MaxTouch = 3
INVARIANTS TypeOK OnlineIsGuarded ToldUnlessOvertaken
PROPERTIES SilentGoesOffline
CHECK_DEADLOCK FALSE
