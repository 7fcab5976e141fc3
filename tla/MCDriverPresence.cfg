\* Two connections of one driver's app, one call of its toggle at a time.
SPECIFICATION FairSpec
CONSTANTS
  Tasks = {t1}
  Sockets = {s1, s2}
  NoSocket = NoSocket
INVARIANTS
  PresenceTypeOK
  OnlineIsPinging
PROPERTIES
  AutoOfflineOnlyOffNet
  ToggleNeverStuck
  OnlineIsVisible
