SPECIFICATION FairSpec
CONSTANTS
  File = {"sshd_config", "passwd"}
  Content = {"old", "new", "newer"}
  Task = {t1, t2}
  MaxDisturbances = 3
INVARIANTS
  TypeOK
  BaselineKnown
PROPERTIES
  BaselineConverges
