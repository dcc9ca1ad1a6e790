\* One part at a time has work; the disk fails, descriptors run out, a day and a restart pass.
SPECIFICATION MCSpec
CONSTANTS
  N = 1
  HoursPerDay = 1
  MaxHour = 1
  MaxFds = 4
  DiskFaults = TRUE
  Threads = {t1, t2}
  Users = {u1, u2}
  MaxRequests = 2
  MaxRecords = 2
  MayRestart = TRUE
  NULL = NULL
  NoOne = NoOne
  NoUser = NoUser
INVARIANTS TypeOK DeathExplained LogGuarded LogFollowsDay FdsAccounted   
SYMMETRY Symmetry
CHECK_DEADLOCK FALSE
