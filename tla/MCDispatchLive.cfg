\* Liveness: two workers, two descriptors.
CONSTANTS
  N = 2
  Fds = {f1, f2}
  EVENT = 3
  Listen = Listen
  NoFd = NoFd
SPECIFICATION FairSpec
PROPERTIES ServerKeepsPolling QueuedIsRun GoneIsReleased
