\* Safety and refinement: two workers, two descriptors, epoll_wait limited to two events.
CONSTANTS
  N = 2
  Fds = {f1, f2}
  EVENT = 2
  Listen = Listen
  NoFd = NoFd
SPECIFICATION Spec
SYMMETRY FdSymmetry
INVARIANTS MutexHeld OnePlace TasksAccounted NoLostWakeup
PROPERTY ImplementsConnLife
