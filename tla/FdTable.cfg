\* What close_open_fds keeps to.
SPECIFICATION Spec
CONSTANTS
  MaxFd = 16
  MaxOpens = 5
INVARIANTS SocketsKept LeftoversBounded
