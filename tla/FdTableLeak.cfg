\* What its comment says.
SPECIFICATION Spec
CONSTANTS
  MaxFd = 16
  MaxOpens = 5
INVARIANTS AllClosed
