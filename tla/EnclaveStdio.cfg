\* Where the shim is the C library.
SPECIFICATION Spec
CONSTANTS
  MaxText = 6
  MaxReads = 6
  MaxBack = 2
  Chunk = 2
  BufferSize = 4
INVARIANTS ReadsText
