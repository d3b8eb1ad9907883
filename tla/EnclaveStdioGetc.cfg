\* Standard input, character by character.
SPECIFICATION Spec
CONSTANTS
  MaxText = 6
  MaxReads = 6
  MaxBack = 2
  Chunk = 2
  BufferSize = 4
INVARIANTS GetcNextChar
