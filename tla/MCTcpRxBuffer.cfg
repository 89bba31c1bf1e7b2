SPECIFICATION Spec
CONSTANTS
  StreamEnd = 9
  MaxBuffer = 7
  MaxBlocks = 3
INVARIANT ListsSound
PROPERTY ImplementsStream
