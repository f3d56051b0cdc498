SPECIFICATION Spec
CONSTANTS
  Ropes = {x, y}
  a = a
  b = b
  Pieces <- MCPieces
  NUL = NUL
  Fresh = Fresh
  MaxNodes = 6
  MaxSize = 4
INVARIANTS TypeOK PathIntact BufferHoldsSuffix AtAgrees
PROPERTIES ImplementsText WalkEnds
