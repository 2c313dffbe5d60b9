CONSTANTS
  divided = divided
  plain = plain
  Widgets <- MCWidgets
  Parts <- MCParts
  Sizes = {s1, s2}
  MaxChanges = 2
SPECIFICATION Spec
INVARIANTS
  TypeOK
  ScreenShowsPixels
PROPERTIES
  RequestsAreDrawn
