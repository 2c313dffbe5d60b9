CONSTANTS
  Processes = {p1, p2}
  Values = {none, small, big}
  Empty = none
  Large = {big}
SPECIFICATION Spec
INVARIANTS
  TypeOK
PROPERTIES
  ReplacesAtomically
