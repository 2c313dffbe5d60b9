CONSTANTS
  MaxEvents = 3
  Actions = {a1}
SPECIFICATION Spec
INVARIANTS
  TypeOK
  ServedContextIsAlive
  ActionsAreAnswered
PROPERTIES
  CallsReturn
  PreferencesFollow
  ClientsCatchUp
