SPECIFICATION Spec
CONSTANTS
  None = None
  root = root
  box = box
  a = a
  b = b
  dialog = dialog
  c = c
  alert = alert
  Widgets <- MCWidgets
  Parent <- MCParent
  Content = root
  Sheets = {dialog, alert}
  Focusable = {a, b, c}
  Targets = {a}
  Hideable = {dialog}
  Disableable = {a}
  Refocusable = {a}
  Detachable = {box}
  Containers = {root, dialog}
  Grabbers = {b, c}
  MaxNesting = 2
  CallbackOps <- HandlersCall
PROPERTIES FocusOwnerIsMapped
