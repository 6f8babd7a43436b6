SPECIFICATION Spec
CONSTANTS
  dashboard = dashboard
  editor = editor
  Dashboards = {dashboard}
  Standalone = {editor}
  Actions <- MCActions
  Keys <- MCKeys
  Default <- MCDefault
  Edits <- MCEdits
  Torn = Torn
  None = None
  MaxInputs = 4
INVARIANTS
  SavedAtomically
CHECK_DEADLOCK FALSE
