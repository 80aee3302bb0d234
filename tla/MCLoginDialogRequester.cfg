SPECIFICATION Spec
CONSTANTS
  Requests = {r1, r2}
  Dialogs = {d1, d2, d3}
  NoRequest = NoRequest
  NoDialog = NoDialog
PROPERTY RequesterExists
CHECK_DEADLOCK FALSE
