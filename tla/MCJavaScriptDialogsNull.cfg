SPECIFICATION Spec
CONSTANTS
  Tabs = {t1, t2}
  Dialogs = {d1, d2, d3, d4}
  NoDialog = NoDialog
INVARIANT NeverAborts
CHECK_DEADLOCK FALSE
