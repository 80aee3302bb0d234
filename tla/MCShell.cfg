SPECIFICATION Spec
CONSTANTS
  Shells = {s1, s2, s3}
  Addresses = {a1, a2}
  NoShell = NoShell
  Global = Global
  NoContext = NoContext
  Report = Report
INVARIANTS TypeOK ContextOutlivesContents HandlesAreFresh RegisteredIsUsable
  PrefsWithinSettings NoOrphanContext
PROPERTY ClosingCompletes
