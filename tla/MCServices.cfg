SPECIFICATION Spec
CONSTANTS
  Configs = {c1, c2}
  NoConfig = NoConfig
  MaxTasks = 2
  Jobs = {j1}
  Lengths = {1, 2}
  BufferSizes = {1, 2}
  Fetches = {f1, f2}
  NoFetch = NoFetch
INVARIANTS TypeOK ConfigSettles FittingPageDelivered
PROPERTY FetchesAnswered
CHECK_DEADLOCK FALSE
