SPECIFICATION Spec
CONSTANTS
  Configs = {c1, c2}
  NoConfig = NoConfig
  MaxTasks = 2
  Jobs = {j1}
  Lengths = {0, 2}
  BufferSizes = {1, 3}
  Fetches = {f1}
  NoFetch = NoFetch
INVARIANT PageDelivered
