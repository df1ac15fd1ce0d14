SPECIFICATION FairSpec
CONSTANTS
  a = a
  b = b
  c = c
  v1 = v1
  v2 = v2
  dll1 = dll1
  dll2 = dll2
  dll3 = dll3
  xml = xml
  None = None
  Broken = Broken
  Roots = {a, b, c}
  Mods = {dll1, dll2, dll3, xml}
  Dlls = {dll1, dll2, dll3}
  Versions = {v1, v2}
  Pack <- MCPack
  Events = {"download", "lock", "crash"}
  MaxMishaps = 2
  MaxChanges = 2
INVARIANTS
  AcceptsWhatIsSynced
  CleanSyncInstalls
PROPERTIES
  ServerComesBack
