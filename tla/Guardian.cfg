SPECIFICATION Spec
CONSTANTS
  Guardians = {"strict", "lenient"}
  StartsAnyway = {"lenient"}
  Diagnostics = {e1, e2}
  NoEvent = NoEvent
  MaxFailures = 2
  CoolDown = 2
  FlushLimit = 1
  MaxPoison = 1
  MaxOutages = 1
  MaxTrouble = 1
INVARIANTS
  EventsKept
PROPERTIES
  ServerRuns
  QueueDrains
