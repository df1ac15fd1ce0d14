SPECIFICATION Spec
CONSTANTS
  Launchers = {"join", "update"}
  Command <- MCCommand
  Files = {"version.js", "cli.js"}
  VersionFile = "version.js"
  Versions = {1, 2, 3}
  Inside <- MCInside
  MaxRotations = 1
  MaxPublished = 1
  MaxTrouble = 1
  MaxStarts = 2
INVARIANTS
  RingReachesClients
  UpdateIsWhole
PROPERTY JoinEnds
CHECK_DEADLOCK FALSE
