SPECIFICATION Spec
CONSTANTS
  Packs = {"platform", "new"}
  NoPack = "none"
  NewPack = "new"
  PlatformPack = "platform"
  Mods = {"plugin", "mod"}
  NoMod = "none"
  Plugins = {"plugin"}
  Built = {"plugin"}
  Newest = 2
  Theme <- MCTheme
  Games = {"old", "next"}
  DefaultGame = "old"
  Declares <- MCDeclares
  DependsOn <- MCDependsOn
  Slots = {1, 2}
  MaxMoves = 2
  MaxSaves = 2
  MaxTrouble = 1
INVARIANTS
  IntendedContents
PROPERTIES
  EntriesSurvive
  DeployFinishes
CHECK_DEADLOCK FALSE
