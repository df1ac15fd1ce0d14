SPECIFICATION Spec
CONSTANTS
  Mods = {"old", "new"}
  NoMod = "none"
  NewMod = "new"
  Slots = {"skins", "dances"}
  NoSlot = "none"
  Old = "skins"
  Archives = {"x", "y"}
  NoArchive = "none"
  Meant <- MCMeant
  Files = {"f", "g"}
  MaxEdits = 6
  MaxTrouble = 1
INVARIANTS
  RightArchive

  
CHECK_DEADLOCK FALSE
