SPECIFICATION Spec
CONSTANTS
  core = core
  lib = lib
  old = old
  new = new
  h1 = h1
  h2 = h2
  h3 = h3
  h4 = h4
  survival = survival
  None = None
  Mods = {core, lib}
  Games <- MCGames
  Offers <- MCOffers
  Slots <- MCSlots
  Contents <- MCContents
  Instances = {i1, i2}
  Packs = {survival}
  Operators = {w1, w2}
  Requests <- MCRequests
  First <- MCFirst
  Edits = {"mod", "slots", "content", "delete", "review", "ban", "pack"}
  MaxEdits = 1
  MaxReleases = 2
  MaxDangers = 1
SYMMETRY Same
INVARIANTS
  PacksAreWhole
  NumberNamesOneRelease
  EveryDangerConfirmed
CHECK_DEADLOCK FALSE
