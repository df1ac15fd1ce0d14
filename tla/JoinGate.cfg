SPECIFICATION FairSpec
CONSTANTS
  ann = ann
  annId = annId
  sam = sam
  None = None
  Syncing = Syncing
  Ids <- MCIds
  Players <- MCPlayers
  ClientIds <- MCClientIds
  ServerIds <- MCServerIds
  Releases = {r1}
  Groups = {g1, g2}
  Numbers = {1, 2}
  AtStart = {r1}
  Events = {"lost", "slow", "leave", "restart", "settings", "syncing"}
  MaxChanges = 1
  MaxMishaps = 1
INVARIANTS
  EntrySupervised
PROPERTIES
  HelloUsedOnce
  FreshDecision
  JoinDecided
