SPECIFICATION FairSpec
CONSTANTS
  a = a
  b = b
  z1 = z1
  z2 = z2
  o1 = o1
  o2 = o2
  None = None
  Private = Private
  Roots <- MCRoots
  Shas <- MCShas
  Overlays <- MCOverlays
  Manifests <- MCManifests
  Events = {"crash", "io", "lock", "player", "force"}
  MaxBreaks = 2
  Parts = {"m", "n", "f", "Skins", "skins", "config", "look", ".."}
  LowerCase <- MCLowerCase
  Unsafe = {".."}
  Hinted = {"Skins", "skins"}
  Skipped = {"config"}
  Media = {"look"}
  Trees <- MCTrees
  Layers <- MCLayers
INVARIANTS
  ArchivesHold
  JournalCoversMoves
  CommitIsTruthful
  MovedContentSurvives
  StateMatchesDisk
PROPERTIES
  PrivateKept
  SyncEnds
