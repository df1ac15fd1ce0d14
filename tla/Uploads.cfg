SPECIFICATION FairSpec
CONSTANTS
  dll = dll
  browser = browser
  script = script
  None = None
  Shas = {dll}
  Archive <- MCArchive
  Clients <- MCClients
  Browsers <- MCBrowsers
  Sessions = {s1, s2}
  Chunks = {1, 2}
  Events = {"edited", "lost", "s3", "ban", "expire", "restart", "torn"}
  MaxMishaps = 1
  MaxGc = 1
INVARIANTS
  ReferencedIsKept
PROPERTIES
  UploadSucceeds
CHECK_DEADLOCK FALSE
