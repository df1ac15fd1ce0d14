SPECIFICATION FairSpec
CONSTANTS
  pack = pack
  win32 = win32
  server = server
  None = None
  Instances = {i1, i2}
  Packs = {pack}
  Channels = {win32}
  Servers = {server}
  MaxChanges = 3
  FirstServers <- MCFirstServers
PROPERTIES
  EdgeConverges
  ServersConverge
CHECK_DEADLOCK FALSE
