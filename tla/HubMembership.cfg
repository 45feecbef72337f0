SPECIFICATION HubSpec
CONSTANTS
  Runtimes <- MCRuntimes
  MaxUsers = 2
  MaxFlows = 2
  MaxEvents = 2
INVARIANTS DirectorySound
PROPERTIES ViewConverges
CHECK_DEADLOCK FALSE
