SPECIFICATION Spec
CONSTANTS
  Principals = {"bot"}
  BootKeys <- MCBootKeys
  KeyRequests <- MCKeyRequests
  Patches <- MCPatches
  Requests <- MCRequests
  ReservedOrg = "ryvex"
  Clients = {c1, c2}
  PageLimit = 1
  MaxIds = 3
  MaxWrites = 2
  MaxRequests = 3
  MaxFaults = 1
  MaxRestarts = 1
INVARIANTS TypeOK PassedOnStoredKeys ImmediateWhenCalm
PROPERTIES RefreshFaithful CacheConverges
