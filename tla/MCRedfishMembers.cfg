SPECIFICATION TreeSpec
CONSTANTS
  Roots <- MCRoots
  Documents <- MCDocuments
  Payloads <- MCPayloads
  UserRules <- MCUserRules
  MaxChanges = 3
  Clients = {c1, c2}
  Members = {3, 4, 5}
  NotNumbered = {}
  Slots = {3, 4, 5}
  Untagged = {4}
  Generations <- MCGenerations
  Nobody = Nobody
  MaxWrites = 3
  MaxMoves = 2
  MaxPolls = 4
  TreeRoots <- MCTreeRoots
  MaxClock = 2
SYMMETRY Symmetry
CHECK_DEADLOCK FALSE
INVARIANTS
  MembersFiltered
