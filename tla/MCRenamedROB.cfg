CONSTANTS
  r1 = r1
  r2 = r2
  Regs = {r1, r2}
  NTags = 4
  nQueueEntries = 3
  Forms <- UpdateForms
  Values <- Entries
SPECIFICATION RobSpec
INVARIANTS TablesFollowRob TypeInvariant ContainsExact
PROPERTIES TagStable RefinesDeque
