\* Two requests with one key on one process without Redis, or on two with it;
\* clients send again when they like, and everything may fail.
SPECIFICATION FairSpec
CONSTANTS
  Servers = {s1, s2}
  Home = s1
  MaxFaults = 4
  Requests = {r1, r2}
  CardRequests = {r1}
  Modes = {"memory", "redis"}
  Faults = {"user", "stripe", "queue", "mail", "redis", "crash"}
  None = None
INVARIANTS
  TypeOK
  OneOrderPerKey
  ReplayedWasPlaced
  ClaimHasOwner
PROPERTIES
  KeyComesFree
CHECK_DEADLOCK FALSE
