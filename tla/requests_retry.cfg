\* Two processes and Redis, clients that send again before they have an answer; nothing fails.
SPECIFICATION Spec
CONSTANTS
  Servers = {s1, s2}
  Home = s1
  MaxFaults = 0
  Requests = {r1, r2, r3}
  CardRequests = {r1}
  Modes = {"redis"}
  Faults = {}
  None = None
PROPERTIES
  RefusedForCause
CHECK_DEADLOCK FALSE
