\* Two companies with a vehicle each.
SPECIFICATION Spec
CONSTANTS
  v1 = v1
  v2 = v2
  p1 = p1
  a = a
  b = b
  Companies = {a, b}
  Vehicles = {v1, v2}
  Products = {p1}
  Owner <- OneEach
  MaxTransports = 3
  Callers = {c1, c2}
  Loads <- Empty
  Starts = {"PENDING"}
  InitialStock <- OneUnit
  MaxRequests = 4
  Updates <- StatusOnly
  Settable = {"available"}
  None = None
INVARIANTS
  CodesAreOwn
CHECK_DEADLOCK FALSE
