\* Two requests and the nightly job at once, with every status and vehicle an update may name.
SPECIFICATION Spec
CONSTANTS
  v1 = v1
  v2 = v2
  p1 = p1
  a = a
  b = b
  Companies = {a}
  Vehicles = {v1, v2}
  Products = {p1}
  Owner <- OneCompany
  MaxTransports = 2
  Callers = {c1, c2}
  Loads <- UpToOne
  Starts = {"PENDING"}
  InitialStock <- OneUnit
  MaxRequests = 5
  Updates <- StatusOrVehicle
  Settable = {"in_maintenance"}
  None = None
SYMMETRY Alike
INVARIANTS
  TypeOK
  OnlyCrowdedCarryMore
  VehicleShown
  UnitsInOnePlace
PROPERTIES
  ImplementsFleet
CHECK_DEADLOCK FALSE
