\* The instance of Delivery.cfg: one connector that may be restarted.
SPECIFICATION DeliverySpec
CONSTANTS
  a1 = a1  p1 = p1
  Agents = {a1}
  Writers = {a1}
  Projects = {p1}
  ProjectOf <- OneProject
  Nonces = {1, 2}
  Statuses = {"online"}
  Requests = {1, 2, 3, 4}
  Presented = {}
  NoAgent = NoAgent
  Malformed = Malformed
  MaxAge = 1
  FutureSkew = 0
  MaxClock = 2
  Agent = a1
  MaxRetries = 1
  Slices = 1
  MaxBeats = 2
  MaxRestarts = 1
INVARIANT MachineIsLatest
CHECK_DEADLOCK FALSE
