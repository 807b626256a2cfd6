\* One heartbeat and its retry.
SPECIFICATION DeliverySpec
CONSTANTS
  a1 = a1  p1 = p1
  Agents = {a1}
  Writers = {a1}
  Projects = {p1}
  ProjectOf <- OneProject
  Nonces = {1}
  Statuses = {"online"}
  Requests = {1, 2}
  Presented = {}
  NoAgent = NoAgent
  Malformed = Malformed
  MaxAge = 1
  FutureSkew = 0
  MaxClock = 1
  Agent = a1
  MaxRetries = 1
  Slices = 1
  MaxBeats = 1
  MaxRestarts = 0
INVARIANT NoncePerRequest
CHECK_DEADLOCK FALSE
