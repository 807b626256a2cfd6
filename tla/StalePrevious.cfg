\* Two heartbeats of one agent with different statuses.
SPECIFICATION Spec
CONSTANTS
  a1 = a1  a2 = a2  p1 = p1  p2 = p2
  r1 = r1  r2 = r2  r3 = r3  n1 = n1  n2 = n2
  NoAgent = NoAgent
  Malformed = Malformed
  Agents = {a1}
  Writers = {a1}
  Projects = {p1}
  ProjectOf <- OneProject
  Nonces = {n1, n2}
  Statuses = {"online", "degraded"}
  Requests = {r1, r2}
  Presented <- ConnectorsPresented
  MaxAge = 1
  FutureSkew = 0
  MaxClock = 1
PROPERTY ChangeCarriesPrevious
