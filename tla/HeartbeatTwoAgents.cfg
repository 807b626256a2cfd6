\* Two requests, two agents in two projects, matching and mismatched
\* credentials; two nonces and two statuses, so that one agent may have two
\* heartbeats; the clock moves once.
SPECIFICATION Spec
CONSTANTS
  a1 = a1  a2 = a2  p1 = p1  p2 = p2
  r1 = r1  r2 = r2  r3 = r3  n1 = n1  n2 = n2
  NoAgent = NoAgent
  Malformed = Malformed
  Agents = {a1, a2}
  Writers = {a1, a2}
  Projects = {p1, p2}
  ProjectOf <- ProjectPerAgent
  Nonces = {n1, n2}
  Statuses = {"online", "degraded"}
  Requests = {r1, r2}
  Presented <- MixedPresented
  MaxAge = 0
  FutureSkew = 0
  MaxClock = 2
INVARIANTS
  TypeOK
  DurableBeforeLive
  MachineFromOneHeartbeat
  NeverFromFuture
PROPERTIES
  RevokedStaysSilent
  Answered
