\* One project with two agents; the dashboard connects once.
SPECIFICATION LiveSpec
CONSTANTS
  a1 = a1  a2 = a2  p1 = p1  p2 = p2
  Projects = {p1}
  Agents = {a1, a2}
  Home <- SameProject
  Sockets = {s1}
  MaxFaults = 0
  Preferred = p1
  Tasks = {t1}
  MaxGestures = 1
  NoProject = NoProject
  NoSocket = NoSocket
  NoTimer = NoTimer
INVARIANT ConnectedShowsAgents
CHECK_DEADLOCK FALSE
