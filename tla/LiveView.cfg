\* Two projects, one agent, two overlapping tasks, two sockets.
SPECIFICATION LiveSpec
CONSTANTS
  a1 = a1  a2 = a2  p1 = p1  p2 = p2
  Projects = {p1, p2}
  Agents = {a1}
  Home <- JustOne
  Sockets = {s1, s2}
  MaxFaults = 1
  Preferred = p1
  Tasks = {t1, t2}
  MaxGestures = 3
  NoProject = NoProject
  NoSocket = NoSocket
  NoTimer = NoTimer
INVARIANTS
  LiveTypeOK
  OneStream
  NothingHandedIsLost
  ViewIsOfOneProject
PROPERTIES
  FanOutReachesAll
  StreamRecovers
CHECK_DEADLOCK FALSE
