\* The whole program: usable, extreme and unusable files, every kind of
\* command line; requests that end at once or at their timeout; one of them,
\* or one sleep, may overrun by six seconds per heartbeat.
SPECIFICATION ProcSpec
CONSTANTS
  Files <- Deployed
  CommandLines <- Typed
  Durations = {0}
  Overruns = {0, 6000}
  MaxDrift = 6000
  MaxBeats = 2
  MaxRestarts = 1
INVARIANTS
  ProcTypeOK
  NothingSentUnchecked
  FreshWhenSent
  StopBounded
  ExitStatusTells
PROPERTIES
  Spacing
  ImplementsConnector
  SendOnceEnds
  StopHonoured
  UsableSends
CHECK_DEADLOCK FALSE
